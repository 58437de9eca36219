--------------------------- MODULE Lifecycle_proofs ---------------------------
(***************************************************************************)
(* Theorems about Lifecycle, for any number of auctions, items, instances  *)
(* and crashes, any resolution of the clock and any batch size.            *)
(***************************************************************************)
EXTENDS LifecycleProperties, TLAPS

-----------------------------------------------------------------------------
(* The goroutines                                                          *)

JobCounts == [Instances -> [Auctions -> [Stages -> Nat]]]

\* some goroutine of instance i is at stage s of ending a
Live(i, a, s) == jobs[i][a][s] > 0

\* A goroutine that goes on is at its new stage; the others stay.
LEMMA AdvanceJobs ==
  ASSUME jobs \in JobCounts, NEW i \in Instances, NEW a \in Auctions,
         NEW s \in Stages, NEW t \in Stages, s # t, Advance(i, a, s, t)
  PROVE  /\ jobs' \in JobCounts
         /\ Live(i, a, s)
         /\ \A k \in Instances, b \in Auctions, u \in Stages :
              Live(k, b, u)' => Live(k, b, u) \/ (k = i /\ b = a /\ u = t)
<1> DEFINE new == [jobs[i][a] EXCEPT ![s] = @ - 1, ![t] = @ + 1]
<1>1. jobs[i][a] \in [Stages -> Nat] /\ jobs[i][a][s] > 0
  BY DEF JobCounts, Advance
<1>2. jobs' = [jobs EXCEPT ![i] = [jobs[i] EXCEPT ![a] = new]]
  BY <1>1 DEF Advance, JobCounts
<1>3. new \in [Stages -> Nat] /\ \A u \in Stages : new[u] > 0 => jobs[i][a][u] > 0 \/ u = t
  BY <1>1
<1> HIDE DEF new
<1>4. jobs' \in JobCounts
  BY <1>2, <1>3 DEF JobCounts
<1>5. \A k \in Instances, b \in Auctions :
        jobs'[k][b] = IF k = i /\ b = a THEN new ELSE jobs[k][b]
  BY <1>2 DEF JobCounts
<1> QED
  BY <1>1, <1>3, <1>4, <1>5 DEF Live

\* a goroutine of instance i that ends a is done
Drop(i, a) ==
  /\ jobs[i][a]["remove"] > 0
  /\ jobs' = [jobs EXCEPT ![i][a]["remove"] = @ - 1]

\* A goroutine that ends leaves the others.
LEMMA DropJobs ==
  ASSUME jobs \in JobCounts, NEW i \in Instances, NEW a \in Auctions, Drop(i, a)
  PROVE  /\ jobs' \in JobCounts
         /\ Live(i, a, "remove")
         /\ \A k \in Instances, b \in Auctions, u \in Stages : Live(k, b, u)' => Live(k, b, u)
<1> DEFINE new == [jobs[i][a] EXCEPT !["remove"] = @ - 1]
<1>1. jobs[i][a] \in [Stages -> Nat] /\ jobs[i][a]["remove"] > 0
  BY DEF JobCounts, Drop
<1>2. jobs' = [jobs EXCEPT ![i] = [jobs[i] EXCEPT ![a] = new]]
  BY <1>1 DEF JobCounts, Drop
<1>3. new \in [Stages -> Nat] /\ \A u \in Stages : new[u] > 0 => jobs[i][a][u] > 0
  BY <1>1 DEF Stages
<1>4. new \in [Stages -> Nat]
  BY <1>3
<1> HIDE DEF new
<1>5. jobs' \in JobCounts
  BY <1>2, <1>4 DEF JobCounts
<1>6. \A k \in Instances, b \in Auctions :
        jobs'[k][b] = IF k = i /\ b = a THEN new ELSE jobs[k][b]
  BY <1>2 DEF JobCounts
<1> QED
  BY <1>1, <1>3, <1>5, <1>6 DEF Live, Stages

\* A tick of the loop starts goroutines for members that are due.
LEMMA SpawnJobs ==
  ASSUME jobs \in JobCounts, NEW i \in Instances, CheckExpired(i)
  PROVE  /\ jobs' \in JobCounts
         /\ \A k \in Instances, b \in Auctions, u \in Stages :
              Live(k, b, u)' => Live(k, b, u) \/ (b \in Expired /\ u = "read")
<1>1. PICK B \in Batches :
        jobs' = [jobs EXCEPT ![i] = [a \in Auctions |->
                   IF a \in B THEN [jobs[i][a] EXCEPT !["read"] = @ + 1] ELSE jobs[i][a]]]
  BY DEF CheckExpired
<1>2. B \subseteq Expired
  BY DEF Batches
<1> DEFINE new(a) == IF a \in B THEN [jobs[i][a] EXCEPT !["read"] = @ + 1] ELSE jobs[i][a]
<1>3. \A a \in Auctions : jobs[i][a] \in [Stages -> Nat]
  BY DEF JobCounts
<1>4. \A a \in Auctions : /\ new(a) \in [Stages -> Nat]
                         /\ \A u \in Stages : new(a)[u] > 0 =>
                              jobs[i][a][u] > 0 \/ (a \in B /\ u = "read")
  BY <1>3 DEF Stages
<1>5. jobs' = [jobs EXCEPT ![i] = [a \in Auctions |-> new(a)]]
  BY <1>1
<1> HIDE DEF new
<1>6. jobs' \in JobCounts
  BY <1>4, <1>5 DEF JobCounts
<1>7. \A k \in Instances, b \in Auctions : jobs'[k][b] = IF k = i THEN new(b) ELSE jobs[k][b]
  BY <1>5 DEF JobCounts
<1> QED
  BY <1>2, <1>4, <1>6, <1>7 DEF Live

\* A crash takes the goroutines of one instance.
LEMMA CrashJobs ==
  ASSUME jobs \in JobCounts, NEW i \in Instances, Crash(i)
  PROVE  /\ jobs' \in JobCounts
         /\ \A k \in Instances, b \in Auctions, u \in Stages : Live(k, b, u)' => Live(k, b, u)
<1>1. jobs' = [jobs EXCEPT ![i] = [a \in Auctions |-> [s \in Stages |-> 0]]]
  BY DEF Crash
<1>2. jobs' \in JobCounts
  BY <1>1 DEF JobCounts
<1>3. \A k \in Instances, b \in Auctions, u \in Stages :
        jobs'[k][b][u] = IF k = i THEN 0 ELSE jobs[k][b][u]
  BY <1>1 DEF JobCounts
<1> QED
  BY <1>2, <1>3 DEF Live

-----------------------------------------------------------------------------
(* Types, and what the schedule holds                                      *)

\* the call is past its ZADD
Entered == {"scheduled", "unscheduled"}

\* Only auctions whose call is past its ZADD are in the schedule; goroutines end
\* only such auctions, and only once they are due.
ScheduleInv ==
  /\ \A a \in zset : cpc[a] \in Entered
  /\ \A i \in Instances, a \in Auctions, s \in Stages : Live(i, a, s) =>
       cpc[a] \in Entered /\ Unix(ends[a]) <= Unix(now)

LEMMA LifeInit == Init => TypeOK /\ ScheduleInv
BY DEF Init, TypeOK, CPCs, ScheduleInv, Live

\* The second of the clock does not go back.
LEMMA UnixMonotone ==
  ASSUME NEW t \in Nat
  PROVE  Unix(t) \in Int /\ Unix(t + 1) \in Int /\ Unix(t) <= Unix(t + 1)
BY ClockAssumption DEF Unix

LEMMA LifeTypeStep == TypeOK /\ ScheduleInv /\ [Next]_vars => TypeOK'
<1> SUFFICES ASSUME TypeOK, ScheduleInv, [Next]_vars PROVE TypeOK'
  OBVIOUS
<1>0. jobs \in JobCounts
  BY DEF TypeOK, JobCounts
<1> USE DEF TypeOK, CPCs, Entered, createVars
<1>1. CASE Tick
  BY <1>1 DEF Tick
<1>2. ASSUME NEW a \in Auctions, NEW s \in Times, NEW e \in Times, Request(a, s, e)
      PROVE  TypeOK'
  BY <1>2, ClockAssumption DEF Request, CGoto
<1>3. ASSUME NEW a \in Auctions, CheckItem(a)
      PROVE  TypeOK'
  BY <1>3 DEF CheckItem, CGoto
<1>4. ASSUME NEW a \in Auctions, Insert(a)
      PROVE  TypeOK'
  BY <1>4 DEF Insert, CGoto
<1>5. ASSUME NEW a \in Auctions, Schedule(a)
      PROVE  TypeOK'
  BY <1>5 DEF Schedule, CGoto
<1>6. ASSUME NEW a \in Auctions, CreateError(a)
      PROVE  TypeOK'
  BY <1>6 DEF CreateError, CGoto
<1>7. ASSUME NEW i \in Instances, CheckExpired(i)
      PROVE  TypeOK'
  <2>1. jobs' \in [Instances -> [Auctions -> [Stages -> Nat]]]
    BY <1>0, <1>7, SpawnJobs DEF JobCounts, Stages
  <2> QED
    BY <1>7, <2>1 DEF CheckExpired
<1>8. ASSUME NEW i \in Instances, Crash(i)
      PROVE  TypeOK'
  <2>1. jobs' \in [Instances -> [Auctions -> [Stages -> Nat]]]
    BY <1>0, <1>8, CrashJobs DEF JobCounts, Stages
  <2>2. \A a \in Auctions :
          \/ cpc'[a] = cpc[a]
          \/ cpc[a] \in {"check", "insert"} /\ cpc'[a] = "refused"
          \/ cpc[a] = "schedule" /\ cpc'[a] = "unscheduled"
    BY <1>8 DEF Crash
  <2>3. cpc' \in [Auctions -> CPCs]
    BY <1>8 DEF Crash
  <2> QED
    BY <1>8, <2>1, <2>2, <2>3 DEF Crash
<1>9. ASSUME NEW i \in Instances, Restart(i)
      PROVE  TypeOK'
  BY <1>9 DEF Restart
<1>10. ASSUME NEW i \in Instances, NEW a \in Auctions, ReadRow(i, a)
      PROVE  TypeOK'
  <2>1. jobs' \in [Instances -> [Auctions -> [Stages -> Nat]]]
    BY <1>0, <1>10, AdvanceJobs DEF ReadRow, JobCounts, Stages
  <2> QED
    BY <1>10, <2>1 DEF ReadRow
<1>11. ASSUME NEW i \in Instances, NEW a \in Auctions, UpdateRow(i, a)
      PROVE  TypeOK'
  <2>1. jobs' \in [Instances -> [Auctions -> [Stages -> Nat]]]
    BY <1>0, <1>11, AdvanceJobs DEF UpdateRow, JobCounts, Stages
  <2>2. cpc[a] \in Entered
    BY <1>0, <1>11, AdvanceJobs DEF UpdateRow, ScheduleInv, Stages
  <2> QED
    BY <1>11, <2>1, <2>2 DEF UpdateRow
<1>12. ASSUME NEW i \in Instances, NEW a \in Auctions, PublishEnded(i, a)
      PROVE  TypeOK'
  <2>1. jobs' \in [Instances -> [Auctions -> [Stages -> Nat]]]
    BY <1>0, <1>12, AdvanceJobs DEF PublishEnded, JobCounts, Stages
  <2> QED
    BY <1>12, <2>1 DEF PublishEnded
<1>13. ASSUME NEW i \in Instances, NEW a \in Auctions, Remove(i, a)
      PROVE  TypeOK'
  <2>1. jobs' \in [Instances -> [Auctions -> [Stages -> Nat]]]
    BY <1>0, <1>13, DropJobs DEF Drop, Remove, JobCounts, Stages
  <2> QED
    BY <1>13, <2>1 DEF Remove
<1>14. ASSUME NEW i \in Instances, NEW a \in Auctions, JobError(i, a)
      PROVE  TypeOK'
  <2>1. jobs' \in [Instances -> [Auctions -> [Stages -> Nat]]]
    BY <1>0, <1>14, AdvanceJobs DEF JobError, JobCounts, Stages
  <2>2. status' = status \/ (cpc[a] \in Entered /\ status' = [status EXCEPT ![a] = "ended"])
    BY <1>0, <1>14, AdvanceJobs DEF JobError, ScheduleInv, Stages
  <2> QED
    BY <1>14, <2>1, <2>2 DEF JobError
<1>15. ASSUME NEW i \in Instances, NEW a \in Auctions, RemoveError(i, a)
      PROVE  TypeOK'
  <2>1. jobs' \in [Instances -> [Auctions -> [Stages -> Nat]]]
    BY <1>0, <1>15, DropJobs DEF Drop, RemoveError, JobCounts, Stages
  <2> QED
    BY <1>15, <2>1 DEF RemoveError
<1>16. CASE UNCHANGED vars
  BY <1>16 DEF vars
<1> QED
  BY <1>1, <1>2, <1>3, <1>4, <1>5, <1>6, <1>7, <1>8,
     <1>9, <1>10, <1>11, <1>12, <1>13, <1>14, <1>15, <1>16
     DEF Next, CreateStep, JobStep

LEMMA ScheduleStep == TypeOK /\ ScheduleInv /\ [Next]_vars => ScheduleInv'
<1> SUFFICES ASSUME TypeOK, ScheduleInv, [Next]_vars PROVE ScheduleInv'
  OBVIOUS
<1>0. jobs \in JobCounts
  BY DEF TypeOK, JobCounts
<1> USE DEF TypeOK, ScheduleInv, Entered, createVars
<1>1. CASE Tick
  <2>1. \A k \in Instances, b \in Auctions, u \in Stages : Live(k, b, u)' = Live(k, b, u)
    BY <1>1 DEF Tick, Live
  <2>2. ASSUME NEW b \in Auctions, Unix(ends[b]) <= Unix(now)
        PROVE  Unix(ends[b]) <= Unix(now')
    <3>1. Unix(ends[b]) \in Int
      BY UnixMonotone
    <3> QED
      BY <1>1, <2>2, <3>1, UnixMonotone DEF Tick
  <2> QED
    BY <1>1, <2>1, <2>2 DEF Tick
<1>2. ASSUME NEW a \in Auctions, NEW s \in Times, NEW e \in Times, Request(a, s, e)
      PROVE  ScheduleInv'
  <2>1. \A k \in Instances, b \in Auctions, u \in Stages : Live(k, b, u)' = Live(k, b, u)
    BY <1>2 DEF Request, Live
  <2>2. \A b \in Auctions : cpc[b] \in Entered => cpc'[b] \in Entered /\ ends'[b] = ends[b]
    BY <1>2 DEF Request, CGoto
  <2>3. now' = now /\ \A b \in zset' : b \in zset \/ cpc'[b] \in Entered
    BY <1>2 DEF Request, CGoto
  <2> QED
    BY <2>1, <2>2, <2>3
<1>3. ASSUME NEW a \in Auctions, CheckItem(a)
      PROVE  ScheduleInv'
  <2>1. \A k \in Instances, b \in Auctions, u \in Stages : Live(k, b, u)' = Live(k, b, u)
    BY <1>3 DEF CheckItem, Live
  <2>2. \A b \in Auctions : cpc[b] \in Entered => cpc'[b] \in Entered /\ ends'[b] = ends[b]
    BY <1>3 DEF CheckItem, CGoto
  <2>3. now' = now /\ \A b \in zset' : b \in zset \/ cpc'[b] \in Entered
    BY <1>3 DEF CheckItem, CGoto
  <2> QED
    BY <2>1, <2>2, <2>3
<1>4. ASSUME NEW a \in Auctions, Insert(a)
      PROVE  ScheduleInv'
  <2>1. \A k \in Instances, b \in Auctions, u \in Stages : Live(k, b, u)' = Live(k, b, u)
    BY <1>4 DEF Insert, Live
  <2>2. \A b \in Auctions : cpc[b] \in Entered => cpc'[b] \in Entered /\ ends'[b] = ends[b]
    BY <1>4 DEF Insert, CGoto
  <2>3. now' = now /\ \A b \in zset' : b \in zset \/ cpc'[b] \in Entered
    BY <1>4 DEF Insert, CGoto
  <2> QED
    BY <2>1, <2>2, <2>3
<1>5. ASSUME NEW a \in Auctions, Schedule(a)
      PROVE  ScheduleInv'
  <2>1. \A k \in Instances, b \in Auctions, u \in Stages : Live(k, b, u)' = Live(k, b, u)
    BY <1>5 DEF Schedule, Live
  <2>2. \A b \in Auctions : cpc[b] \in Entered => cpc'[b] \in Entered /\ ends'[b] = ends[b]
    BY <1>5 DEF Schedule, CGoto
  <2>3. now' = now /\ \A b \in zset' : b \in zset \/ cpc'[b] \in Entered
    BY <1>5 DEF Schedule, CGoto
  <2> QED
    BY <2>1, <2>2, <2>3
<1>6. ASSUME NEW a \in Auctions, CreateError(a)
      PROVE  ScheduleInv'
  <2>1. \A k \in Instances, b \in Auctions, u \in Stages : Live(k, b, u)' = Live(k, b, u)
    BY <1>6 DEF CreateError, Live
  <2>2. \A b \in Auctions : cpc[b] \in Entered => cpc'[b] \in Entered /\ ends'[b] = ends[b]
    BY <1>6 DEF CreateError, CGoto
  <2>3. now' = now /\ \A b \in zset' : b \in zset \/ cpc'[b] \in Entered
    BY <1>6 DEF CreateError, CGoto
  <2> QED
    BY <2>1, <2>2, <2>3
<1>7. ASSUME NEW i \in Instances, CheckExpired(i)
      PROVE  ScheduleInv'
  <2>1. \A b \in Expired : cpc[b] \in Entered /\ Unix(ends[b]) <= Unix(now)
    BY DEF Expired, Score
  <2> QED
    BY <1>0, <1>7, <2>1, SpawnJobs DEF CheckExpired
<1>8. ASSUME NEW i \in Instances, Crash(i)
      PROVE  ScheduleInv'
  <2>1. \A b \in Auctions : cpc[b] \in Entered => cpc'[b] \in Entered
    BY <1>8 DEF Crash
  <2> QED
    BY <1>0, <1>8, <2>1, CrashJobs DEF Crash
<1>9. ASSUME NEW i \in Instances, Restart(i)
      PROVE  ScheduleInv'
  <2>1. \A k \in Instances, b \in Auctions, u \in Stages : Live(k, b, u)' = Live(k, b, u)
    BY <1>9 DEF Restart, Live
  <2> QED
    BY <1>9, <2>1 DEF Restart
<1>10. ASSUME NEW i \in Instances, NEW a \in Auctions, ReadRow(i, a)
      PROVE  ScheduleInv'
  <2>1. \A k \in Instances, b \in Auctions, u \in Stages :
          Live(k, b, u)' => Live(k, b, u) \/ (b = a /\ \E v \in Stages : Live(i, a, v))
    BY <1>0, <1>10, AdvanceJobs DEF ReadRow, Stages
  <2> QED
    BY <1>10, <2>1 DEF ReadRow
<1>11. ASSUME NEW i \in Instances, NEW a \in Auctions, UpdateRow(i, a)
      PROVE  ScheduleInv'
  <2>1. \A k \in Instances, b \in Auctions, u \in Stages :
          Live(k, b, u)' => Live(k, b, u) \/ (b = a /\ \E v \in Stages : Live(i, a, v))
    BY <1>0, <1>11, AdvanceJobs DEF UpdateRow, Stages
  <2> QED
    BY <1>11, <2>1 DEF UpdateRow
<1>12. ASSUME NEW i \in Instances, NEW a \in Auctions, PublishEnded(i, a)
      PROVE  ScheduleInv'
  <2>1. \A k \in Instances, b \in Auctions, u \in Stages :
          Live(k, b, u)' => Live(k, b, u) \/ (b = a /\ \E v \in Stages : Live(i, a, v))
    BY <1>0, <1>12, AdvanceJobs DEF PublishEnded, Stages
  <2> QED
    BY <1>12, <2>1 DEF PublishEnded
<1>13. ASSUME NEW i \in Instances, NEW a \in Auctions, Remove(i, a)
      PROVE  ScheduleInv'
  BY <1>0, <1>13, DropJobs DEF Drop, Remove
<1>14. ASSUME NEW i \in Instances, NEW a \in Auctions, JobError(i, a)
      PROVE  ScheduleInv'
  <2>1. \A k \in Instances, b \in Auctions, u \in Stages :
          Live(k, b, u)' => Live(k, b, u) \/ (b = a /\ \E v \in Stages : Live(i, a, v))
    BY <1>0, <1>14, AdvanceJobs DEF JobError, Stages
  <2> QED
    BY <1>14, <2>1 DEF JobError
<1>15. ASSUME NEW i \in Instances, NEW a \in Auctions, RemoveError(i, a)
      PROVE  ScheduleInv'
  BY <1>0, <1>15, DropJobs DEF Drop, RemoveError
<1>16. CASE UNCHANGED vars
  <2>1. \A k \in Instances, b \in Auctions, u \in Stages : Live(k, b, u)' = Live(k, b, u)
    BY <1>16 DEF vars, Live
  <2> QED
    BY <1>16, <2>1 DEF vars
<1> QED
  BY <1>1, <1>2, <1>3, <1>4, <1>5, <1>6, <1>7, <1>8,
     <1>9, <1>10, <1>11, <1>12, <1>13, <1>14, <1>15, <1>16
     DEF Next, CreateStep, JobStep

LEMMA LifeInvariant == Spec => [](TypeOK /\ ScheduleInv)
BY LifeInit, LifeTypeStep, ScheduleStep, PTL DEF Spec

\* The state of creation and scheduling is well typed: a call has no row before its
\* INSERT and one from its success on, over lost answers and crashes.
THEOREM LifeTypeInvariant == Spec => []TypeOK
BY LifeInvariant, PTL

-----------------------------------------------------------------------------
(* What has ended, and what is announced                                   *)

\* Only a goroutine that has written "ended" comes to announce it.
EndedInv ==
  /\ EndedOnlyWhenDue
  /\ AnnouncedOnlyIfEnded
  /\ \A i \in Instances, a \in Auctions : Live(i, a, "publish") => status[a] = "ended"

LEMMA EndedInit == Init => EndedInv
BY DEF Init, EndedInv, EndedOnlyWhenDue, AnnouncedOnlyIfEnded, Live, Stages

LEMMA EndedStep == TypeOK /\ ScheduleInv /\ EndedInv /\ [Next]_vars => EndedInv'
<1> SUFFICES ASSUME TypeOK, ScheduleInv, EndedInv, [Next]_vars PROVE EndedInv'
  OBVIOUS
<1>0. jobs \in JobCounts
  BY DEF TypeOK, JobCounts
<1> USE DEF TypeOK, CPCs, createVars, EndedInv, EndedOnlyWhenDue, AnnouncedOnlyIfEnded
<1>1. CASE Tick
  <2>1. \A k \in Instances, b \in Auctions, u \in Stages : Live(k, b, u)' = Live(k, b, u)
    BY <1>1 DEF Tick, Live
  <2>2. ASSUME NEW b \in Auctions, Unix(ends[b]) <= Unix(now)
        PROVE  Unix(ends[b]) <= Unix(now')
    <3>1. Unix(ends[b]) \in Int
      BY UnixMonotone
    <3> QED
      BY <1>1, <2>2, <3>1, UnixMonotone DEF Tick
  <2> QED
    BY <1>1, <2>1, <2>2 DEF Tick, Stages
<1>2. ASSUME NEW a \in Auctions, NEW s \in Times, NEW e \in Times, Request(a, s, e)
      PROVE  EndedInv'
  <2>1. \A k \in Instances, b \in Auctions, u \in Stages : Live(k, b, u)' = Live(k, b, u)
    BY <1>2 DEF Request, Live
  <2>2. \A b \in Auctions : status[b] = "ended" => status'[b] = "ended" /\ ends'[b] = ends[b]
    BY <1>2 DEF Request, CGoto
  <2>3. \A b \in Auctions : status'[b] = "ended" => status[b] = "ended"
    BY <1>2 DEF Request, CGoto
  <2> QED
    BY <1>2, <2>1, <2>2, <2>3 DEF Request, Stages
<1>3. ASSUME NEW a \in Auctions, CheckItem(a)
      PROVE  EndedInv'
  <2>1. \A k \in Instances, b \in Auctions, u \in Stages : Live(k, b, u)' = Live(k, b, u)
    BY <1>3 DEF CheckItem, Live
  <2> QED
    BY <1>3, <2>1 DEF CheckItem, Stages
<1>4. ASSUME NEW a \in Auctions, Insert(a)
      PROVE  EndedInv'
  <2>1. \A k \in Instances, b \in Auctions, u \in Stages : Live(k, b, u)' = Live(k, b, u)
    BY <1>4 DEF Insert, Live
  <2>2. \A b \in Auctions : status[b] = "ended" => status'[b] = "ended" /\ ends'[b] = ends[b]
    BY <1>4 DEF Insert, CGoto
  <2>3. \A b \in Auctions : status'[b] = "ended" => status[b] = "ended"
    BY <1>4 DEF Insert, CGoto
  <2> QED
    BY <1>4, <2>1, <2>2, <2>3 DEF Insert, Stages
<1>5. ASSUME NEW a \in Auctions, Schedule(a)
      PROVE  EndedInv'
  <2>1. \A k \in Instances, b \in Auctions, u \in Stages : Live(k, b, u)' = Live(k, b, u)
    BY <1>5 DEF Schedule, Live
  <2> QED
    BY <1>5, <2>1 DEF Schedule, Stages
<1>6. ASSUME NEW a \in Auctions, CreateError(a)
      PROVE  EndedInv'
  <2>1. \A k \in Instances, b \in Auctions, u \in Stages : Live(k, b, u)' = Live(k, b, u)
    BY <1>6 DEF CreateError, Live
  <2>2. \A b \in Auctions : status'[b] = "ended" <=> status[b] = "ended"
    BY <1>6 DEF CreateError, CGoto
  <2> QED
    BY <1>6, <2>1, <2>2 DEF CreateError, Stages
<1>7. ASSUME NEW i \in Instances, CheckExpired(i)
      PROVE  EndedInv'
  <2>1. \A k \in Instances, b \in Auctions :
          Live(k, b, "publish")' => Live(k, b, "publish")
    BY <1>0, <1>7, SpawnJobs DEF CheckExpired, Stages
  <2> QED
    BY <1>7, <2>1 DEF CheckExpired
<1>8. ASSUME NEW i \in Instances, Crash(i)
      PROVE  EndedInv'
  <2>1. \A k \in Instances, b \in Auctions :
          Live(k, b, "publish")' => Live(k, b, "publish")
    BY <1>0, <1>8, CrashJobs DEF Crash, Stages
  <2> QED
    BY <1>8, <2>1 DEF Crash
<1>9. ASSUME NEW i \in Instances, Restart(i)
      PROVE  EndedInv'
  <2>1. \A k \in Instances, b \in Auctions, u \in Stages : Live(k, b, u)' = Live(k, b, u)
    BY <1>9 DEF Restart, Live
  <2> QED
    BY <1>9, <2>1 DEF Restart, Stages
<1>10. ASSUME NEW i \in Instances, NEW a \in Auctions, ReadRow(i, a)
      PROVE  EndedInv'
  <2>1. \A k \in Instances, b \in Auctions :
          Live(k, b, "publish")' => Live(k, b, "publish")
    BY <1>0, <1>10, AdvanceJobs DEF ReadRow, Stages
  <2> QED
    BY <1>10, <2>1 DEF ReadRow
<1>11. ASSUME NEW i \in Instances, NEW a \in Auctions, UpdateRow(i, a)
      PROVE  EndedInv'
  <2>1. \A k \in Instances, b \in Auctions :
          Live(k, b, "publish")' => Live(k, b, "publish") \/ b = a
    BY <1>0, <1>11, AdvanceJobs DEF UpdateRow, Stages
  <2>2. Live(i, a, "update")
    BY <1>0, <1>11, AdvanceJobs DEF UpdateRow, Stages
  <2>3. Unix(ends[a]) <= Unix(now)
    BY <2>2 DEF ScheduleInv, Stages
  <2> QED
    BY <1>11, <2>1, <2>3 DEF UpdateRow
<1>12. ASSUME NEW i \in Instances, NEW a \in Auctions, PublishEnded(i, a)
      PROVE  EndedInv'
  <2>1. \A k \in Instances, b \in Auctions :
          Live(k, b, "publish")' => Live(k, b, "publish")
    BY <1>0, <1>12, AdvanceJobs DEF PublishEnded, Stages
  <2>2. Live(i, a, "publish")
    BY <1>0, <1>12, AdvanceJobs DEF PublishEnded, Stages
  <2> QED
    BY <1>12, <2>1, <2>2 DEF PublishEnded
<1>13. ASSUME NEW i \in Instances, NEW a \in Auctions, Remove(i, a)
      PROVE  EndedInv'
  <2>1. \A k \in Instances, b \in Auctions :
          Live(k, b, "publish")' => Live(k, b, "publish")
    BY <1>0, <1>13, DropJobs DEF Drop, Remove, Stages
  <2> QED
    BY <1>13, <2>1 DEF Remove
<1>14. ASSUME NEW i \in Instances, NEW a \in Auctions, JobError(i, a)
      PROVE  EndedInv'
  <2>1. \A k \in Instances, b \in Auctions :
          Live(k, b, "publish")' => Live(k, b, "publish")
    BY <1>0, <1>14, AdvanceJobs DEF JobError, Stages
  <2>2. status' = status \/ (Live(i, a, "update") /\ status' = [status EXCEPT ![a] = "ended"])
    BY <1>0, <1>14, AdvanceJobs DEF JobError, Stages
  <2>3. Live(i, a, "update") => Unix(ends[a]) <= Unix(now)
    BY DEF ScheduleInv, Stages
  <2> QED
    BY <1>14, <2>1, <2>2, <2>3 DEF JobError
<1>15. ASSUME NEW i \in Instances, NEW a \in Auctions, RemoveError(i, a)
      PROVE  EndedInv'
  <2>1. \A k \in Instances, b \in Auctions :
          Live(k, b, "publish")' => Live(k, b, "publish")
    BY <1>0, <1>15, DropJobs DEF Drop, RemoveError, Stages
  <2> QED
    BY <1>15, <2>1 DEF RemoveError
<1>16. CASE UNCHANGED vars
  <2>1. \A k \in Instances, b \in Auctions, u \in Stages : Live(k, b, u)' = Live(k, b, u)
    BY <1>16 DEF vars, Live
  <2> QED
    BY <1>16, <2>1 DEF vars, Stages
<1> QED
  BY <1>1, <1>2, <1>3, <1>4, <1>5, <1>6, <1>7, <1>8,
     <1>9, <1>10, <1>11, <1>12, <1>13, <1>14, <1>15, <1>16
     DEF Next, CreateStep, JobStep

LEMMA EndedInvariant == Spec => []EndedInv
<1>1. Init => EndedInv
  BY EndedInit
<1>2. TypeOK /\ ScheduleInv /\ EndedInv /\ [Next]_vars => EndedInv'
  BY EndedStep
<1> QED
  BY <1>1, <1>2, LifeInvariant, PTL DEF Spec

\* No auction ends before the second of its end time, whichever of the
\* goroutines of whichever instance of the scheduler ends it.
THEOREM DueInvariant == Spec => []EndedOnlyWhenDue
<1>1. EndedInv => EndedOnlyWhenDue
  BY DEF EndedInv
<1> QED
  BY <1>1, EndedInvariant, PTL

\* The scheduler announces the end of no auction whose row does not say "ended",
\* over failing statements, crashes and goroutines that race for one auction.
THEOREM AnnouncedInvariant == Spec => []AnnouncedOnlyIfEnded
<1>1. EndedInv => AnnouncedOnlyIfEnded
  BY DEF EndedInv
<1> QED
  BY <1>1, EndedInvariant, PTL

-----------------------------------------------------------------------------
(* Nothing is lost from the schedule while no statement fails              *)

\* A goroutine that comes to its ZREM leaves an ended row behind.
TrackedInv ==
  /\ TrackedUntilEnded
  /\ \A i \in Instances, a \in Auctions : Live(i, a, "remove") => status[a] = "ended"

LEMMA TrackedInit == Init => TrackedInv
BY DEF Init, TrackedInv, TrackedUntilEnded, Live, Stages

LEMMA TrackedStep == ~Errors /\ TypeOK /\ ScheduleInv /\ EndedInv /\ TrackedInv /\ [Next]_vars => TrackedInv'
<1> SUFFICES ASSUME ~Errors, TypeOK, ScheduleInv, EndedInv, TrackedInv, [Next]_vars PROVE TrackedInv'
  OBVIOUS
<1>0. jobs \in JobCounts
  BY DEF TypeOK, JobCounts
<1> USE DEF TypeOK, CPCs, createVars, TrackedInv, TrackedUntilEnded
<1>1. CASE Tick
  <2>1. \A k \in Instances, b \in Auctions, u \in Stages : Live(k, b, u)' = Live(k, b, u)
    BY <1>1 DEF Tick, Live
  <2> QED
    BY <1>1, <2>1 DEF Tick, Stages
<1>2. ASSUME NEW a \in Auctions, NEW s \in Times, NEW e \in Times, Request(a, s, e)
      PROVE  TrackedInv'
  <2>1. \A k \in Instances, b \in Auctions, u \in Stages : Live(k, b, u)' = Live(k, b, u)
    BY <1>2 DEF Request, Live
  <2>2. TrackedUntilEnded'
    BY <1>2 DEF Request, CGoto
  <2>3. \A b \in Auctions : status[b] = "ended" => status'[b] = "ended"
    BY <1>2 DEF Request, CGoto
  <2> QED
    BY <1>2, <2>1, <2>2, <2>3 DEF Request, Stages
<1>3. ASSUME NEW a \in Auctions, CheckItem(a)
      PROVE  TrackedInv'
  <2>1. \A k \in Instances, b \in Auctions, u \in Stages : Live(k, b, u)' = Live(k, b, u)
    BY <1>3 DEF CheckItem, Live
  <2>2. TrackedUntilEnded'
    BY <1>3 DEF CheckItem, CGoto
  <2>3. \A b \in Auctions : status[b] = "ended" => status'[b] = "ended"
    BY <1>3 DEF CheckItem, CGoto
  <2> QED
    BY <1>3, <2>1, <2>2, <2>3 DEF CheckItem, Stages
<1>4. ASSUME NEW a \in Auctions, Insert(a)
      PROVE  TrackedInv'
  <2>1. \A k \in Instances, b \in Auctions, u \in Stages : Live(k, b, u)' = Live(k, b, u)
    BY <1>4 DEF Insert, Live
  <2>2. TrackedUntilEnded'
    BY <1>4 DEF Insert, CGoto
  <2>3. \A b \in Auctions : status[b] = "ended" => status'[b] = "ended"
    BY <1>4 DEF Insert, CGoto
  <2> QED
    BY <1>4, <2>1, <2>2, <2>3 DEF Insert, Stages
<1>5. ASSUME NEW a \in Auctions, Schedule(a)
      PROVE  TrackedInv'
  <2>1. \A k \in Instances, b \in Auctions, u \in Stages : Live(k, b, u)' = Live(k, b, u)
    BY <1>5 DEF Schedule, Live
  <2>2. TrackedUntilEnded'
    BY <1>5 DEF Schedule, CGoto
  <2>3. \A b \in Auctions : status[b] = "ended" => status'[b] = "ended"
    BY <1>5 DEF Schedule, CGoto
  <2> QED
    BY <1>5, <2>1, <2>2, <2>3 DEF Schedule, Stages
<1>6. ASSUME NEW a \in Auctions, CreateError(a)
      PROVE  TrackedInv'
  BY <1>6 DEF CreateError
<1>7. ASSUME NEW i \in Instances, CheckExpired(i)
      PROVE  TrackedInv'
  <2>1. \A k \in Instances, b \in Auctions :
          Live(k, b, "remove")' => Live(k, b, "remove")
    BY <1>0, <1>7, SpawnJobs DEF CheckExpired, Stages
  <2> QED
    BY <1>7, <2>1 DEF CheckExpired
<1>8. ASSUME NEW i \in Instances, Crash(i)
      PROVE  TrackedInv'
  <2>1. \A k \in Instances, b \in Auctions :
          Live(k, b, "remove")' => Live(k, b, "remove")
    BY <1>0, <1>8, CrashJobs DEF Crash, Stages
  <2>2. TrackedUntilEnded'
    BY <1>8 DEF Crash
  <2> QED
    BY <1>8, <2>1, <2>2 DEF Crash
<1>9. ASSUME NEW i \in Instances, Restart(i)
      PROVE  TrackedInv'
  <2>1. \A k \in Instances, b \in Auctions, u \in Stages : Live(k, b, u)' = Live(k, b, u)
    BY <1>9 DEF Restart, Live
  <2> QED
    BY <1>9, <2>1 DEF Restart, Stages
<1>10. ASSUME NEW i \in Instances, NEW a \in Auctions, ReadRow(i, a)
      PROVE  TrackedInv'
  <2>1. \A k \in Instances, b \in Auctions :
          Live(k, b, "remove")' => Live(k, b, "remove") \/ (b = a /\ status[a] = "ended")
    BY <1>0, <1>10, AdvanceJobs DEF ReadRow, IsEnded, Stages
  <2> QED
    BY <1>10, <2>1 DEF ReadRow
<1>11. ASSUME NEW i \in Instances, NEW a \in Auctions, UpdateRow(i, a)
      PROVE  TrackedInv'
  <2>1. \A k \in Instances, b \in Auctions : Live(k, b, "remove")' => Live(k, b, "remove")
    BY <1>0, <1>11, AdvanceJobs DEF UpdateRow, Stages
  <2> QED
    BY <1>11, <2>1 DEF UpdateRow
<1>12. ASSUME NEW i \in Instances, NEW a \in Auctions, PublishEnded(i, a)
      PROVE  TrackedInv'
  <2>1. \A k \in Instances, b \in Auctions :
          Live(k, b, "remove")' => Live(k, b, "remove") \/ b = a
    BY <1>0, <1>12, AdvanceJobs DEF PublishEnded, Stages
  <2>2. status[a] = "ended"
    BY <1>0, <1>12, AdvanceJobs DEF PublishEnded, EndedInv, Stages
  <2> QED
    BY <1>12, <2>1, <2>2 DEF PublishEnded
<1>13. ASSUME NEW i \in Instances, NEW a \in Auctions, Remove(i, a)
      PROVE  TrackedInv'
  <2>1. \A k \in Instances, b \in Auctions :
          Live(k, b, "remove")' => Live(k, b, "remove")
    BY <1>0, <1>13, DropJobs DEF Drop, Remove, Stages
  <2>2. status[a] = "ended"
    BY <1>0, <1>13, DropJobs DEF Drop, Remove, Stages
  <2> QED
    BY <1>13, <2>1, <2>2 DEF Remove
<1>14. ASSUME NEW i \in Instances, NEW a \in Auctions, JobError(i, a)
      PROVE  TrackedInv'
  BY <1>14 DEF JobError
<1>15. ASSUME NEW i \in Instances, NEW a \in Auctions, RemoveError(i, a)
      PROVE  TrackedInv'
  BY <1>15 DEF RemoveError
<1>16. CASE UNCHANGED vars
  <2>1. \A k \in Instances, b \in Auctions, u \in Stages : Live(k, b, u)' = Live(k, b, u)
    BY <1>16 DEF vars, Live
  <2> QED
    BY <1>16, <2>1 DEF vars, Stages
<1> QED
  BY <1>1, <1>2, <1>3, <1>4, <1>5, <1>6, <1>7, <1>8,
     <1>9, <1>10, <1>11, <1>12, <1>13, <1>14, <1>15, <1>16
     DEF Next, CreateStep, JobStep

\* As long as no statement fails, an active auction is in auction:expirations, or
\* its call is about to put it there, or a crash cut that call short: over every
\* crash and restart no goroutine removes the entry of an auction that has not
\* ended.
THEOREM TrackedInvariant ==
  ASSUME ~Errors
  PROVE  Spec => []TrackedUntilEnded
<1>1. Init => TrackedInv
  BY TrackedInit
<1>2. TypeOK /\ ScheduleInv /\ EndedInv /\ TrackedInv /\ [Next]_vars => TrackedInv'
  BY TrackedStep
<1>3. TrackedInv => TrackedUntilEnded
  BY DEF TrackedInv
<1> QED
  BY <1>1, <1>2, <1>3, LifeInvariant, EndedInvariant, PTL DEF Spec

-----------------------------------------------------------------------------
(* The end of an auction is announced                                      *)

\* A goroutine that goes on leaves the others where they are.
LEMMA AdvanceKeeps ==
  ASSUME jobs \in JobCounts, NEW i \in Instances, NEW a \in Auctions,
         NEW s \in Stages, NEW t \in Stages, s # t, Advance(i, a, s, t)
  PROVE  /\ Live(i, a, t)'
         /\ \A k \in Instances, b \in Auctions, u \in Stages :
              Live(k, b, u) => Live(k, b, u)' \/ (k = i /\ b = a /\ u = s)
<1> DEFINE new == [jobs[i][a] EXCEPT ![s] = @ - 1, ![t] = @ + 1]
<1>1. jobs[i][a] \in [Stages -> Nat] /\ jobs[i][a][s] > 0
  BY DEF JobCounts, Advance
<1>2. jobs' = [jobs EXCEPT ![i] = [jobs[i] EXCEPT ![a] = new]]
  BY <1>1 DEF Advance, JobCounts
<1>3. new[t] > 0 /\ \A u \in Stages : jobs[i][a][u] > 0 => new[u] > 0 \/ u = s
  BY <1>1
<1> HIDE DEF new
<1>4. \A k \in Instances, b \in Auctions :
        jobs'[k][b] = IF k = i /\ b = a THEN new ELSE jobs[k][b]
  BY <1>2 DEF JobCounts
<1> QED
  BY <1>3, <1>4 DEF Live

\* A goroutine that ends leaves those that have more to do.
LEMMA DropKeeps ==
  ASSUME jobs \in JobCounts, NEW i \in Instances, NEW a \in Auctions, Drop(i, a)
  PROVE  \A k \in Instances, b \in Auctions, u \in Stages :
           Live(k, b, u) /\ u # "remove" => Live(k, b, u)'
<1> DEFINE new == [jobs[i][a] EXCEPT !["remove"] = @ - 1]
<1>1. jobs[i][a] \in [Stages -> Nat]
  BY DEF JobCounts
<1>2. jobs' = [jobs EXCEPT ![i] = [jobs[i] EXCEPT ![a] = new]]
  BY <1>1 DEF JobCounts, Drop
<1>3. \A u \in Stages : u # "remove" => new[u] = jobs[i][a][u]
  BY <1>1
<1> HIDE DEF new
<1>4. \A k \in Instances, b \in Auctions :
        jobs'[k][b] = IF k = i /\ b = a THEN new ELSE jobs[k][b]
  BY <1>2 DEF JobCounts
<1> QED
  BY <1>3, <1>4 DEF Live

\* A tick of the loop leaves every goroutine where it is.
LEMMA SpawnKeeps ==
  ASSUME jobs \in JobCounts, NEW i \in Instances, CheckExpired(i)
  PROVE  \A k \in Instances, b \in Auctions, u \in Stages : Live(k, b, u) => Live(k, b, u)'
<1>1. PICK B \in Batches :
        jobs' = [jobs EXCEPT ![i] = [a \in Auctions |->
                   IF a \in B THEN [jobs[i][a] EXCEPT !["read"] = @ + 1] ELSE jobs[i][a]]]
  BY DEF CheckExpired
<1> DEFINE new(a) == IF a \in B THEN [jobs[i][a] EXCEPT !["read"] = @ + 1] ELSE jobs[i][a]
<1>2. \A a \in Auctions : jobs[i][a] \in [Stages -> Nat]
  BY DEF JobCounts
<1>3. \A a \in Auctions, u \in Stages : jobs[i][a][u] > 0 => new(a)[u] > 0
  BY <1>2 DEF Stages
<1>4. jobs' = [jobs EXCEPT ![i] = [a \in Auctions |-> new(a)]]
  BY <1>1
<1> HIDE DEF new
<1>5. \A k \in Instances, b \in Auctions : jobs'[k][b] = IF k = i THEN new(b) ELSE jobs[k][b]
  BY <1>4 DEF JobCounts
<1> QED
  BY <1>3, <1>5 DEF Live

\* a goroutine is about to announce the end of auction a
Publishing(a) == \E i \in Instances : Live(i, a, "publish")

\* What holds of an auction that has ended.
OnItsWay(a) == a \in announced \/ Publishing(a)

LEMMA OnItsWayInit == Init => EndIsOnItsWay
BY DEF Init, EndIsOnItsWay

LEMMA OnItsWayStep ==
  ~Errors /\ TypeOK /\ EndIsOnItsWay /\ [Next]_vars => EndIsOnItsWay'
<1> SUFFICES ASSUME ~Errors, TypeOK, EndIsOnItsWay, [Next]_vars,
                    crashes' = 0, NEW b \in Auctions, status'[b] = "ended"
             PROVE  OnItsWay(b)'
  BY DEF EndIsOnItsWay, OnItsWay, Publishing, Live
<1>0. jobs \in JobCounts
  BY DEF TypeOK, JobCounts
<1>k. crashes = 0 /\ status[b] = "ended" => OnItsWay(b)
  BY DEF EndIsOnItsWay, OnItsWay, Publishing, Live
<1>s. announced \subseteq announced' /\ (Publishing(b) => Publishing(b)') =>
        (OnItsWay(b) => OnItsWay(b)')
  BY DEF OnItsWay
<1> USE DEF createVars
<1>1. ASSUME jobs' = jobs, announced' = announced, crashes' = crashes,
             status[b] = "ended"
      PROVE  OnItsWay(b)'
  BY <1>1, <1>k DEF OnItsWay, Publishing, Live
<1>2. CASE Tick
  BY <1>2, <1>1 DEF Tick
<1>3. ASSUME NEW a \in Auctions, NEW s \in Times, NEW e \in Times, Request(a, s, e)
      PROVE  OnItsWay(b)'
  BY <1>3, <1>1 DEF Request
<1>4. ASSUME NEW a \in Auctions, CheckItem(a)
      PROVE  OnItsWay(b)'
  BY <1>4, <1>1 DEF CheckItem
<1>5. ASSUME NEW a \in Auctions, Insert(a)
      PROVE  OnItsWay(b)'
  <2>1. status[b] = "ended"
    BY <1>5 DEF Insert, TypeOK
  <2> QED
    BY <1>5, <2>1, <1>1 DEF Insert
<1>6. ASSUME NEW a \in Auctions, Schedule(a)
      PROVE  OnItsWay(b)'
  BY <1>6, <1>1 DEF Schedule
<1>7. ASSUME NEW a \in Auctions, CreateError(a)
      PROVE  OnItsWay(b)'
  BY <1>7 DEF CreateError
<1>8. ASSUME NEW i \in Instances, CheckExpired(i)
      PROVE  OnItsWay(b)'
  <2>1. OnItsWay(b)
    BY <1>8, <1>k DEF CheckExpired
  <2>2. Publishing(b) => Publishing(b)'
    BY <1>0, <1>8, SpawnKeeps DEF Publishing, Stages
  <2> QED
    BY <1>8, <2>1, <2>2, <1>s DEF CheckExpired
<1>9. ASSUME NEW i \in Instances, Crash(i)
      PROVE  OnItsWay(b)'
  BY <1>9 DEF Crash, TypeOK
<1>10. ASSUME NEW i \in Instances, Restart(i)
      PROVE  OnItsWay(b)'
  BY <1>10, <1>1 DEF Restart
<1>11. ASSUME NEW i \in Instances, NEW a \in Auctions, ReadRow(i, a)
      PROVE  OnItsWay(b)'
  <2>1. OnItsWay(b)
    BY <1>11, <1>k DEF ReadRow
  <2>2. Publishing(b) => Publishing(b)'
    BY <1>0, <1>11, AdvanceKeeps DEF ReadRow, Publishing, Stages
  <2> QED
    BY <1>11, <2>1, <2>2, <1>s DEF ReadRow
<1>12. ASSUME NEW i \in Instances, NEW a \in Auctions, UpdateRow(i, a)
      PROVE  OnItsWay(b)'
  <2>1. Live(i, a, "publish")' /\ (Publishing(b) => Publishing(b)')
    BY <1>0, <1>12, AdvanceKeeps DEF UpdateRow, Publishing, Stages
  <2>2. CASE b = a
    BY <2>1, <2>2 DEF OnItsWay, Publishing
  <2>3. CASE b # a
    <3>1. status[b] = "ended" /\ crashes = 0 /\ announced' = announced
      BY <1>12, <2>3 DEF UpdateRow, TypeOK
    <3> QED
      BY <2>1, <3>1, <1>k, <1>s
  <2> QED
    BY <2>2, <2>3
<1>13. ASSUME NEW i \in Instances, NEW a \in Auctions, PublishEnded(i, a)
      PROVE  OnItsWay(b)'
  <2>1. OnItsWay(b) /\ announced' = announced \cup {a}
    BY <1>13, <1>k DEF PublishEnded
  <2>2. CASE b = a
    BY <2>1, <2>2 DEF OnItsWay
  <2>3. CASE b # a
    <3>1. Publishing(b) => Publishing(b)'
      BY <1>0, <1>13, <2>3, AdvanceKeeps DEF PublishEnded, Publishing, Stages
    <3> QED
      BY <2>1, <3>1, <1>s
  <2> QED
    BY <2>2, <2>3
<1>14. ASSUME NEW i \in Instances, NEW a \in Auctions, Remove(i, a)
      PROVE  OnItsWay(b)'
  <2>1. OnItsWay(b)
    BY <1>14, <1>k DEF Remove
  <2>2. Publishing(b) => Publishing(b)'
    BY <1>0, <1>14, DropKeeps DEF Remove, Drop, Publishing, Stages
  <2> QED
    BY <1>14, <2>1, <2>2, <1>s DEF Remove
<1>15. ASSUME NEW i \in Instances, NEW a \in Auctions, JobError(i, a)
      PROVE  OnItsWay(b)'
  BY <1>15 DEF JobError
<1>16. ASSUME NEW i \in Instances, NEW a \in Auctions, RemoveError(i, a)
      PROVE  OnItsWay(b)'
  BY <1>16 DEF RemoveError
<1>17. CASE UNCHANGED vars
  BY <1>17, <1>1 DEF vars
<1> QED
  BY <1>2, <1>3, <1>4, <1>5, <1>6, <1>7, <1>8, <1>9,
     <1>10, <1>11, <1>12, <1>13, <1>14, <1>15, <1>16, <1>17
     DEF Next, CreateStep, JobStep

\* As long as no statement fails and no instance has crashed, the end of an
\* auction has been announced or a goroutine is at the publication, also when
\* several instances end it at once and one of them removes the entry first.
THEOREM OnItsWayInvariant ==
  ASSUME ~Errors
  PROVE  Spec => []EndIsOnItsWay
<1>1. Init => EndIsOnItsWay
  BY OnItsWayInit
<1>2. TypeOK /\ EndIsOnItsWay /\ [Next]_vars => EndIsOnItsWay'
  BY OnItsWayStep
<1> QED
  BY <1>1, <1>2, LifeTypeInvariant, PTL DEF Spec

-----------------------------------------------------------------------------
(* Auctions of one item                                                    *)

\* the call has found no active auction of its item
Past == {"insert", "schedule", "scheduled", "unscheduled"}

\* it has, or it was refused after it had inserted its row
Found(a) == cpc[a] \in Past \/ status[a] # "none"

\* Of the rows such a call found, those of its item have ended, for good.
ListingInv ==
  \A a \in Auctions : Found(a) =>
    \A b \in existed[a] : item[b] = item[a] => status[b] = "ended"

LEMMA ListingStep == TypeOK /\ ScheduleInv /\ ListingInv /\ [Next]_vars => ListingInv'
<1> SUFFICES ASSUME TypeOK, ScheduleInv, ListingInv, [Next]_vars PROVE ListingInv'
  OBVIOUS
<1> USE DEF TypeOK, CPCs, createVars, ListingInv, Found, Past
<1>0. jobs \in JobCounts
  BY DEF JobCounts
<1>1. CASE Tick
  BY <1>1 DEF Tick
<1>2. ASSUME NEW a \in Auctions, NEW s \in Times, NEW e \in Times, Request(a, s, e)
      PROVE  ListingInv'
  <2>1. \A c \in Auctions : Found(c)' => Found(c)
    BY <1>2 DEF Request, CGoto
  <2>2. \A b \in Auctions : status[b] = "ended" => status'[b] = "ended"
    BY <1>2 DEF Request, CGoto
  <2>3. existed' = existed /\ item' = item
    BY <1>2 DEF Request
  <2> QED
    BY <2>1, <2>2, <2>3
<1>3. ASSUME NEW a \in Auctions, CheckItem(a)
      PROVE  ListingInv'
  <2>1. ASSUME NEW c \in Auctions, c # a, Found(c)', NEW b \in existed'[c], item'[b] = item'[c]
        PROVE  status'[b] = "ended"
    BY <1>3, <2>1 DEF CheckItem, CGoto
  <2>2. ASSUME Found(a)', NEW b \in existed'[a], item'[b] = item'[a]
        PROVE  status'[b] = "ended"
    <3>1. b \in Auctions /\ status[b] # "none"
      BY <1>3 DEF CheckItem
    <3>2. GetActiveByItemID(item[a]) = {}
      BY <1>3, <2>2 DEF CheckItem, CGoto
    <3>3. status[b] # "active"
      BY <1>3, <2>2, <3>1, <3>2 DEF GetActiveByItemID, CheckItem
    <3> QED
      BY <1>3, <3>1, <3>3 DEF CheckItem
  <2> QED
    BY <2>1, <2>2
<1>4. ASSUME NEW a \in Auctions, Insert(a)
      PROVE  ListingInv'
  <2>1. \A c \in Auctions : Found(c)' => Found(c)
    BY <1>4 DEF Insert, CGoto
  <2>2. \A b \in Auctions : status[b] = "ended" => status'[b] = "ended"
    BY <1>4 DEF Insert, CGoto
  <2>3. existed' = existed /\ item' = item
    BY <1>4 DEF Insert
  <2> QED
    BY <2>1, <2>2, <2>3
<1>5. ASSUME NEW a \in Auctions, Schedule(a)
      PROVE  ListingInv'
  <2>1. \A c \in Auctions : Found(c)' => Found(c)
    BY <1>5 DEF Schedule, CGoto
  <2>2. \A b \in Auctions : status[b] = "ended" => status'[b] = "ended"
    BY <1>5 DEF Schedule, CGoto
  <2>3. existed' = existed /\ item' = item
    BY <1>5 DEF Schedule
  <2> QED
    BY <2>1, <2>2, <2>3
<1>6. ASSUME NEW a \in Auctions, CreateError(a)
      PROVE  ListingInv'
  <2>1. \A c \in Auctions : Found(c)' => Found(c)
    BY <1>6 DEF CreateError, CGoto
  <2>2. \A b \in Auctions : status[b] = "ended" => status'[b] = "ended"
    BY <1>6 DEF CreateError, CGoto
  <2>3. existed' = existed /\ item' = item
    BY <1>6 DEF CreateError
  <2> QED
    BY <2>1, <2>2, <2>3
<1>7. ASSUME NEW i \in Instances, CheckExpired(i)
      PROVE  ListingInv'
  BY <1>7 DEF CheckExpired
<1>8. ASSUME NEW i \in Instances, Crash(i)
      PROVE  ListingInv'
  <2>1. \A c \in Auctions : Found(c)' => Found(c)
    BY <1>8 DEF Crash
  <2>2. \A b \in Auctions : status[b] = "ended" => status'[b] = "ended"
    BY <1>8 DEF Crash
  <2>3. existed' = existed /\ item' = item
    BY <1>8 DEF Crash
  <2> QED
    BY <2>1, <2>2, <2>3
<1>9. ASSUME NEW i \in Instances, Restart(i)
      PROVE  ListingInv'
  BY <1>9 DEF Restart
<1>10. ASSUME NEW i \in Instances, NEW a \in Auctions, ReadRow(i, a)
      PROVE  ListingInv'
  BY <1>10 DEF ReadRow
<1>11. ASSUME NEW i \in Instances, NEW a \in Auctions, UpdateRow(i, a)
      PROVE  ListingInv'
  <2>1. status' = status \/ (Found(a) /\ status' = [status EXCEPT ![a] = "ended"])
    BY <1>0, <1>11, AdvanceJobs DEF UpdateRow, ScheduleInv, Entered, Stages
  <2>2. UNCHANGED <<cpc, existed, item>>
    BY <1>11 DEF UpdateRow
  <2> QED
    BY <2>1, <2>2
<1>12. ASSUME NEW i \in Instances, NEW a \in Auctions, PublishEnded(i, a)
      PROVE  ListingInv'
  BY <1>12 DEF PublishEnded
<1>13. ASSUME NEW i \in Instances, NEW a \in Auctions, Remove(i, a)
      PROVE  ListingInv'
  BY <1>13 DEF Remove
<1>14. ASSUME NEW i \in Instances, NEW a \in Auctions, JobError(i, a)
      PROVE  ListingInv'
  <2>1. status' = status \/ (Found(a) /\ status' = [status EXCEPT ![a] = "ended"])
    BY <1>0, <1>14, AdvanceJobs DEF JobError, ScheduleInv, Entered, Stages
  <2>2. UNCHANGED <<cpc, existed, item>>
    BY <1>14 DEF JobError
  <2> QED
    BY <2>1, <2>2
<1>15. ASSUME NEW i \in Instances, NEW a \in Auctions, RemoveError(i, a)
      PROVE  ListingInv'
  BY <1>15 DEF RemoveError
<1>16. CASE UNCHANGED vars
  BY <1>16 DEF vars
<1> QED
  BY <1>1, <1>2, <1>3, <1>4, <1>5, <1>6, <1>7, <1>8,
     <1>9, <1>10, <1>11, <1>12, <1>13, <1>14, <1>15, <1>16
     DEF Next, CreateStep, JobStep

LEMMA PastInvariant == Spec => []ListingInv
<1>1. Init => ListingInv
  BY DEF Init, ListingInv, Found, Past
<1> QED
  BY <1>1, ListingStep, LifeInvariant, PTL DEF Spec

\* Calls of CreateAuction list an item twice only if they overlap: a call that
\* sees the row of another auction of its item is refused while that is active.
THEOREM ListingInvariant == Spec => []DoubleListingOnlyByOverlap
<1>1. TypeOK /\ ListingInv => DoubleListingOnlyByOverlap
  BY DEF TypeOK, CPCs, ListingInv, Found, Past, DoubleListingOnlyByOverlap
<1> QED
  BY <1>1, PastInvariant, LifeInvariant, PTL

-----------------------------------------------------------------------------
(* The refinement                                                          *)

LEMMA HouseInit == Init => House!Init
<1>1. Unix(0) = 0
  BY ClockAssumption DEF Unix
<1> QED
  BY <1>1 DEF Init, House!Init

\* Steps of the schedule and of the goroutines that write nothing are invisible.
LEMMA HouseStutter ==
  ASSUME now' = now, item' = item, ends' = ends, existed' = existed,
         status' = status, announced' = announced
  PROVE  UNCHANGED House!vars
BY DEF House!vars, Unix

\* What a step that leaves the clock and the end times shows of them.
LEMMA HouseClock ==
  ASSUME now' = now, ends' = ends
  PROVE  /\ Unix(now)' = Unix(now)
         /\ [a \in Auctions |-> Unix(ends[a])]' = [a \in Auctions |-> Unix(ends[a])]
BY DEF Unix

LEMMA HouseStep ==
  TypeOK /\ ScheduleInv /\ EndedInv /\ ListingInv /\ [Next]_vars
    => [House!Next]_(House!vars)
<1> SUFFICES ASSUME TypeOK, ScheduleInv, EndedInv, ListingInv, [Next]_vars
             PROVE  [House!Next]_(House!vars)
  OBVIOUS
<1> USE DEF createVars
<1>1. CASE Tick
  <2>1. Unix(now) <= Unix(now') /\ Unix(now) \in Int /\ Unix(now') \in Int
    BY <1>1, UnixMonotone DEF Tick, TypeOK
  <2>2. UNCHANGED <<item, ends, existed, status, announced>>
    BY <1>1 DEF Tick
  <2>3. [a \in Auctions |-> Unix(ends[a])]' = [a \in Auctions |-> Unix(ends[a])]
    BY <2>2 DEF Unix
  <2>4. Unix(now)' = Unix(now')
    BY DEF Unix
  <2>5. CASE Unix(now)' = Unix(now)
    BY <2>2, <2>3, <2>5 DEF House!vars
  <2>6. CASE Unix(now)' > Unix(now)
    <3>1. House!Pass
      BY <2>2, <2>3, <2>6 DEF House!Pass
    <3> QED
      BY <3>1 DEF House!Next
  <2> QED
    BY <2>1, <2>4, <2>5, <2>6
<1>2. ASSUME NEW a \in Auctions, NEW s \in Times, NEW e \in Times, Request(a, s, e)
      PROVE  [House!Next]_(House!vars)
  <2>1. ends' = [ends EXCEPT ![a] = e] /\ cpc[a] = "idle"
        /\ UNCHANGED <<now, item, existed, status, announced>>
    BY <1>2 DEF Request
  <2>2. status[a] = "none"
    BY <2>1 DEF TypeOK
  <2>3. [b \in Auctions |-> Unix(ends[b])]' =
          [[b \in Auctions |-> Unix(ends[b])] EXCEPT ![a] = Unix(e)]
    BY <2>1 DEF TypeOK, Unix
  <2>4. Unix(now)' = Unix(now) /\ Unix(e) \in {Unix(t) : t \in Times}
    BY <2>1 DEF Unix
  <2>5. House!Propose(a, Unix(e))
    BY <2>1, <2>2, <2>3, <2>4 DEF House!Propose
  <2> QED
    BY <2>4, <2>5 DEF House!Next
<1>3. ASSUME NEW a \in Auctions, CheckItem(a)
      PROVE  [House!Next]_(House!vars)
  <2>1. existed' = [existed EXCEPT ![a] = {b \in Auctions : status[b] # "none"}]
        /\ cpc[a] = "check" /\ UNCHANGED <<now, item, ends, status, announced>>
    BY <1>3 DEF CheckItem
  <2>2. status[a] = "none"
    BY <2>1 DEF TypeOK
  <2>3. House!Look(a)
    BY <2>1, <2>2, HouseClock DEF House!Look, House!Listed
  <2> QED
    BY <2>3 DEF House!Next
<1>4. ASSUME NEW a \in Auctions, Insert(a)
      PROVE  [House!Next]_(House!vars)
  <2>1. status' = [status EXCEPT ![a] = "active"] /\ cpc[a] = "insert"
        /\ UNCHANGED <<now, item, ends, existed, announced>>
    BY <1>4 DEF Insert
  <2>2. status[a] = "none"
    BY <2>1 DEF TypeOK
  <2>3. \A b \in existed[a] : item[b] = item[a] => status[b] = "ended"
    BY <2>1 DEF ListingInv, Found, Past
  <2>4. House!List(a)
    BY <2>1, <2>2, <2>3, HouseClock DEF House!List
  <2> QED
    BY <2>4 DEF House!Next
<1>5. ASSUME NEW a \in Auctions, Schedule(a)
      PROVE  [House!Next]_(House!vars)
  BY <1>5, HouseStutter DEF Schedule
<1>11. ASSUME NEW a \in Auctions, CreateError(a)
      PROVE  [House!Next]_(House!vars)
  <2>1. UNCHANGED <<now, item, ends, existed, announced>>
    BY <1>11 DEF CreateError
  <2>2. CASE status' = status
    BY <2>1, <2>2, HouseStutter
  <2>3. CASE cpc[a] = "insert" /\ status' = [status EXCEPT ![a] = "active"]
    <3>1. status[a] = "none"
      BY <2>3 DEF TypeOK
    <3>2. \A b \in existed[a] : item[b] = item[a] => status[b] = "ended"
      BY <2>3 DEF ListingInv, Found, Past
    <3>3. House!List(a)
      BY <2>1, <2>3, <3>1, <3>2, HouseClock DEF House!List
    <3> QED
      BY <3>3 DEF House!Next
  <2> QED
    BY <1>11, <2>2, <2>3 DEF CreateError
<1>6. ASSUME NEW i \in Instances, CheckExpired(i) \/ Crash(i) \/ Restart(i)
      PROVE  [House!Next]_(House!vars)
  BY <1>6, HouseStutter DEF CheckExpired, Crash, Restart
<1>7. ASSUME NEW i \in Instances, NEW a \in Auctions,
             ReadRow(i, a) \/ Remove(i, a) \/ RemoveError(i, a)
      PROVE  [House!Next]_(House!vars)
  BY <1>7, HouseStutter DEF ReadRow, Remove, RemoveError
<1>8. ASSUME NEW i \in Instances, NEW a \in Auctions, Live(i, a, "update"),
             status' = [status EXCEPT ![a] = "ended"],
             UNCHANGED <<now, item, ends, existed, announced>>
      PROVE  [House!Next]_(House!vars)
  <2>1. UNCHANGED <<now, item, ends, existed, announced>>
    BY <1>8
  <2>2. cpc[a] \in Entered /\ Unix(ends[a]) <= Unix(now)
    BY <1>8 DEF ScheduleInv, Stages
  <2>3. CASE status[a] = "active"
    <3>1. House!End(a)
      BY <1>8, <2>2, <2>3, HouseClock DEF House!End
    <3> QED
      BY <3>1 DEF House!Next
  <2>4. CASE status[a] = "ended"
    <3>1. status' = status
      BY <1>8, <2>4 DEF TypeOK
    <3> QED
      BY <2>1, <3>1, HouseStutter
  <2> QED
    BY <2>2, <2>3, <2>4 DEF TypeOK, Entered
<1>9. ASSUME NEW i \in Instances, NEW a \in Auctions, PublishEnded(i, a)
      PROVE  [House!Next]_(House!vars)
  <2>1. announced' = announced \cup {a} /\ Live(i, a, "publish")
        /\ UNCHANGED <<now, item, ends, existed, status>>
    BY <1>9 DEF PublishEnded, Advance, Live
  <2>2. status[a] = "ended"
    BY <2>1 DEF EndedInv
  <2>3. CASE a \in announced
    BY <2>1, <2>3, HouseStutter
  <2>4. CASE a \notin announced
    <3>1. House!Announce(a)
      BY <2>1, <2>2, <2>4, HouseClock DEF House!Announce
    <3> QED
      BY <3>1 DEF House!Next
  <2> QED
    BY <2>3, <2>4
<1>12. ASSUME NEW i \in Instances, NEW a \in Auctions, UpdateRow(i, a)
      PROVE  [House!Next]_(House!vars)
  BY <1>12, <1>8 DEF UpdateRow, Advance, Live
<1>13. ASSUME NEW i \in Instances, NEW a \in Auctions, JobError(i, a)
      PROVE  [House!Next]_(House!vars)
  <2>1. CASE status' = status
    BY <1>13, <2>1, HouseStutter DEF JobError
  <2>2. CASE Live(i, a, "update") /\ status' = [status EXCEPT ![a] = "ended"]
    BY <1>13, <2>2, <1>8 DEF JobError
  <2> QED
    BY <1>13, <2>1, <2>2 DEF JobError, Advance, Live
<1>10. CASE UNCHANGED vars
  BY <1>10, HouseStutter DEF vars
<1> QED
  BY <1>1, <1>2, <1>3, <1>4, <1>5, <1>6, <1>7, <1>9, <1>10, <1>11, <1>12, <1>13
     DEF Next, CreateStep, JobStep

\* CreateAuction and the schedulers of all instances implement the abstract
\* house: an auction is listed, ends when due and is announced, never back.
THEOREM LifecycleImplementsHouse == Spec => HouseSpec
<1>1. Spec => House!Init /\ [][House!Next]_(House!vars)
  BY LifeInvariant, EndedInvariant, PastInvariant, HouseInit, HouseStep, PTL DEF Spec
<1> QED
  BY <1>1 DEF HouseSpec, House!Spec
=============================================================================
