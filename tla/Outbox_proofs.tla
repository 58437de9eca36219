----------------------------- MODULE Outbox_proofs -----------------------------
(***************************************************************************)
(* What follows from the abstract specification Outbox, for any items and  *)
(* any number of them.                                                     *)
(***************************************************************************)
EXTENDS Outbox, TLAPS

OutboxTypes ==
  /\ accepted \in Seq(Items)
  /\ written \in Seq(Items)

OutboxInv == OutboxTypes /\ AcceptedOnce /\ WrittenFromFirst

LEMMA OutboxInit == Init => OutboxInv
<1> SUFFICES ASSUME Init PROVE OutboxInv
  OBVIOUS
<1>1. <<>> \in Seq(Items) /\ Len(<<>>) = 0 /\ DOMAIN <<>> = {}
  OBVIOUS
<1> QED
  BY <1>1 DEF Init, OutboxInv, OutboxTypes, AcceptedOnce, WrittenFromFirst

\* What is accepted is new, and leaves what was accepted before where it is.
LEMMA AcceptKeeps ==
  ASSUME OutboxInv, NEW x \in Items, Accept(x)
  PROVE  OutboxInv'
<1>1. /\ accepted \in Seq(Items) /\ accepted' = Append(accepted, x) /\ written' = written
      /\ \A i \in DOMAIN accepted : accepted[i] # x
  BY DEF OutboxInv, OutboxTypes, Accept
<1>2. /\ Len(accepted) \in Nat /\ DOMAIN accepted = 1 .. Len(accepted)
      /\ accepted' \in Seq(Items) /\ Len(accepted') = Len(accepted) + 1
      /\ DOMAIN accepted' = 1 .. Len(accepted) + 1
      /\ \A i \in DOMAIN accepted : accepted'[i] = accepted[i]
      /\ accepted'[Len(accepted) + 1] = x
  BY <1>1
<1>3. AcceptedOnce'
  <2>1. ASSUME NEW i \in DOMAIN accepted', NEW j \in DOMAIN accepted',
               accepted'[i] = accepted'[j]
        PROVE  i = j
    <3>1. \A k \in DOMAIN accepted' : k \in DOMAIN accepted \/ k = Len(accepted) + 1
      BY <1>2
    <3> QED
      BY <1>1, <1>2, <2>1, <3>1 DEF OutboxInv, AcceptedOnce
  <2> QED
    BY <2>1 DEF AcceptedOnce
<1>4. WrittenFromFirst'
  <2>1. written \in Seq(Items) /\ Len(written) <= Len(accepted)
    BY DEF OutboxInv, OutboxTypes, WrittenFromFirst
  <2>2. \A i \in DOMAIN written : i \in DOMAIN accepted
    BY <1>2, <2>1
  <2>3. \A i \in DOMAIN written : written'[i] = accepted'[i]
    BY <1>1, <1>2, <2>2 DEF OutboxInv, WrittenFromFirst
  <2>4. Len(written') <= Len(accepted')
    BY <1>1, <1>2, <2>1
  <2> QED
    BY <1>1, <2>3, <2>4 DEF WrittenFromFirst
<1> QED
  BY <1>1, <1>2, <1>3, <1>4 DEF OutboxInv, OutboxTypes

\* What is written next is the next that was accepted.
LEMMA WriteKeeps == OutboxInv /\ Write => OutboxInv'
<1> SUFFICES ASSUME OutboxInv, Write PROVE OutboxInv'
  OBVIOUS
<1> DEFINE n == Len(written) + 1
<1>1. /\ accepted \in Seq(Items) /\ written \in Seq(Items) /\ Len(written) < Len(accepted)
      /\ accepted' = accepted /\ written' = Append(written, accepted[n])
  BY DEF OutboxInv, OutboxTypes, Write
<1>2. n \in Nat /\ n <= Len(accepted) /\ n \in DOMAIN accepted
  BY <1>1
<1>3. accepted[n] \in Items
  BY <1>1, <1>2
<1>4. /\ written' \in Seq(Items) /\ Len(written') = n /\ DOMAIN written' = 1 .. n
      /\ DOMAIN written = 1 .. n - 1
      /\ \A i \in DOMAIN written : written'[i] = written[i]
      /\ written'[n] = accepted[n]
  BY <1>1, <1>3
<1> HIDE DEF n
<1>5. \A i \in DOMAIN written' : i \in DOMAIN written \/ i = n
  BY <1>2, <1>4
<1>6. WrittenFromFirst'
  BY <1>1, <1>2, <1>4, <1>5 DEF OutboxInv, WrittenFromFirst
<1> QED
  BY <1>1, <1>4, <1>6 DEF OutboxInv, OutboxTypes, AcceptedOnce

LEMMA OutboxInvariant == Spec => []OutboxInv
<1>1. OutboxInv /\ [Next]_vars => OutboxInv'
  <2> SUFFICES ASSUME OutboxInv, [Next]_vars PROVE OutboxInv'
    OBVIOUS
  <2>1. CASE Close \/ UNCHANGED vars
    BY <2>1 DEF Close, vars, OutboxInv, OutboxTypes, AcceptedOnce, WrittenFromFirst
  <2> QED
    BY <2>1, AcceptKeeps, WriteKeeps DEF Next
<1> QED
  BY <1>1, OutboxInit, PTL DEF Spec

\* What an outbox accepts it writes from the first on, nothing left out before
\* another, and nothing twice.
THEOREM OutboxPromise == Spec => [](AcceptedOnce /\ WrittenFromFirst /\ WrittenOnce)
<1>1. OutboxInv => WrittenOnce
  <2> SUFFICES ASSUME OutboxInv, NEW i \in DOMAIN written, NEW j \in DOMAIN written,
                      written[i] = written[j]
               PROVE  i = j
    BY DEF WrittenOnce
  <2>1. \A k \in DOMAIN written : k \in DOMAIN accepted
    BY DEF OutboxInv, OutboxTypes, WrittenFromFirst
  <2>2. accepted[i] = accepted[j]
    BY DEF OutboxInv, WrittenFromFirst
  <2> QED
    BY <2>1, <2>2 DEF OutboxInv, AcceptedOnce
<1> QED
  BY <1>1, OutboxInvariant, PTL DEF OutboxInv
================================================================================
