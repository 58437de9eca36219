-------------------------------- MODULE Outbox --------------------------------
(***************************************************************************)
(* What WsClient.Send promises, with the channel, the sender goroutine and *)
(* the connection abstracted away: what it accepts is written in the order *)
(* of acceptance, nothing twice, none left out before another; and nothing *)
(* is accepted any more once the client is stopped.                        *)
(***************************************************************************)
EXTENDS Naturals, Sequences

CONSTANT Items            \* what may be sent

VARIABLES open,           \* the client is not stopped
          accepted,       \* what Send returned no error for, in that order
          written         \* what is written of it

vars == <<open, accepted, written>>

Init == open = TRUE /\ accepted = <<>> /\ written = <<>>

Accept(x) ==
  /\ open
  /\ \A i \in DOMAIN accepted : accepted[i] # x
  /\ accepted' = Append(accepted, x)
  /\ UNCHANGED <<open, written>>

Write ==
  /\ Len(written) < Len(accepted)
  /\ written' = Append(written, accepted[Len(written) + 1])
  /\ UNCHANGED <<open, accepted>>

Close ==
  /\ open
  /\ open' = FALSE
  /\ UNCHANGED <<accepted, written>>

Next == Write \/ Close \/ \E x \in Items : Accept(x)

Spec == Init /\ [][Next]_vars

-----------------------------------------------------------------------------
(* What that comes to                                                      *)

\* Nothing is accepted twice.
AcceptedOnce ==
  \A i, j \in DOMAIN accepted : accepted[i] = accepted[j] => i = j

\* What is written is what was accepted, from the first on.
WrittenFromFirst ==
  /\ Len(written) <= Len(accepted)
  /\ \A i \in DOMAIN written : written[i] = accepted[i]

\* So nothing is written twice.
WrittenOnce ==
  \A i, j \in DOMAIN written : written[i] = written[j] => i = j
=============================================================================
