--------------------------- MODULE AlertDelivery ---------------------------
(***************************************************************************)
(* What the alert outbox promises of its deliveries, without attempts,     *)
(* tokens, workers, queues or clocks.  A delivery waits, is leased to one  *)
(* attempt, and is settled as sent or closed; the lease of an attempt may  *)
(* lapse at any time.  An attempt the provider confirmed is given back     *)
(* only after its lease lapsed, and only a confirmed one is sent.          *)
(*                                                                         *)
(* AlertOutbox implements this specification.                              *)
(***************************************************************************)
CONSTANTS
    Delivery,       \* the deliveries
    DestinationOf   \* [Delivery -> webhook or chat]

VARIABLES
    phase,      \* where each delivery is
    reached     \* the deliveries whose latest attempt the provider confirmed

promised == <<phase, reached>>

Phases == {"absent", "waiting", "leased", "lapsed", "sent", "closed"}
Held   == {"leased", "lapsed"}
Open   == Held \cup {"waiting"}

Move(S, to) == phase' = [d \in Delivery |-> IF d \in S THEN to ELSE phase[d]]
AllIn(S, from) == \A d \in S : phase[d] \in from

Init == phase = [d \in Delivery |-> "absent"] /\ reached = {}

Enqueue(S) ==
    /\ AllIn(S, {"absent"})
    /\ Move(S, "waiting")
    /\ UNCHANGED reached

\* A batch of attempts begins, no two at one destination.
Lease(S) ==
    /\ AllIn(S, {"waiting"})
    /\ \A d \in S, e \in Delivery :
         d # e /\ DestinationOf[d] = DestinationOf[e]
           => e \notin S /\ phase[e] # "leased"
    /\ Move(S, "leased")
    /\ reached' = reached \ S

Lapse(S) ==
    /\ AllIn(S, {"leased"})
    /\ Move(S, "lapsed")
    /\ UNCHANGED reached

\* Lapsed attempts are given back, confirmed or not.
Recover(S) ==
    /\ AllIn(S, {"lapsed"})
    /\ Move(S, "waiting")
    /\ UNCHANGED reached

\* The provider confirms, in time or late.
Confirm(d) ==
    /\ phase[d] # "absent"
    /\ reached' = reached \cup {d}
    /\ UNCHANGED phase

Retry(d) ==
    /\ AllIn({d}, Held)
    /\ d \notin reached
    /\ Move({d}, "waiting")
    /\ UNCHANGED reached

Deliver(d) ==
    /\ AllIn({d}, Held)
    /\ d \in reached
    /\ Move({d}, "sent")
    /\ UNCHANGED reached

Close(S) ==
    /\ AllIn(S, Open)
    /\ Move(S, "closed")
    /\ UNCHANGED reached

Next ==
    \/ \E S \in SUBSET Delivery :
         Enqueue(S) \/ Lease(S) \/ Lapse(S) \/ Recover(S) \/ Close(S)
    \/ \E d \in Delivery : Confirm(d) \/ Retry(d) \/ Deliver(d)

Spec == Init /\ [][Next]_promised
=============================================================================
