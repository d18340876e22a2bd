------------------------- MODULE AlertOutbox_proofs -------------------------
(***************************************************************************)
(* Theorems about AlertOutbox for every set of deliveries, destinations    *)
(* and workers, and every value of the durations and limits.               *)
(***************************************************************************)
EXTENDS AlertOutbox, FiniteSetTheorems, TLAPS

\* A worker that is not idle has a job.
LEMMA BusyHasJob ==
    ASSUME TypeOK, NEW w \in Worker, work[w].stage # "idle"
    PROVE  /\ work[w] \in Job
           /\ work[w].claim \in Claim
           /\ work[w].claim.d \in Delivery
           /\ work[w].claim.tok \in Nat
  <1>1. work[w] \in Job \cup {Idle}
    BY DEF TypeOK
  <1>2. work[w] # Idle
    BY DEF Idle
  <1> QED BY <1>1, <1>2 DEF Job, Claim

\* Giving a worker back keeps the types of what it changes.
LEMMA ReleaseType ==
    ASSUME TypeOK, NEW w \in Worker, Release(w)
    PROVE  work' \in [Worker -> Job \cup {Idle}] /\ inFlight' \in Int
  <1>1. work \in [Worker -> Job \cup {Idle}] /\ inFlight \in Int
    BY DEF TypeOK
  <1> QED BY <1>1 DEF Release

\* The empty tables and the idle dispatcher have their types.
LEMMA InitTypeOK == Init => TypeOK
  BY OutboxAssumption DEF Init, TypeOK, Statuses, NoToken, NoRow, OutboxAssumption

\* Every statement and every step of the dispatcher keeps the types.
LEMMA NextTypeOK == TypeOK /\ [Next]_vars => TypeOK'
  <1> SUFFICES ASSUME TypeOK, [Next]_vars PROVE TypeOK'
    OBVIOUS
  <1> USE OutboxAssumption DEF OutboxAssumption
  <1>1. ASSUME NEW n \in Notification, EnqueueAlertNotification(n) PROVE TypeOK'
    <2>1. claimLeft' \in [{UserItem[m] : m \in ItemAlert} -> Nat \cup {NoRow}]
      BY <1>1 DEF TypeOK, EnqueueAlertNotification, Refused
    <2>2. status' \in [Delivery -> Statuses] /\ ttl' \in [Notification -> Nat]
      BY <1>1 DEF TypeOK, EnqueueAlertNotification, Refused, InsertRows, Put, Statuses
    <2> QED BY <1>1, <2>1, <2>2 DEF TypeOK, EnqueueAlertNotification, Refused, mem
  <1>2. CASE ClaimAlertDeliveries
    <2> PICK S \in SUBSET Delivery, reply \in BOOLEAN :
          /\ LeaseRows(S)
          /\ \E enabled \in [S -> BOOLEAN] :
               hand' = IF reply
                       THEN {[d |-> d, tok |-> attempts[d] + 1, ok |-> enabled[d]] : d \in S}
                       ELSE {}
      BY <1>2 DEF ClaimAlertDeliveries
    <2>1. /\ status' \in [Delivery -> Statuses]
          /\ attempts' \in [Delivery -> Nat]
          /\ token' \in [Delivery -> Nat]
          /\ leaseLeft' \in [Delivery -> Nat]
      BY DEF TypeOK, LeaseRows, Put, Statuses
    <2>2. hand' \subseteq Claim
      BY DEF TypeOK, Claim
    <2> QED BY <1>2, <2>1, <2>2 DEF TypeOK, ClaimAlertDeliveries
  <1>3. ASSUME NEW c \in hand, PushClaim(c) PROVE TypeOK'
    BY <1>3 DEF TypeOK, PushClaim, rows
  <1>4. ASSUME NEW w \in Worker, WorkerStep(w) PROVE TypeOK'
    <2>1. ASSUME NEW c \in queue, TakeClaim(w, c) PROVE TypeOK'
      <3>1. c \in Claim
        BY <2>1 DEF TypeOK
      <3>2. work' \in [Worker -> Job \cup {Idle}]
        BY <2>1, <3>1 DEF TypeOK, TakeClaim, NextStage, Job, Outcome
      <3> QED BY <2>1, <3>2 DEF TypeOK, TakeClaim, rows
    <2>2. CASE SendAccepted(w)
      <3>1. work[w] \in Job /\ work[w].claim \in Claim
            /\ work[w].claim.d \in Delivery /\ work[w].claim.tok \in Nat
        BY <2>2, BusyHasJob DEF SendAccepted
      <3>2. work' \in [Worker -> Job \cup {Idle}]
        BY <2>2, <3>1 DEF TypeOK, SendAccepted, NextStage, Job, Outcome
      <3>3. acked' \subseteq Delivery \X Nat
        BY <2>2, <3>1 DEF TypeOK, SendAccepted
      <3> QED BY <2>2, <3>2, <3>3 DEF TypeOK, SendAccepted, rows
    <2>3. CASE SendRetryable(w)
      <3>1. work[w] \in Job /\ work[w].claim \in Claim
        BY <2>3, BusyHasJob DEF SendRetryable
      <3>2. work' \in [Worker -> Job \cup {Idle}]
        BY <2>3, <3>1 DEF TypeOK, SendRetryable, NextStage, Job, Outcome
      <3> QED BY <2>3, <3>2 DEF TypeOK, SendRetryable, rows
    <2>4. CASE SendFailed(w)
      <3>1. work[w] \in Job
        BY <2>4, BusyHasJob DEF SendFailed
      <3>2. work' \in [Worker -> Job \cup {Idle}]
        BY <2>4, <3>1 DEF TypeOK, SendFailed, NextStage, Job, Outcome
      <3> QED BY <2>4, <3>2 DEF TypeOK, SendFailed, rows
    <2>5. CASE DeferChannel(w)
      <3>1. work[w] \in Job
        BY <2>5, BusyHasJob DEF DeferChannel
      <3>2. work' \in [Worker -> Job \cup {Idle}]
        BY <2>5, <3>1 DEF TypeOK, DeferChannel, NextStage, Job, Outcome
      <3>3. dueIn' \in [Delivery -> Nat]
        BY <2>5, <3>1 DEF TypeOK, DeferChannel, Postpone, Job
      <3> QED BY <2>5, <3>2, <3>3 DEF TypeOK, DeferChannel
    <2>6. CASE DeferDestination(w)
      <3>1. work[w] \in Job
        BY <2>6, BusyHasJob DEF DeferDestination
      <3>2. dueIn' \in [Delivery -> Nat]
        BY <2>6, <3>1 DEF TypeOK, DeferDestination, Postpone, Job
      <3>3. work' \in [Worker -> Job \cup {Idle}] /\ inFlight' \in Int
        BY <2>6, ReleaseType DEF DeferDestination
      <3> QED BY <2>6, <3>2, <3>3 DEF TypeOK, DeferDestination
    <2>7. CASE FinishAlertDelivery(w)
      <3>1. work[w] \in Job /\ work[w].claim.d \in Delivery
        BY <2>7, BusyHasJob DEF FinishAlertDelivery
      <3>2. work' \in [Worker -> Job \cup {Idle}] /\ inFlight' \in Int
        <4>1. CASE Release(w)
          BY <4>1, ReleaseType
        <4>2. ASSUME NEW pause \in Delay,
                     NextStage(w, [work[w] EXCEPT !.stage = "pausing", !.delay = pause]),
                     UNCHANGED inFlight
              PROVE  work' \in [Worker -> Job \cup {Idle}] /\ inFlight' \in Int
          <5>1. [work[w] EXCEPT !.stage = "pausing", !.delay = pause] \in Job
            BY <2>7, <3>1 DEF Job, FinishAlertDelivery
          <5>2. work \in [Worker -> Job \cup {Idle}] /\ inFlight \in Int
            BY DEF TypeOK
          <5> QED BY <4>2, <5>1, <5>2 DEF NextStage
        <4>3. \/ Release(w)
              \/ /\ \E pause \in Delay :
                      NextStage(w, [work[w] EXCEPT !.stage = "pausing", !.delay = pause])
                 /\ UNCHANGED inFlight
          BY <2>7 DEF FinishAlertDelivery
        <4> QED BY <4>1, <4>2, <4>3
      <3>3. claimLeft' \in [{UserItem[n] : n \in ItemAlert} -> Nat \cup {NoRow}]
        BY <2>7, <3>1 DEF TypeOK, FinishAlertDelivery, Finish, PromoteClaim
      <3>4. status' \in [Delivery -> Statuses]
        <4>1. work[w].outcome \in Statuses
          BY <2>7, <3>1 DEF FinishAlertDelivery, Job, Outcome, Statuses
        <4> QED BY <2>7, <3>1, <4>1 DEF TypeOK, FinishAlertDelivery, Finish
      <3>5. token' \in [Delivery -> Nat] /\ leaseLeft' \in [Delivery -> Nat]
        BY <2>7, <3>1 DEF TypeOK, FinishAlertDelivery, Finish, NoToken
      <3> QED BY <2>7, <3>2, <3>3, <3>4, <3>5 DEF TypeOK, FinishAlertDelivery, Finish
    <2>8. CASE RetryAlertDelivery(w)
      <3>1. work[w] \in Job /\ work[w].claim.d \in Delivery
        BY <2>8, BusyHasJob DEF RetryAlertDelivery
      <3>2. work' \in [Worker -> Job \cup {Idle}] /\ inFlight' \in Int
        BY <2>8, ReleaseType DEF RetryAlertDelivery
      <3>3. /\ status' \in [Delivery -> Statuses]
            /\ token' \in [Delivery -> Nat]
            /\ leaseLeft' \in [Delivery -> Nat]
            /\ dueIn' \in [Delivery -> Nat]
        BY <2>8, <3>1 DEF TypeOK, RetryAlertDelivery, Statuses, NoToken, Job
      <3> QED BY <2>8, <3>2, <3>3 DEF TypeOK, RetryAlertDelivery
    <2>9. CASE DropOutcome(w)
      BY <2>9, ReleaseType DEF TypeOK, DropOutcome, rows
    <2> QED BY <1>4, <2>1, <2>2, <2>3, <2>4, <2>5, <2>6, <2>7, <2>8, <2>9 DEF WorkerStep
  <1>5. CASE RecoverExpiredLeases
    BY <1>5 DEF TypeOK, RecoverExpiredLeases, Lapsed, Put, Statuses, NoToken, mem
  <1>6. CASE ExpireAlertDeliveries
    BY <1>6 DEF TypeOK, ExpireAlertDeliveries, Overdue, Put, Statuses, NoToken, mem
  <1>7. CASE PruneDedupeClaims
    BY <1>7 DEF TypeOK, PruneDedupeClaims, rows, mem
  <1>8. CASE Restart
    BY <1>8 DEF TypeOK, Restart, rows
  <1>9. CASE Tick
    <2>1. /\ leaseLeft' \in [Delivery -> Nat] /\ dueIn' \in [Delivery -> Nat]
          /\ ttl' \in [Notification -> Nat]
          /\ claimLeft' \in [{UserItem[n] : n \in ItemAlert} -> Nat \cup {NoRow}]
      BY <1>9 DEF TypeOK, Tick, Less, NoRow
    <2>2. work' \in [Worker -> Job \cup {Idle}]
      BY <1>9 DEF TypeOK, Tick, Less, Job
    <2> QED BY <1>9, <2>1, <2>2 DEF TypeOK, Tick
  <1>10. CASE UNCHANGED vars
    BY <1>10 DEF TypeOK, vars, rows, mem
  <1> QED
    BY <1>1, <1>2, <1>3, <1>4, <1>5, <1>6, <1>7, <1>8, <1>9, <1>10 DEF Next

\* Every variable stays in its type.
THEOREM TypeCorrect == Spec => []TypeOK
  BY InitTypeOK, NextTypeOK, PTL DEF Spec
-----------------------------------------------------------------------------
(***************************************************************************)
(* Destinations.  The claim query keeps the live leases of a destination   *)
(* exclusive; every other statement only ends leases.                      *)
(***************************************************************************)
LeaseExclusive ==
    \A d, e \in Delivery :
      d # e /\ DestinationOf[d] = DestinationOf[e] => ~(Leased(d) /\ Leased(e))

\* Every statement but the claim leaves at most the leases there were.
LEMMA OthersEndLeases ==
    ASSUME TypeOK, [Next]_vars, ~ClaimAlertDeliveries
    PROVE  \A d \in Delivery : Leased(d)' => Leased(d)
  <1> USE DEF Leased, TypeOK
  <1>1. ASSUME NEW n \in Notification, EnqueueAlertNotification(n)
        PROVE  \A d \in Delivery : Leased(d)' => Leased(d)
    BY <1>1 DEF EnqueueAlertNotification, Refused, InsertRows, Put
  <1>2. ASSUME NEW c \in hand, PushClaim(c)
        PROVE  \A d \in Delivery : Leased(d)' => Leased(d)
    BY <1>2 DEF PushClaim, rows
  <1>3. ASSUME NEW w \in Worker, WorkerStep(w)
        PROVE  \A d \in Delivery : Leased(d)' => Leased(d)
    <2>1. CASE UNCHANGED <<status, leaseLeft>>
      BY <2>1
    <2>2. CASE FinishAlertDelivery(w)
      <3>1. work[w].claim.d \in Delivery
        BY <2>2, BusyHasJob DEF FinishAlertDelivery
      <3>2. /\ status' = [status EXCEPT ![work[w].claim.d] = work[w].outcome]
            /\ leaseLeft' = [leaseLeft EXCEPT ![work[w].claim.d] = 0]
        BY <2>2 DEF FinishAlertDelivery, Finish
      <3> QED BY <3>1, <3>2
    <2>3. CASE RetryAlertDelivery(w)
      BY <2>3, BusyHasJob DEF RetryAlertDelivery
    <2>4. \/ UNCHANGED <<status, leaseLeft>>
          \/ FinishAlertDelivery(w) \/ RetryAlertDelivery(w)
      BY <1>3 DEF WorkerStep, TakeClaim, SendAccepted, SendRetryable, SendFailed,
                  DeferChannel, DeferDestination, DropOutcome, rows
    <2> QED BY <2>1, <2>2, <2>3, <2>4
  <1>4. CASE RecoverExpiredLeases
    BY <1>4 DEF RecoverExpiredLeases, Lapsed, Put
  <1>5. CASE ExpireAlertDeliveries
    BY <1>5 DEF ExpireAlertDeliveries, Overdue, Put
  <1>6. CASE PruneDedupeClaims \/ Restart \/ UNCHANGED vars
    BY <1>6 DEF PruneDedupeClaims, Restart, vars, rows
  <1>7. CASE Tick
    BY <1>7 DEF Tick, Less
  <1> QED BY <1>1, <1>2, <1>3, <1>4, <1>5, <1>6, <1>7 DEF Next

\* A batch takes one delivery per destination: of two candidates, the
\* younger sees the older one live.
LEMMA CandidatesApart ==
    ASSUME NEW d \in Delivery, NEW e \in Delivery, d # e,
           DestinationOf[d] = DestinationOf[e], Candidate(d), Candidate(e)
    PROVE  FALSE
  <1> USE OutboxAssumption DEF OutboxAssumption
  <1>1. NotificationOf[d] # NotificationOf[e]
    OBVIOUS
  <1>2. NotificationOf[d] \in Nat /\ NotificationOf[e] \in Nat
    OBVIOUS
  <1>3. Older(d, e) \/ Older(e, d)
    BY <1>1, <1>2 DEF Older, Class
  <1> QED BY <1>3 DEF Candidate, Rivals, Live

\* No step gives a destination a second live lease.
LEMMA NextLeaseExclusive ==
    TypeOK /\ LeaseExclusive /\ [Next]_vars => LeaseExclusive'
  <1> SUFFICES ASSUME TypeOK, LeaseExclusive, [Next]_vars,
                      NEW d \in Delivery, NEW e \in Delivery,
                      d # e, DestinationOf[d] = DestinationOf[e],
                      Leased(d)', Leased(e)'
               PROVE  FALSE
    BY DEF LeaseExclusive
  <1>1. CASE ~ClaimAlertDeliveries
    BY <1>1, OthersEndLeases DEF LeaseExclusive
  <1>2. CASE ClaimAlertDeliveries
    <2> PICK S \in SUBSET Delivery : FirstCandidates(S) /\ LeaseRows(S)
      BY <1>2 DEF ClaimAlertDeliveries
    <2>1. \A x \in S : Candidate(x)
      BY DEF FirstCandidates
    <2>2. \A x \in Delivery : Leased(x)' => x \in S \/ Leased(x)
      BY DEF LeaseRows, Put, Leased, TypeOK
    <2>3. d \in S => ~Leased(e) /\ e \notin S
      BY <2>1, CandidatesApart DEF Candidate, Rivals
    <2>4. e \in S => ~Leased(d) /\ d \notin S
      BY <2>1, CandidatesApart DEF Candidate, Rivals
    <2> QED BY <2>2, <2>3, <2>4 DEF LeaseExclusive
  <1> QED BY <1>1, <1>2

\* ClaimAlertDeliveries leaves at most one live lease per destination.
THEOREM LeasesExclusive == Spec => []LeaseExclusive
  <1>1. Init => LeaseExclusive
    BY DEF Init, LeaseExclusive, Leased
  <1> QED BY <1>1, InitTypeOK, NextTypeOK, NextLeaseExclusive, PTL DEF Spec

-----------------------------------------------------------------------------
(***************************************************************************)
(* Attempts.  A held claim was issued, is held in one place, and is        *)
(* confirmed exactly if its worker carries the outcome "sent"; a row waits *)
(* again after a confirmed or a last attempt only through lease recovery.  *)
(***************************************************************************)
RowTokens ==
    \A d \in Delivery :
      /\ status[d] \in {"absent", "pending"} => attempts[d] = 0
      /\ status[d] = "processing" => attempts[d] > 0 /\ token[d] = attempts[d]
      /\ status[d] # "processing" => token[d] = NoToken

Issued(c) == 0 < c.tok /\ c.tok <= attempts[c.d]
Confirmed(c) == <<c.d, c.tok>> \in acked

\* Unless its lease was recovered, a claim is the last one of its row and
\* owns the row until that is settled.
Accounted(c) == \/ <<c.d, c.tok>> \in lost
                \/ c.tok = attempts[c.d] /\ (Owns(c) \/ status[c.d] \in Terminal)

WaitingClaims ==
    \A c \in hand \cup queue : Issued(c) /\ Accounted(c) /\ ~Confirmed(c)

WorkedClaims ==
    \A w \in Busy :
      /\ Issued(work[w].claim)
      /\ Accounted(work[w].claim)
      /\ Confirmed(work[w].claim) <=> work[w].outcome = "sent"
      /\ work[w].outcome = "retry" => work[w].claim.tok < MaxAttempts

AckedIssued == \A d \in Delivery, t \in Nat : <<d, t>> \in acked => t <= attempts[d]

WaitingRows ==
    \A d \in Delivery :
      /\ status[d] \in Waiting
      /\ attempts[d] > 0
      /\ <<d, attempts[d]>> \in acked \/ MaxAttempts <= attempts[d]
      => <<d, attempts[d]>> \in lost

AttemptInv ==
    /\ RowTokens /\ WaitingClaims /\ WorkedClaims /\ ClaimHeldOnce
    /\ AckedIssued /\ WaitingRows
    /\ SentWasAccepted /\ ResendOnlyAfterLeaseLoss /\ AttemptLimit


\* The claim of a worker that is not idle, and what AttemptInv says of it.
LEMMA WorkedClaim ==
    ASSUME TypeOK, AttemptInv, NEW w \in Worker, work[w].stage # "idle"
    PROVE  /\ work[w] \in Job /\ work[w] # Idle
           /\ work[w].claim.d \in Delivery /\ work[w].claim.tok \in Nat
           /\ Issued(work[w].claim) /\ Accounted(work[w].claim)
           /\ Confirmed(work[w].claim) <=> work[w].outcome = "sent"
           /\ work[w].outcome = "retry" => work[w].claim.tok < MaxAttempts
  <1>1. work[w] # Idle
    BY DEF Idle
  <1> QED BY <1>1, BusyHasJob DEF AttemptInv, WorkedClaims, Busy

\* A worker keeps its claim, and takes no outcome it may not have.
KeepsClaim(w) ==
    /\ work[w] # Idle
    /\ work'[w].claim = work[w].claim
    /\ work'[w].outcome = "sent" <=> work[w].outcome = "sent"
    /\ work'[w].outcome = "retry" => work[w].claim.tok < MaxAttempts

\* If claims are only moved on or dropped, and the claims that stay are
\* still accounted for, then what AttemptInv says of claims is kept.
LEMMA ClaimsKept ==
    ASSUME TypeOK, WaitingClaims, WorkedClaims, ClaimHeldOnce,
           UNCHANGED acked,
           hand' \cup queue' \subseteq hand \cup queue,
           hand' \cap queue' = {},
           \A w \in Worker : work'[w] = Idle \/ KeepsClaim(w),
           \A c \in Claim :
             /\ \/ c \in hand' \cup queue'
                \/ \E w \in Worker : work'[w] # Idle /\ work[w].claim = c
             /\ Issued(c) /\ Accounted(c)
             => Issued(c)' /\ Accounted(c)'
    PROVE  WaitingClaims' /\ WorkedClaims' /\ ClaimHeldOnce'
  <1>1. WaitingClaims'
    <2> SUFFICES ASSUME NEW c \in hand' \cup queue'
                 PROVE  Issued(c)' /\ Accounted(c)' /\ ~Confirmed(c)'
      BY DEF WaitingClaims
    <2>1. c \in hand \cup queue /\ c \in Claim
      BY DEF TypeOK
    <2>2. Issued(c) /\ Accounted(c) /\ ~Confirmed(c)
      BY <2>1 DEF WaitingClaims
    <2>3. Issued(c)' /\ Accounted(c)'
      BY <2>1, <2>2
    <2> QED BY <2>2, <2>3 DEF Confirmed
  <1>2. WorkedClaims'
    <2> SUFFICES ASSUME NEW w \in Worker, work'[w] # Idle
                 PROVE  /\ Issued(work[w].claim)'
                        /\ Accounted(work[w].claim)'
                        /\ Confirmed(work[w].claim)' <=> work'[w].outcome = "sent"
                        /\ work'[w].outcome = "retry" => work'[w].claim.tok < MaxAttempts
      BY DEF WorkedClaims, Busy
    <2> DEFINE c == work[w].claim
    <2>1. KeepsClaim(w) /\ w \in Busy
      BY DEF KeepsClaim, Busy
    <2>2. c \in Claim
      BY <2>1 DEF TypeOK, Busy, Job
    <2>3. Issued(c) /\ Accounted(c) /\ (Confirmed(c) <=> work[w].outcome = "sent")
      BY <2>1 DEF WorkedClaims
    <2>4. /\ 0 < c.tok /\ c.tok <= attempts'[c.d]
          /\ \/ <<c.d, c.tok>> \in lost'
             \/ /\ c.tok = attempts'[c.d]
                /\ \/ status'[c.d] = "processing" /\ token'[c.d] = c.tok
                   \/ status'[c.d] \in Terminal
      <3> HIDE DEF c
      <3>1. \E v \in Worker : work'[v] # Idle /\ work[v].claim = c
        BY DEF c
      <3> QED BY <2>2, <2>3, <3>1 DEF Issued, Accounted, Owns
    <2> QED BY <2>1, <2>3, <2>4 DEF KeepsClaim, Issued, Accounted, Owns, Confirmed
  <1>3. ClaimHeldOnce'
    <2>1. \A w \in Worker : work'[w] # Idle =>
            work[w] # Idle /\ work'[w].claim = work[w].claim
      BY DEF KeepsClaim
    <2> QED BY <2>1 DEF ClaimHeldOnce, Busy
  <1> QED BY <1>1, <1>2, <1>3

\* ... and if no row changes either, so is the rest.
LEMMA ClaimsMoveOn ==
    ASSUME TypeOK, AttemptInv,
           UNCHANGED <<status, attempts, token, acked, lost>>,
           hand' \cup queue' \subseteq hand \cup queue,
           hand' \cap queue' = {},
           \A w \in Worker : work'[w] = Idle \/ KeepsClaim(w)
    PROVE  AttemptInv'
  <1>1. \A c \in Claim : Issued(c) /\ Accounted(c) => Issued(c)' /\ Accounted(c)'
    BY DEF Issued, Accounted, Owns
  <1>2. WaitingClaims' /\ WorkedClaims' /\ ClaimHeldOnce'
    BY <1>1, ClaimsKept DEF AttemptInv
  <1> QED BY <1>2
          DEF AttemptInv, RowTokens, AckedIssued, WaitingRows,
              SentWasAccepted, ResendOnlyAfterLeaseLoss, AttemptLimit

\* A worker advances its job, or lets it go; the others stand still.
LEMMA OneWorkerSteps ==
    ASSUME TypeOK, WorkedClaims, NEW w \in Worker,
           NEW j, work' = [work EXCEPT ![w] = j],
           \/ j = Idle
           \/ /\ work[w] # Idle /\ j.claim = work[w].claim
              /\ j.outcome = "sent" <=> work[w].outcome = "sent"
              /\ j.outcome = "retry" => work[w].claim.tok < MaxAttempts
    PROVE  /\ \A v \in Worker : work'[v] = Idle \/ KeepsClaim(v)
           /\ \A v \in Worker \ {w} : work'[v] = work[v]
  <1>1. work \in [Worker -> Job \cup {Idle}]
    BY DEF TypeOK
  <1>2. \A v \in Worker \ {w} : work'[v] = work[v]
    BY <1>1
  <1>3. \A v \in Worker \ {w} : work'[v] = Idle \/ KeepsClaim(v)
    BY <1>2 DEF WorkedClaims, Busy, KeepsClaim
  <1>4. work'[w] = Idle \/ KeepsClaim(w)
    BY <1>1 DEF KeepsClaim
  <1> QED BY <1>2, <1>3, <1>4

\* The inductive step: one step below per action.
LEMMA NextAttemptInv == TypeOK /\ AttemptInv /\ [Next]_vars => AttemptInv'
  <1> SUFFICES ASSUME TypeOK, AttemptInv, [Next]_vars,
                      RowTokens, WaitingClaims, WorkedClaims, ClaimHeldOnce,
                      AckedIssued, WaitingRows, SentWasAccepted,
                      ResendOnlyAfterLeaseLoss, AttemptLimit
               PROVE  AttemptInv'
    BY DEF AttemptInv
  <1> USE OutboxAssumption DEF OutboxAssumption
  <1>0. TypeOK'
    BY NextTypeOK
  <1>1. ASSUME NEW n \in Notification, EnqueueAlertNotification(n) PROVE AttemptInv'
    <2>1. UNCHANGED <<attempts, token, hand, queue, work, acked, lost>>
      BY <1>1 DEF EnqueueAlertNotification, Refused, mem
    <2>2. \A d \in Delivery :
            \/ status'[d] = status[d]
            \/ status[d] = "absent" /\ status'[d] = "pending"
      BY <1>1 DEF TypeOK, EnqueueAlertNotification, Refused, InsertRows, Put, Known, Targets
    <2>3. RowTokens'
      BY <2>1, <2>2 DEF RowTokens
    <2>4. WaitingRows' /\ SentWasAccepted'
      BY <2>1, <2>2 DEF RowTokens, WaitingRows, Waiting, SentWasAccepted
    <2>5. \A c \in Claim : Issued(c) /\ Accounted(c) => Issued(c)' /\ Accounted(c)'
      BY <2>1, <2>2 DEF Claim, Issued, Accounted, Owns, RowTokens, Terminal
    <2>6. \A w \in Worker : work'[w] = Idle \/ KeepsClaim(w)
      BY <2>1 DEF KeepsClaim, WorkedClaims, Busy
    <2>7. hand \cap queue = {}
      BY DEF ClaimHeldOnce
    <2>8. WaitingClaims' /\ WorkedClaims' /\ ClaimHeldOnce'
      BY <2>1, <2>5, <2>6, <2>7, ClaimsKept
    <2> QED BY <2>1, <2>3, <2>4, <2>8
            DEF AttemptInv, AckedIssued, ResendOnlyAfterLeaseLoss, AttemptLimit
  <1>2. CASE ClaimAlertDeliveries
    <2> PICK S \in SUBSET Delivery, reply \in BOOLEAN :
          /\ FirstCandidates(S)
          /\ LeaseRows(S)
          /\ \E enabled \in [S -> BOOLEAN] :
               hand' = IF reply
                       THEN {[d |-> d, tok |-> attempts[d] + 1, ok |-> enabled[d]] : d \in S}
                       ELSE {}
      BY <1>2 DEF ClaimAlertDeliveries
    <2>1. UNCHANGED <<queue, work, acked, lost>> /\ hand = {}
      BY <1>2 DEF ClaimAlertDeliveries
    <2>2. \A d \in S : status[d] \in Waiting
      BY DEF FirstCandidates, Candidate
    <2>3. \A d \in Delivery :
            IF d \in S
            THEN status'[d] = "processing" /\ attempts'[d] = attempts[d] + 1
                 /\ token'[d] = attempts[d] + 1
            ELSE status'[d] = status[d] /\ attempts'[d] = attempts[d] /\ token'[d] = token[d]
      BY DEF LeaseRows, Put, TypeOK
    <2>4. \A d \in Delivery : attempts[d] \in Nat /\ attempts'[d] >= attempts[d]
      BY <2>3 DEF TypeOK
    <2>5. \A c \in hand' : /\ c.d \in S /\ c.tok = attempts[c.d] + 1
                           /\ \A b \in hand' : b.d = c.d => b = c
      OBVIOUS
    <2>6. RowTokens'
      BY <2>3, <2>4 DEF RowTokens
    <2>7. AckedIssued'
      BY <2>1, <2>4, <1>0 DEF AckedIssued, TypeOK
    <2>13. \A c \in Claim : Issued(c) /\ Accounted(c) => Issued(c)' /\ Accounted(c)'
      BY <2>1, <2>2, <2>3, <2>4 DEF Claim, Issued, Accounted, Owns, Waiting, Terminal
    <2>8. WaitingClaims'
      <3>1. \A c \in queue : Issued(c)' /\ Accounted(c)' /\ ~Confirmed(c)'
        BY <2>1, <2>13 DEF WaitingClaims, Confirmed, TypeOK
      <3>2. ASSUME NEW c \in hand' PROVE Issued(c)' /\ Accounted(c)' /\ ~Confirmed(c)'
        <4>1. /\ c.d \in S /\ c.tok = attempts[c.d] + 1 /\ attempts[c.d] \in Nat
              /\ c.tok = attempts'[c.d] /\ status'[c.d] = "processing" /\ token'[c.d] = c.tok
          BY <2>3, <2>4, <2>5
        <4>2. Issued(c)' /\ Accounted(c)'
          BY <4>1 DEF Issued, Accounted, Owns
        <4>3. <<c.d, c.tok>> \notin acked
          BY <4>1 DEF AckedIssued
        <4> QED BY <2>1, <4>2, <4>3 DEF Confirmed
      <3> QED BY <2>1, <3>1, <3>2 DEF WaitingClaims
    <2>9. WorkedClaims'
      <3> SUFFICES ASSUME NEW w \in Busy
                   PROVE  /\ Issued(work[w].claim)' /\ Accounted(work[w].claim)'
                          /\ Confirmed(work[w].claim)' <=> work[w].outcome = "sent"
                          /\ work[w].outcome = "retry" => work[w].claim.tok < MaxAttempts
        BY <2>1 DEF WorkedClaims, Busy
      <3> DEFINE c == work[w].claim
      <3>1. c \in Claim
        BY DEF TypeOK, Busy, Job
      <3>2. Issued(c) /\ Accounted(c) /\ (Confirmed(c) <=> work[w].outcome = "sent")
        BY DEF WorkedClaims
      <3>3. /\ 0 < c.tok /\ c.tok <= attempts'[c.d]
            /\ \/ <<c.d, c.tok>> \in lost'
               \/ /\ c.tok = attempts'[c.d]
                  /\ \/ status'[c.d] = "processing" /\ token'[c.d] = c.tok
                     \/ status'[c.d] \in Terminal
        <4> HIDE DEF c
        <4> QED BY <2>13, <3>1, <3>2 DEF Issued, Accounted, Owns
      <3>4. work[w].outcome = "retry" => work[w].claim.tok < MaxAttempts
        BY DEF WorkedClaims
      <3> QED BY <2>1, <3>2, <3>3, <3>4 DEF Issued, Accounted, Owns, Confirmed
    <2>10. ClaimHeldOnce'
      <3>1. \A c \in hand', b \in queue : <<c.d, c.tok>> # <<b.d, b.tok>>
        BY <2>4, <2>5 DEF WaitingClaims, Issued, TypeOK, Claim
      <3>2. \A c \in hand', w \in Busy :
              <<c.d, c.tok>> # <<work[w].claim.d, work[w].claim.tok>>
        BY <2>4, <2>5 DEF WorkedClaims, Issued, TypeOK, Claim, Busy, Job
      <3>3. \A b, c \in hand' : b # c => <<b.d, b.tok>> # <<c.d, c.tok>>
        BY <2>5
      <3> QED BY <2>1, <3>1, <3>2, <3>3 DEF ClaimHeldOnce, Busy
    <2>11. WaitingRows' /\ SentWasAccepted'
      BY <2>1, <2>3 DEF WaitingRows, SentWasAccepted, Waiting
    <2>12. ResendOnlyAfterLeaseLoss' /\ AttemptLimit'
      <3> SUFFICES ASSUME NEW d \in Delivery, NEW t \in 1..attempts'[d], t < attempts'[d],
                          <<d, t>> \in acked \/ MaxAttempts <= t
                   PROVE  <<d, t>> \in lost
        BY <2>1 DEF ResendOnlyAfterLeaseLoss, AttemptLimit
      <3>1. CASE t < attempts[d]
        BY <2>4, <3>1 DEF ResendOnlyAfterLeaseLoss, AttemptLimit
      <3>2. CASE t >= attempts[d]
        <4>1. d \in S /\ t = attempts[d]
          BY <2>3, <2>4, <3>2
        <4> QED BY <2>2, <2>4, <4>1 DEF WaitingRows
      <3> QED BY <2>4, <3>1, <3>2
    <2> QED BY <2>6, <2>7, <2>8, <2>9, <2>10, <2>11, <2>12 DEF AttemptInv
  <1>3. ASSUME NEW c \in hand, PushClaim(c) PROVE AttemptInv'
    <2>1. /\ UNCHANGED <<status, attempts, token, work, acked, lost>>
          /\ hand' = hand \ {c} /\ queue' = queue \cup {c}
      BY <1>3 DEF PushClaim, rows
    <2>2. hand' \cap queue' = {}
      BY <2>1 DEF ClaimHeldOnce
    <2>3. \A w \in Worker : work[w] # Idle => w \in Busy
      BY DEF Busy
    <2>4. \A w \in Busy : work[w].outcome = "retry" => work[w].claim.tok < MaxAttempts
      BY DEF WorkedClaims
    <2>5. \A w \in Worker : work'[w] = Idle \/ KeepsClaim(w)
      BY <2>1, <2>3, <2>4 DEF KeepsClaim
    <2> QED BY <2>1, <2>2, <2>5, ClaimsMoveOn
  <1>4. ASSUME NEW w \in Worker, WorkerStep(w) PROVE AttemptInv'
    <2>1. work \in [Worker -> Job \cup {Idle}]
      BY DEF TypeOK
    <2>2. hand \cap queue = {}
      BY DEF ClaimHeldOnce
    <2>3. ASSUME NEW c \in queue, TakeClaim(w, c) PROVE AttemptInv'
      <3>1. /\ UNCHANGED <<status, attempts, token, hand, acked, lost>>
            /\ queue' = queue \ {c} /\ work[w] = Idle
        BY <2>3 DEF TakeClaim, rows
      <3>2. PICK j : /\ work' = [work EXCEPT ![w] = j] /\ j.claim = c /\ j # Idle
                     /\ j.outcome # "sent" /\ j.outcome # "retry"
        <4> DEFINE J(y, x) == [stage |-> y, claim |-> c, outcome |-> x, delay |-> 0]
        <4>1. \/ work' = [work EXCEPT ![w] = J("recording", "cancelled")]
              \/ work' = [work EXCEPT ![w] = J("recording", "expired")]
              \/ work' = [work EXCEPT ![w] = J("sending", "none")]
          BY <2>3 DEF TakeClaim, NextStage
        <4>2. ASSUME NEW y \in {"recording", "sending"},
                     NEW x \in {"cancelled", "expired", "none"}
              PROVE  /\ J(y, x).claim = c /\ J(y, x) # Idle
                     /\ J(y, x).outcome # "sent" /\ J(y, x).outcome # "retry"
          BY DEF Idle
        <4> HIDE DEF J
        <4> QED BY <4>1, <4>2
      <3>3. work'[w] = j /\ \A v \in Worker \ {w} : work'[v] = work[v]
        BY <2>1, <3>2
      <3>4. WaitingClaims'
        BY <3>1 DEF WaitingClaims, Issued, Accounted, Owns, Confirmed
      <3>5. Issued(c) /\ Accounted(c) /\ ~Confirmed(c)
        BY DEF WaitingClaims
      <3>6. WorkedClaims'
        <4> SUFFICES ASSUME NEW v \in Worker, work'[v] # Idle
                     PROVE  /\ Issued(work[v].claim)' /\ Accounted(work[v].claim)'
                            /\ Confirmed(work[v].claim)' <=> work'[v].outcome = "sent"
                            /\ work'[v].outcome = "retry" => work'[v].claim.tok < MaxAttempts
          BY DEF WorkedClaims, Busy
        <4>1. CASE v = w
          BY <3>1, <3>2, <3>3, <3>5, <4>1 DEF Issued, Accounted, Owns, Confirmed
        <4>2. CASE v # w
          BY <3>1, <3>3, <4>2 DEF WorkedClaims, Busy, Issued, Accounted, Owns, Confirmed
        <4> QED BY <4>1, <4>2
      <3>7. ClaimHeldOnce'
        BY <3>1, <3>2, <3>3 DEF ClaimHeldOnce, Busy
      <3> QED BY <3>1, <3>4, <3>6, <3>7
              DEF AttemptInv, RowTokens, AckedIssued, WaitingRows,
                  SentWasAccepted, ResendOnlyAfterLeaseLoss, AttemptLimit
    <2>4. CASE SendAccepted(w)
      <3> DEFINE c == work[w].claim
      <3>1. /\ UNCHANGED <<status, attempts, token, hand, queue, lost>>
            /\ acked' = acked \cup {<<c.d, c.tok>>}
            /\ work' = [work EXCEPT ![w] = [stage |-> "recording", claim |-> c,
                                            outcome |-> "sent", delay |-> 0]]
            /\ work[w].stage = "sending"
        BY <2>4 DEF SendAccepted, NextStage, rows
      <3>2. /\ work[w] # Idle /\ c.d \in Delivery /\ c.tok \in Nat
            /\ Issued(c) /\ Accounted(c)
        BY <3>1, WorkedClaim
      <3>3. w \in Busy
        BY <3>2 DEF Busy
      <3>4. /\ work'[w].claim = c /\ work'[w].outcome = "sent" /\ work'[w] # Idle
            /\ \A v \in Worker \ {w} : work'[v] = work[v]
        BY <2>1, <3>1 DEF Idle
      <3>5. Busy' = Busy
        BY <3>2, <3>4 DEF Busy
      <3>6. WaitingClaims'
        <4>1. \A b \in hand \cup queue : <<b.d, b.tok>> # <<c.d, c.tok>>
          BY <3>3 DEF ClaimHeldOnce
        <4> QED BY <3>1, <4>1 DEF WaitingClaims, Issued, Accounted, Owns, Confirmed
      <3>7. WorkedClaims'
        <4> SUFFICES ASSUME NEW v \in Busy
                     PROVE  /\ Issued(work[v].claim)' /\ Accounted(work[v].claim)'
                            /\ Confirmed(work[v].claim)' <=> work'[v].outcome = "sent"
                            /\ work'[v].outcome = "retry" => work'[v].claim.tok < MaxAttempts
          BY <3>5 DEF WorkedClaims
        <4>1. CASE v = w
          BY <3>1, <3>2, <3>4, <4>1 DEF Issued, Accounted, Owns, Confirmed
        <4>2. CASE v # w
          <5>1. <<work[v].claim.d, work[v].claim.tok>> # <<c.d, c.tok>>
            BY <3>3, <4>2 DEF ClaimHeldOnce
          <5>2. work'[v] = work[v]
            BY <3>4, <4>2 DEF Busy
          <5> QED BY <3>1, <5>1, <5>2 DEF WorkedClaims, Issued, Accounted, Owns, Confirmed
        <4> QED BY <4>1, <4>2
      <3>8. ClaimHeldOnce'
        <4>1. \A v \in Busy : work'[v].claim = work[v].claim
          BY <3>4 DEF Busy
        <4> QED BY <3>1, <3>5, <4>1 DEF ClaimHeldOnce
      <3>9. AckedIssued' /\ SentWasAccepted'
        BY <3>1, <3>2 DEF AckedIssued, SentWasAccepted, Issued
      <3>10. ResendOnlyAfterLeaseLoss'
        BY <3>1, <3>2 DEF ResendOnlyAfterLeaseLoss, Accounted
      <3>11. WaitingRows'
        BY <3>1, <3>2 DEF WaitingRows, Accounted, Owns, Waiting, Terminal
      <3> QED BY <3>1, <3>6, <3>7, <3>8, <3>9, <3>10, <3>11
              DEF AttemptInv, RowTokens, AttemptLimit
    <2>5. CASE SendRetryable(w)
      <3> DEFINE c == work[w].claim
      <3> PICK delay \in Delay, next \in {"recording", "deferring"} :
            /\ MayRetry(c, delay)
            /\ work' = [work EXCEPT ![w] = [stage |-> next, claim |-> c,
                                            outcome |-> "retry", delay |-> delay]]
        BY <2>5 DEF SendRetryable, NextStage
      <3>1. /\ UNCHANGED <<status, attempts, token, hand, queue, acked, lost>>
            /\ work[w].stage = "sending" /\ c.tok < MaxAttempts
        BY <2>5 DEF SendRetryable, MayRetry, rows
      <3>2. work[w] # Idle /\ work[w].outcome # "sent"
        BY <3>1, WorkedClaim DEF Job
      <3>3. \A v \in Worker : work'[v] = Idle \/ KeepsClaim(v)
        BY <3>1, <3>2, OneWorkerSteps
      <3> QED BY <2>2, <3>1, <3>3, ClaimsMoveOn
    <2>6. CASE SendFailed(w)
      <3>1. /\ UNCHANGED <<status, attempts, token, hand, queue, acked, lost>>
            /\ work[w].stage = "sending"
            /\ work' = [work EXCEPT ![w] =
                          [work[w] EXCEPT !.stage = "recording", !.outcome = "failed"]]
        BY <2>6 DEF SendFailed, NextStage, rows
      <3>2. work[w] \in Job /\ work[w] # Idle /\ work[w].outcome # "sent"
        BY <3>1, WorkedClaim DEF Job
      <3> DEFINE j == [work[w] EXCEPT !.stage = "recording", !.outcome = "failed"]
      <3>3. j.claim = work[w].claim /\ j.outcome = "failed"
        BY <3>2 DEF Job
      <3>4. \A v \in Worker : work'[v] = Idle \/ KeepsClaim(v)
        BY <3>1, <3>2, <3>3, OneWorkerSteps
      <3> QED BY <2>2, <3>1, <3>4, ClaimsMoveOn
    <2>7. CASE DeferChannel(w)
      <3>1. /\ UNCHANGED <<status, attempts, token, hand, queue, acked, lost>>
            /\ work' = [work EXCEPT ![w] = [work[w] EXCEPT !.stage = "recording"]]
            /\ work[w].stage = "deferring"
        BY <2>7 DEF DeferChannel, NextStage
      <3>2. /\ work[w] \in Job /\ work[w] # Idle
            /\ work[w].outcome = "retry" => work[w].claim.tok < MaxAttempts
        BY <3>1, WorkedClaim
      <3> DEFINE j == [work[w] EXCEPT !.stage = "recording"]
      <3>3. j.claim = work[w].claim /\ j.outcome = work[w].outcome
        BY <3>2 DEF Job
      <3>4. \A v \in Worker : work'[v] = Idle \/ KeepsClaim(v)
        BY <3>1, <3>2, <3>3, OneWorkerSteps
      <3> QED BY <2>2, <3>1, <3>4, ClaimsMoveOn
    <2>8. CASE DeferDestination(w) \/ DropOutcome(w)
      <3>1. /\ UNCHANGED <<status, attempts, token, hand, queue, acked, lost>>
            /\ work' = [work EXCEPT ![w] = Idle]
        BY <2>8 DEF DeferDestination, DropOutcome, Release, rows
      <3>2. \A v \in Worker : work'[v] = Idle \/ KeepsClaim(v)
        BY <3>1, OneWorkerSteps
      <3> QED BY <2>2, <3>1, <3>2, ClaimsMoveOn
    <2>9. CASE FinishAlertDelivery(w)
      <3> DEFINE c == work[w].claim
                 result == work[w].outcome
      <3>1. /\ UNCHANGED <<attempts, hand, queue, acked, lost>>
            /\ status' = [status EXCEPT ![c.d] = result]
            /\ token' = [token EXCEPT ![c.d] = NoToken]
            /\ work[w].stage = "recording" /\ result # "retry" /\ Owns(c)
        BY <2>9 DEF FinishAlertDelivery, Finish
      <3>2. /\ work[w] \in Job /\ work[w] # Idle
            /\ c.d \in Delivery /\ c.tok \in Nat
            /\ Issued(c) /\ (Confirmed(c) <=> result = "sent")
        BY <3>1, WorkedClaim
      <3>3. result \in Terminal
        BY <3>1, <3>2 DEF Job, Outcome, Terminal
      <3>4. c.tok = attempts[c.d] /\ status[c.d] = "processing"
        BY <3>1, <3>2 DEF Owns, RowTokens
      <3>5. \A d \in Delivery :
              IF d = c.d THEN status'[d] = result /\ token'[d] = NoToken
              ELSE status'[d] = status[d] /\ token'[d] = token[d]
        BY <3>1, <3>2 DEF TypeOK
      <3>6. \A b \in Claim : Issued(b) /\ Accounted(b) => Issued(b)' /\ Accounted(b)'
        BY <3>1, <3>3, <3>4, <3>5 DEF Claim, Issued, Accounted, Owns
      <3>7. \A v \in Worker : work'[v] = Idle \/ KeepsClaim(v)
        <4>1. CASE Release(w)
          BY <4>1, OneWorkerSteps DEF Release
        <4>2. ASSUME NEW pause \in Delay,
                     NextStage(w, [work[w] EXCEPT !.stage = "pausing", !.delay = pause])
              PROVE  \A v \in Worker : work'[v] = Idle \/ KeepsClaim(v)
          <5> DEFINE j == [work[w] EXCEPT !.stage = "pausing", !.delay = pause]
          <5>1. j.claim = work[w].claim /\ j.outcome = work[w].outcome
            BY <3>2 DEF Job
          <5>2. work' = [work EXCEPT ![w] = j]
            BY <4>2 DEF NextStage
          <5> HIDE DEF j
          <5> QED BY <3>1, <3>2, <5>1, <5>2, OneWorkerSteps
        <4> QED BY <2>9, <4>1, <4>2 DEF FinishAlertDelivery
      <3>8. WaitingClaims' /\ WorkedClaims' /\ ClaimHeldOnce'
        BY <2>2, <3>1, <3>6, <3>7, ClaimsKept
      <3>9. RowTokens'
        BY <3>1, <3>3, <3>5 DEF RowTokens, Terminal
      <3>10. SentWasAccepted'
        BY <3>1, <3>2, <3>4, <3>5 DEF SentWasAccepted, Confirmed
      <3>11. WaitingRows'
        BY <3>1, <3>3, <3>5 DEF WaitingRows, Waiting, Terminal
      <3> QED BY <3>1, <3>8, <3>9, <3>10, <3>11
              DEF AttemptInv, AckedIssued, ResendOnlyAfterLeaseLoss, AttemptLimit
    <2>10. CASE RetryAlertDelivery(w)
      <3> DEFINE c == work[w].claim
      <3>1. /\ UNCHANGED <<attempts, hand, queue, acked, lost>>
            /\ status' = [status EXCEPT ![c.d] = "retrying"]
            /\ token' = [token EXCEPT ![c.d] = NoToken]
            /\ work' = [work EXCEPT ![w] = Idle]
            /\ work[w].stage = "recording" /\ work[w].outcome = "retry" /\ Owns(c)
        BY <2>10 DEF RetryAlertDelivery, Release
      <3>2. /\ work[w] # Idle /\ c.d \in Delivery /\ c.tok \in Nat
            /\ ~Confirmed(c) /\ c.tok < MaxAttempts
        BY <3>1, WorkedClaim
      <3>3. w \in Busy /\ work'[w] = Idle
        BY <2>1, <3>1, <3>2 DEF Busy
      <3>4. c.tok = attempts[c.d] /\ status[c.d] = "processing"
        BY <3>1, <3>2 DEF Owns, RowTokens
      <3>5. \A d \in Delivery :
              IF d = c.d THEN status'[d] = "retrying" /\ token'[d] = NoToken
              ELSE status'[d] = status[d] /\ token'[d] = token[d]
        BY <3>1, <3>2 DEF TypeOK
      <3>6. \A b \in Claim : /\ <<b.d, b.tok>> # <<c.d, c.tok>>
                             /\ Issued(b) /\ Accounted(b)
                             => Issued(b)' /\ Accounted(b)'
        BY <3>1, <3>4, <3>5 DEF Claim, Issued, Accounted, Owns, Terminal
      <3>7. \A v \in Worker : work'[v] = Idle \/ KeepsClaim(v)
        BY <3>1, OneWorkerSteps
      <3>8. \A b \in hand \cup queue : <<b.d, b.tok>> # <<c.d, c.tok>>
        BY <3>3 DEF ClaimHeldOnce
      <3>9. \A v \in Worker : work'[v] # Idle =>
              <<work[v].claim.d, work[v].claim.tok>> # <<c.d, c.tok>>
        BY <3>3, <3>7 DEF ClaimHeldOnce, Busy, KeepsClaim
      <3>10. WaitingClaims' /\ WorkedClaims' /\ ClaimHeldOnce'
        BY <2>2, <3>1, <3>6, <3>7, <3>8, <3>9, ClaimsKept
      <3>11. RowTokens' /\ SentWasAccepted'
        BY <3>1, <3>4, <3>5 DEF RowTokens, SentWasAccepted
      <3>12. WaitingRows'
        <4> SUFFICES ASSUME NEW d \in Delivery,
                            status'[d] \in Waiting, attempts[d] > 0,
                            <<d, attempts[d]>> \in acked \/ MaxAttempts <= attempts[d]
                     PROVE  <<d, attempts[d]>> \in lost
          BY <3>1 DEF WaitingRows
        <4>1. CASE d = c.d
          <5>1. ~(<<d, attempts[d]>> \in acked)
            BY <3>2, <3>4, <4>1 DEF Confirmed
          <5>2. ~(MaxAttempts <= attempts[d])
            BY <3>2, <3>4, <4>1
          <5> QED BY <5>1, <5>2
        <4>2. CASE d # c.d
          BY <3>5, <4>2 DEF WaitingRows
        <4> QED BY <4>1, <4>2
      <3> QED BY <3>1, <3>10, <3>11, <3>12
              DEF AttemptInv, AckedIssued, ResendOnlyAfterLeaseLoss, AttemptLimit
    <2> QED BY <1>4, <2>3, <2>4, <2>5, <2>6, <2>7, <2>8, <2>9, <2>10 DEF WorkerStep
  <1>5. CASE RecoverExpiredLeases
    <2> DEFINE expired == {d \in Delivery : status[d] = "processing" /\ leaseLeft[d] = 0}
    <2>1. /\ UNCHANGED <<attempts, hand, queue, work, acked>>
          /\ lost' = lost \cup {<<d, token[d]>> : d \in expired}
      BY <1>5 DEF RecoverExpiredLeases, Lapsed, mem
    <2>2. \A d \in Delivery :
            IF d \in expired
            THEN status'[d] = "retrying" /\ token'[d] = NoToken /\ status[d] = "processing"
                 /\ <<d, attempts[d]>> \in lost'
            ELSE status'[d] = status[d] /\ token'[d] = token[d]
      BY <1>5 DEF RecoverExpiredLeases, Lapsed, Put, RowTokens, TypeOK
    <2>3. lost \subseteq lost'
      BY <2>1
    <2> HIDE DEF expired
    <2>4. \A c \in Claim : Issued(c) /\ Accounted(c) => Issued(c)' /\ Accounted(c)'
      BY <2>1, <2>2, <2>3 DEF Claim, Issued, Accounted, Owns, Terminal
    <2>5. \A w \in Worker : work'[w] = Idle \/ KeepsClaim(w)
      BY <2>1 DEF KeepsClaim, WorkedClaims, Busy
    <2>6. WaitingClaims' /\ WorkedClaims' /\ ClaimHeldOnce'
      <3>1. hand \cap queue = {}
        BY DEF ClaimHeldOnce
      <3> QED BY <2>1, <2>4, <2>5, <3>1, ClaimsKept
    <2>7. RowTokens' /\ SentWasAccepted' /\ AckedIssued'
      BY <2>1, <2>2 DEF RowTokens, SentWasAccepted, AckedIssued
    <2>8. WaitingRows'
      BY <2>1, <2>2, <2>3 DEF WaitingRows
    <2>9. ResendOnlyAfterLeaseLoss' /\ AttemptLimit'
      BY <2>1, <2>3 DEF ResendOnlyAfterLeaseLoss, AttemptLimit
    <2> QED BY <2>6, <2>7, <2>8, <2>9 DEF AttemptInv
  <1>6. CASE ExpireAlertDeliveries
    <2> DEFINE expired == {d \in Delivery : status[d] \in Live /\ ~Unexpired(d)}
    <2>1. UNCHANGED <<attempts, hand, queue, work, acked, lost>>
      BY <1>6 DEF ExpireAlertDeliveries, Overdue, mem
    <2>2. \A d \in Delivery :
            IF d \in expired
            THEN status'[d] = "expired" /\ token'[d] = NoToken
            ELSE status'[d] = status[d] /\ token'[d] = token[d]
      BY <1>6 DEF ExpireAlertDeliveries, Overdue, Put, TypeOK
    <2> HIDE DEF expired
    <2>3. \A c \in Claim : Issued(c) /\ Accounted(c) => Issued(c)' /\ Accounted(c)'
      BY <2>1, <2>2 DEF Claim, Issued, Accounted, Owns, Terminal
    <2>4. \A w \in Worker : work'[w] = Idle \/ KeepsClaim(w)
      BY <2>1 DEF KeepsClaim, WorkedClaims, Busy
    <2>5. WaitingClaims' /\ WorkedClaims' /\ ClaimHeldOnce'
      <3>1. hand \cap queue = {}
        BY DEF ClaimHeldOnce
      <3> QED BY <2>1, <2>3, <2>4, <3>1, ClaimsKept
    <2>6. RowTokens' /\ SentWasAccepted' /\ WaitingRows'
      BY <2>1, <2>2 DEF RowTokens, SentWasAccepted, WaitingRows, Waiting
    <2> QED BY <2>1, <2>5, <2>6
            DEF AttemptInv, AckedIssued, ResendOnlyAfterLeaseLoss, AttemptLimit
  <1>7. CASE Restart
    <2>1. /\ UNCHANGED <<status, attempts, token, acked, lost>>
          /\ hand' = {} /\ queue' = {} /\ \A w \in Worker : work'[w] = Idle
      BY <1>7 DEF Restart, rows
    <2> QED BY <2>1, ClaimsMoveOn
  <1>8. CASE Tick
    <2>1. UNCHANGED <<status, attempts, token, hand, queue, acked, lost>>
      BY <1>8 DEF Tick
    <2>2. \A w \in Worker : work'[w] = Idle \/ KeepsClaim(w)
      <3> SUFFICES ASSUME NEW w \in Worker, work[w] # Idle PROVE KeepsClaim(w)
        BY <1>8 DEF Tick
      <3>1. work[w] \in Job /\ work'[w] = [work[w] EXCEPT !.delay = Less(@)]
        BY <1>8 DEF Tick, TypeOK
      <3>2. work'[w].claim = work[w].claim /\ work'[w].outcome = work[w].outcome
        BY <3>1 DEF Job
      <3>3. work[w].outcome = "retry" => work[w].claim.tok < MaxAttempts
        BY DEF WorkedClaims, Busy
      <3> QED BY <3>2, <3>3 DEF KeepsClaim
    <2>3. hand \cap queue = {}
      BY DEF ClaimHeldOnce
    <2> QED BY <2>1, <2>2, <2>3, ClaimsMoveOn
  <1>9. CASE PruneDedupeClaims \/ UNCHANGED vars
    <2>1. UNCHANGED <<status, attempts, token, hand, queue, work, acked, lost>>
      BY <1>9 DEF PruneDedupeClaims, vars, rows, mem
    <2>2. \A w \in Worker : work'[w] = Idle \/ KeepsClaim(w)
      BY <2>1 DEF KeepsClaim, WorkedClaims, Busy
    <2>3. hand \cap queue = {}
      BY DEF ClaimHeldOnce
    <2> QED BY <2>1, <2>2, <2>3, ClaimsMoveOn
  <1> QED
    BY <1>1, <1>2, <1>3, <1>4, <1>5, <1>6, <1>7, <1>8, <1>9 DEF Next

\* Nothing is claimed at the start.
LEMMA InitAttemptInv == Init => AttemptInv
  <1> SUFFICES ASSUME Init PROVE AttemptInv
    OBVIOUS
  <1> USE DEF Init
  <1>1. RowTokens /\ WaitingRows /\ SentWasAccepted
    BY DEF RowTokens, WaitingRows, SentWasAccepted, Waiting
  <1>2. WaitingClaims /\ WorkedClaims /\ ClaimHeldOnce
    BY DEF WaitingClaims, WorkedClaims, ClaimHeldOnce, Busy
  <1>3. AckedIssued /\ ResendOnlyAfterLeaseLoss /\ AttemptLimit
    BY DEF AckedIssued, ResendOnlyAfterLeaseLoss, AttemptLimit
  <1> QED BY <1>1, <1>2, <1>3 DEF AttemptInv

\* Claims, tokens and what was recorded of attempts agree in every state.
LEMMA Attempts == Spec => []AttemptInv
  BY InitTypeOK, NextTypeOK, InitAttemptInv, NextAttemptInv, PTL DEF Spec

\* No attempt of a delivery is in two hands, through the channel, the
\* workers, lost replies and restarts.
THEOREM HeldOnce == Spec => []ClaimHeldOnce
  <1>1. AttemptInv => ClaimHeldOnce
    BY DEF AttemptInv
  <1> QED BY <1>1, Attempts, PTL

\* A row says "sent" only of a message the provider confirmed in the last
\* attempt of that row.
THEOREM SentAccepted == Spec => []SentWasAccepted
  <1>1. AttemptInv => SentWasAccepted
    BY DEF AttemptInv
  <1> QED BY <1>1, Attempts, PTL

\* A confirmed message is attempted again only after its lease was recovered.
THEOREM ResendNeedsLeaseLoss == Spec => []ResendOnlyAfterLeaseLoss
  <1>1. AttemptInv => ResendOnlyAfterLeaseLoss
    BY DEF AttemptInv
  <1> QED BY <1>1, Attempts, PTL

\* Beyond maximumAlertDeliveryAttempts, only recovered leases add attempts.
THEOREM AttemptsLimited == Spec => []AttemptLimit
  <1>1. AttemptInv => AttemptLimit
    BY DEF AttemptInv
  <1> QED BY <1>1, Attempts, PTL

\* Two workers with live leases never send to one destination: their rows
\* would be one row, claimed once, or two live leases of the destination.
THEOREM OneSender == Spec => []OneSenderPerDestination
  <1>1. TypeOK /\ LeaseExclusive /\ AttemptInv => OneSenderPerDestination
    <2> SUFFICES ASSUME TypeOK, LeaseExclusive, ClaimHeldOnce,
                        NEW v \in Worker, NEW w \in Worker, v # w,
                        work[v].stage = "sending", work[w].stage = "sending",
                        DestinationOf[work[v].claim.d] = DestinationOf[work[w].claim.d],
                        Current(work[v].claim), Current(work[w].claim)
                 PROVE  FALSE
      BY DEF AttemptInv, OneSenderPerDestination
    <2> DEFINE c == work[v].claim
               b == work[w].claim
    <2>1. c.d \in Delivery /\ b.d \in Delivery
      BY BusyHasJob
    <2>2. v \in Busy /\ w \in Busy
      BY DEF Busy, Idle
    <2>3. <<c.d, c.tok>> # <<b.d, b.tok>>
      BY <2>2 DEF ClaimHeldOnce
    <2>4. CASE c.d = b.d
      BY <2>3, <2>4 DEF Current, Owns
    <2>5. CASE c.d # b.d
      BY <2>1, <2>5 DEF LeaseExclusive, Leased, Current, Owns
    <2> QED BY <2>4, <2>5
  <1> QED BY <1>1, TypeCorrect, LeasesExclusive, Attempts, PTL

\* A settled row stays as it was settled: neither a late worker, nor a sweep,
\* nor a repeated enqueue writes it.
LEMMA SettledStays ==
    ASSUME TypeOK, [Next]_vars, NEW d \in Delivery, status[d] \in Terminal
    PROVE  status'[d] = status[d]
  <1> USE DEF Terminal
  <1>1. ASSUME NEW n \in Notification, EnqueueAlertNotification(n)
        PROVE  status'[d] = status[d]
    BY <1>1 DEF TypeOK, EnqueueAlertNotification, Refused, InsertRows, Put, Known, Targets
  <1>2. CASE ClaimAlertDeliveries
    <2> PICK S \in SUBSET Delivery : FirstCandidates(S) /\ LeaseRows(S)
      BY <1>2 DEF ClaimAlertDeliveries
    <2>1. d \notin S
      BY DEF FirstCandidates, Candidate, Waiting
    <2> QED BY <2>1 DEF LeaseRows, Put, TypeOK
  <1>3. ASSUME NEW w \in Worker, FinishAlertDelivery(w) \/ RetryAlertDelivery(w)
        PROVE  status'[d] = status[d]
    <2>1. work[w].claim.d # d
      BY <1>3 DEF FinishAlertDelivery, RetryAlertDelivery, Owns
    <2> QED BY <1>3, <2>1 DEF TypeOK, FinishAlertDelivery, Finish, RetryAlertDelivery
  <1>4. ASSUME NEW w \in Worker, WorkerStep(w),
               ~FinishAlertDelivery(w), ~RetryAlertDelivery(w)
        PROVE  status'[d] = status[d]
    BY <1>4 DEF WorkerStep, TakeClaim, SendAccepted, SendRetryable, SendFailed,
                DeferChannel, DeferDestination, DropOutcome, rows
  <1>5. CASE RecoverExpiredLeases
    BY <1>5 DEF TypeOK, RecoverExpiredLeases, Lapsed, Put
  <1>6. CASE ExpireAlertDeliveries
    BY <1>6 DEF TypeOK, ExpireAlertDeliveries, Overdue, Put, Live, Waiting
  <1>7. CASE \/ \E c \in hand : PushClaim(c)
             \/ PruneDedupeClaims \/ Restart \/ Tick \/ UNCHANGED vars
    BY <1>7 DEF PushClaim, PruneDedupeClaims, Restart, Tick, vars, rows
  <1> QED BY <1>1, <1>2, <1>3, <1>4, <1>5, <1>6, <1>7 DEF Next

\* A settled delivery stays as it was settled.
THEOREM Settled == Spec => SettledForGood
  <1>1. TypeOK /\ [Next]_vars =>
          [\A d \in Delivery : status[d] \in Terminal => status'[d] = status[d]]_vars
    BY SettledStays
  <1> QED BY <1>1, TypeCorrect, PTL DEF Spec, SettledForGood

-----------------------------------------------------------------------------
(***************************************************************************)
(* Deduplication.  The claim of a member and item lasts at least as long   *)
(* as the alert it was taken for.                                          *)
(***************************************************************************)
ClaimCovers ==
    \A n \in Deduped :
      ttl[n] > 0 => ttl[n] <= Lifetime[n] /\ ttl[n] <= claimLeft[UserItem[n]]

OneLiveNotification ==
    \A n, m \in Deduped :
      ttl[n] > 0 /\ ttl[m] > 0 /\ UserItem[n] = UserItem[m] => n = m

DedupeInv == ClaimCovers /\ OneLiveNotification

\* The inductive step: only enqueueing, promoting, pruning and time matter.
LEMMA NextDedupeInv == TypeOK /\ DedupeInv /\ [Next]_vars => DedupeInv'
  <1> SUFFICES ASSUME TypeOK, ClaimCovers, OneLiveNotification, [Next]_vars
               PROVE  ClaimCovers' /\ OneLiveNotification'
    BY DEF DedupeInv
  <1> USE OutboxAssumption DEF OutboxAssumption
  <1>1. /\ ttl \in [Notification -> Nat]
        /\ claimLeft \in [{UserItem[n] : n \in ItemAlert} -> Nat \cup {NoRow}]
        /\ \A m \in Deduped : m \in Notification /\ ttl[m] \in Nat
                             /\ claimLeft[UserItem[m]] \in Nat \cup {-1}
    BY DEF TypeOK, NoRow
  <1>2. ASSUME NEW n \in Notification, EnqueueAlertNotification(n)
        PROVE  ClaimCovers' /\ OneLiveNotification'
    <2>1. n \in Deduped => \A m \in Deduped : UserItem[m] = UserItem[n] => ttl[m] = 0
      BY <1>1, <1>2 DEF EnqueueAlertNotification, Refused, ClaimCovers
    <2>2. \/ ttl' = ttl
          \/ \E life \in 1..Lifetime[n] : ttl' = [ttl EXCEPT ![n] = life]
      BY <1>2 DEF EnqueueAlertNotification, Refused, InsertRows
    <2>3. claimLeft' = IF n \in Deduped
                       THEN [claimLeft EXCEPT ![UserItem[n]] = Provisional]
                       ELSE claimLeft
      BY <1>2 DEF EnqueueAlertNotification, Refused
    <2>4. CASE n \notin Deduped
      BY <1>1, <2>2, <2>3, <2>4 DEF ClaimCovers, OneLiveNotification
    <2>5. CASE n \in Deduped
      <3>1. ASSUME NEW m \in Deduped, m # n, UserItem[m] = UserItem[n]
            PROVE  ttl'[m] = 0
        BY <1>1, <2>1, <2>2, <3>1, <2>5
      <3>2. ASSUME NEW m \in Deduped, UserItem[m] # UserItem[n]
            PROVE  ttl'[m] = ttl[m] /\ claimLeft'[UserItem[m]] = claimLeft[UserItem[m]]
        BY <1>1, <2>2, <2>3, <3>2
      <3>3. ttl'[n] > 0 => ttl'[n] <= Lifetime[n] /\ ttl'[n] <= Provisional
        <4>1. ttl[n] = 0
          BY <2>1, <2>5
        <4>2. Lifetime[n] \in Nat /\ Provisional \in Nat /\ Lifetime[n] <= Provisional
          BY <2>5
        <4>3. CASE ttl' = ttl
          BY <4>1, <4>3
        <4>4. ASSUME NEW life \in 1..Lifetime[n], ttl' = [ttl EXCEPT ![n] = life]
              PROVE  ttl'[n] <= Lifetime[n] /\ ttl'[n] <= Provisional
          <5>1. ttl'[n] = life
            BY <1>1, <4>4
          <5> QED BY <4>2, <5>1
        <4> QED BY <2>2, <4>3, <4>4
      <3>4. claimLeft'[UserItem[n]] = Provisional
        BY <1>1, <2>3, <2>5
      <3>5. ClaimCovers'
        <4> SUFFICES ASSUME NEW m \in Deduped, ttl'[m] > 0
                     PROVE  ttl'[m] <= Lifetime[m] /\ ttl'[m] <= claimLeft'[UserItem[m]]
          BY DEF ClaimCovers
        <4>1. CASE m = n
          BY <4>1, <3>3, <3>4
        <4>2. CASE m # n
          BY <4>2, <3>1, <3>2 DEF ClaimCovers
        <4> QED BY <4>1, <4>2
      <3>6. OneLiveNotification'
        BY <3>1, <3>2 DEF OneLiveNotification
      <3> QED BY <3>5, <3>6
    <2> QED BY <2>4, <2>5
  <1>3. ASSUME NEW w \in Worker, FinishAlertDelivery(w)
        PROVE  ClaimCovers' /\ OneLiveNotification'
    <2>1. ttl' = ttl
      BY <1>3 DEF FinishAlertDelivery
    <2>2. \/ claimLeft' = claimLeft
          \/ \E n \in ItemAlert :
               claimLeft' = [claimLeft EXCEPT ![UserItem[n]] = Promoted]
      BY <1>3, BusyHasJob DEF FinishAlertDelivery, Finish, PromoteClaim
    <2>3. \A m \in Deduped : ttl[m] <= Lifetime[m] =>
            claimLeft'[UserItem[m]] >= claimLeft[UserItem[m]] \/ claimLeft'[UserItem[m]] >= ttl[m]
      <3> SUFFICES ASSUME NEW m \in Deduped, ttl[m] <= Lifetime[m]
                   PROVE  \/ claimLeft'[UserItem[m]] >= claimLeft[UserItem[m]]
                          \/ claimLeft'[UserItem[m]] >= ttl[m]
        OBVIOUS
      <3>1. Lifetime[m] \in Nat /\ ttl[m] \in Nat /\ Lifetime[m] <= Promoted
        BY <1>1
      <3>2. UserItem[m] \in DOMAIN claimLeft
        BY <1>1
      <3>3. claimLeft'[UserItem[m]] \in {claimLeft[UserItem[m]], Promoted}
        BY <2>2, <3>2
      <3> QED BY <1>1, <3>1, <3>3
    <2>4. ClaimCovers'
      <3> SUFFICES ASSUME NEW m \in Deduped, ttl[m] > 0
                   PROVE  ttl[m] <= Lifetime[m] /\ ttl[m] <= claimLeft'[UserItem[m]]
        BY <2>1 DEF ClaimCovers
      <3>1. ttl[m] <= Lifetime[m] /\ ttl[m] <= claimLeft[UserItem[m]]
        BY DEF ClaimCovers
      <3>2. claimLeft'[UserItem[m]] \in Nat \cup {-1}
        BY <1>1, NextTypeOK DEF TypeOK, NoRow
      <3> QED BY <1>1, <2>3, <3>1, <3>2
    <2> QED BY <2>1, <2>4 DEF OneLiveNotification
  <1>4. CASE PruneDedupeClaims
    BY <1>1, <1>4 DEF PruneDedupeClaims, ClaimCovers, OneLiveNotification
  <1>5. CASE Tick
    BY <1>1, <1>5 DEF Tick, Less, ClaimCovers, OneLiveNotification, NoRow
  <1>6. CASE UNCHANGED <<ttl, claimLeft>>
    BY <1>6 DEF ClaimCovers, OneLiveNotification
  <1>7. ASSUME NEW w \in Worker, WorkerStep(w), ~FinishAlertDelivery(w)
        PROVE  UNCHANGED <<ttl, claimLeft>>
    BY <1>7 DEF WorkerStep, TakeClaim, SendAccepted, SendRetryable, SendFailed,
                DeferChannel, DeferDestination, RetryAlertDelivery, DropOutcome
  <1>8. CASE \/ ClaimAlertDeliveries \/ \E c \in hand : PushClaim(c)
             \/ RecoverExpiredLeases \/ ExpireAlertDeliveries \/ Restart \/ UNCHANGED vars
    BY <1>6, <1>8 DEF ClaimAlertDeliveries, PushClaim, RecoverExpiredLeases,
                      ExpireAlertDeliveries, Restart, vars
  <1> QED BY <1>2, <1>3, <1>4, <1>5, <1>6, <1>7, <1>8 DEF Next

\* At most one deliverable alert per member and item with deduplication on,
\* whatever the lifetimes, as long as no alert outlives a provisional claim.
THEOREM Deduplicated == Spec => []OneLiveAlertPerItem
  <1>1. Init => DedupeInv
    <2> USE OutboxAssumption DEF OutboxAssumption
    <2> QED BY DEF Init, DedupeInv, ClaimCovers, OneLiveNotification
  <1>2. TypeOK /\ DedupeInv => OneLiveAlertPerItem
    BY OutboxAssumption
       DEF OutboxAssumption, DedupeInv, OneLiveNotification, OneLiveAlertPerItem, Unexpired
  <1> QED BY <1>1, <1>2, InitTypeOK, NextTypeOK, NextDedupeInv, PTL DEF Spec

-----------------------------------------------------------------------------
(***************************************************************************)
(* AlertOutbox implements AlertDelivery.                                   *)
(***************************************************************************)
PhaseNow == [d \in Delivery |-> PhaseOf(d)]
ReachedNow == {d \in Delivery : <<d, attempts[d]>> \in acked}

\* A step that leaves the rows and the confirmations alone is a stutter.
LEMMA RowsStutter ==
    ASSUME UNCHANGED <<status, leaseLeft, attempts, acked>>
    PROVE  UNCHANGED <<PhaseNow, ReachedNow>>
  BY DEF PhaseNow, ReachedNow, PhaseOf

\* What a step that moves the rows of S to one phase has to show.
LEMMA PhaseMoves ==
    ASSUME NEW S \in SUBSET Delivery, NEW to,
           \A d \in S : PhaseOf(d)' = to,
           \A d \in Delivery \ S : PhaseOf(d)' = PhaseOf(d)
    PROVE  PhaseNow' = [d \in Delivery |-> IF d \in S THEN to ELSE PhaseNow[d]]
  BY DEF PhaseNow

\* Each step of the outbox is a step of AlertDelivery or a stutter.
LEMMA StepImplements ==
    TypeOK /\ LeaseExclusive /\ AttemptInv /\ [Next]_vars
      => [Promise!Next]_<<PhaseNow, ReachedNow>>
  <1> SUFFICES ASSUME TypeOK, LeaseExclusive, AttemptInv, [Next]_vars
               PROVE  Promise!Next \/ UNCHANGED <<PhaseNow, ReachedNow>>
    OBVIOUS
  <1> USE DEF TypeOK
  <1>1. ASSUME NEW n \in Notification, EnqueueAlertNotification(n)
        PROVE  Promise!Next \/ UNCHANGED <<PhaseNow, ReachedNow>>
    <2>1. CASE UNCHANGED status
      BY <1>1, <2>1, RowsStutter DEF EnqueueAlertNotification
    <2>2. CASE ~(UNCHANGED status)
      <3>1. /\ ~Known(n)
            /\ status' = Put(status, Targets(n), "pending")
            /\ UNCHANGED <<attempts, leaseLeft, acked>>
        BY <1>1, <2>2 DEF EnqueueAlertNotification, InsertRows
      <3>2. /\ Targets(n) \in SUBSET Delivery
            /\ \A d \in Targets(n) : PhaseOf(d) = "absent" /\ PhaseOf(d)' = "waiting"
            /\ \A d \in Delivery \ Targets(n) : PhaseOf(d)' = PhaseOf(d)
        BY <3>1 DEF Known, Targets, Put, PhaseOf, Waiting
      <3>3. UNCHANGED ReachedNow
        BY <3>1 DEF ReachedNow
      <3>4. Promise!Enqueue(Targets(n))
        BY <3>2, <3>3, PhaseMoves
           DEF Promise!Enqueue, Promise!AllIn, Promise!Move, PhaseNow, ReachedNow
      <3> QED BY <3>2, <3>4 DEF Promise!Next
    <2> QED BY <2>1, <2>2
  <1>2. CASE ClaimAlertDeliveries
    <2> PICK S \in SUBSET Delivery : FirstCandidates(S) /\ LeaseRows(S)
      BY <1>2 DEF ClaimAlertDeliveries
    <2>1. \A d \in S : Candidate(d)
      BY DEF FirstCandidates
    <2>2. LeaseTicks > 0
      BY OutboxAssumption DEF OutboxAssumption
    <2>3. /\ \A d \in S : PhaseOf(d) = "waiting" /\ PhaseOf(d)' = "leased"
          /\ \A d \in Delivery \ S : PhaseOf(d)' = PhaseOf(d)
      BY <2>1, <2>2 DEF Candidate, LeaseRows, Put, PhaseOf, Waiting
    <2>4. \A d \in S, e \in Delivery :
            d # e /\ DestinationOf[d] = DestinationOf[e]
              => e \notin S /\ PhaseOf(e) # "leased"
      <3> SUFFICES ASSUME NEW d \in S, NEW e \in Delivery,
                          d # e, DestinationOf[d] = DestinationOf[e]
                   PROVE  e \notin S /\ PhaseOf(e) # "leased"
        OBVIOUS
      <3>1. e \notin S
        BY <2>1, CandidatesApart
      <3>2. ~Leased(e)
        BY <2>1 DEF Candidate, Rivals
      <3> QED BY <3>1, <3>2 DEF PhaseOf, Leased, Waiting
    <2>5. ReachedNow' = ReachedNow \ S
      <3>1. /\ acked' = acked
            /\ \A d \in S : attempts'[d] = attempts[d] + 1
            /\ \A d \in Delivery \ S : attempts'[d] = attempts[d]
        BY <1>2 DEF ClaimAlertDeliveries, LeaseRows
      <3>2. \A d \in S : <<d, attempts[d] + 1>> \notin acked
        BY DEF AttemptInv, AckedIssued
      <3> QED BY <3>1, <3>2 DEF ReachedNow
    <2>6. Promise!Lease(S)
      BY <2>3, <2>4, <2>5, PhaseMoves
         DEF Promise!Lease, Promise!AllIn, Promise!Move, PhaseNow, ReachedNow
    <2> QED BY <2>6 DEF Promise!Next
  <1>3. ASSUME NEW c \in hand, PushClaim(c)
        PROVE  UNCHANGED <<PhaseNow, ReachedNow>>
    BY <1>3, RowsStutter DEF PushClaim, rows
  <1>4. ASSUME NEW w \in Worker, WorkerStep(w)
        PROVE  Promise!Next \/ UNCHANGED <<PhaseNow, ReachedNow>>
    <2> DEFINE c == work[w].claim
    <2>1. CASE SendAccepted(w)
      <3> PICK x \in Delivery : x = c.d
        BY <2>1, WorkedClaim DEF SendAccepted
      <3>1. Issued(c) /\ c.tok \in Nat
        BY <2>1, WorkedClaim DEF SendAccepted
      <3>2. /\ acked' = acked \cup {<<x, c.tok>>}
            /\ UNCHANGED <<status, attempts, leaseLeft>>
        BY <2>1 DEF SendAccepted, rows
      <3>3. UNCHANGED PhaseNow
        BY <3>2 DEF PhaseNow, PhaseOf
      <3>4. CASE c.tok # attempts[x]
        <4>1. UNCHANGED ReachedNow
          BY <3>2, <3>4 DEF ReachedNow
        <4> QED BY <3>3, <4>1
      <3>5. CASE c.tok = attempts[x]
        <4>1. ReachedNow' = ReachedNow \cup {x}
          BY <3>1, <3>2, <3>5 DEF ReachedNow
        <4>2. status[x] # "absent"
          BY <3>1 DEF Issued, AttemptInv, RowTokens
        <4>3. PhaseNow[x] # "absent"
          BY <3>1, <4>2 DEF PhaseNow, PhaseOf, Waiting
        <4>4. Promise!Confirm(x)
          BY <3>3, <4>1, <4>3 DEF Promise!Confirm, PhaseNow, ReachedNow
        <4> QED BY <3>1, <4>4 DEF Promise!Next
      <3> QED BY <3>4, <3>5
    <2>2. CASE FinishAlertDelivery(w)
      <3> PICK x \in Delivery : x = c.d
        BY <2>2, WorkedClaim DEF FinishAlertDelivery
      <3>1. /\ work[w].outcome \in {"sent", "failed", "expired", "cancelled"}
            /\ Confirmed(c) <=> work[w].outcome = "sent"
        BY <2>2, WorkedClaim DEF FinishAlertDelivery, Job, Outcome
      <3>2. /\ status[x] = "processing" /\ token[x] = c.tok
            /\ status' = [status EXCEPT ![x] = work[w].outcome]
            /\ leaseLeft' = [leaseLeft EXCEPT ![x] = 0]
            /\ UNCHANGED <<attempts, acked>>
        BY <2>2 DEF FinishAlertDelivery, Finish, Owns
      <3>3. /\ PhaseOf(x) \in {"leased", "lapsed"}
            /\ PhaseOf(x)' = IF work[w].outcome = "sent" THEN "sent" ELSE "closed"
            /\ \A d \in Delivery \ {x} : PhaseOf(d)' = PhaseOf(d)
        BY <3>1, <3>2 DEF PhaseOf, Waiting
      <3>4. UNCHANGED ReachedNow
        BY <3>2 DEF ReachedNow
      <3>5. CASE work[w].outcome = "sent"
        <4>1. x \in ReachedNow
          BY <3>1, <3>2, <3>5 DEF ReachedNow, Confirmed, AttemptInv, RowTokens
        <4>2. Promise!Deliver(x)
          BY <3>1, <3>3, <3>4, <3>5, <4>1, PhaseMoves
             DEF Promise!Deliver, Promise!AllIn, Promise!Held, Promise!Move, PhaseNow, ReachedNow
        <4> QED BY <3>1, <4>2 DEF Promise!Next
      <3>6. CASE work[w].outcome # "sent"
        <4>1. Promise!Close({x})
          BY <3>1, <3>3, <3>4, <3>6, PhaseMoves
             DEF Promise!Close, Promise!AllIn, Promise!Open, Promise!Held, Promise!Move,
                 PhaseNow, ReachedNow
        <4> QED BY <3>1, <4>1 DEF Promise!Next
      <3> QED BY <3>5, <3>6
    <2>3. CASE RetryAlertDelivery(w)
      <3> PICK x \in Delivery : x = c.d
        BY <2>3, WorkedClaim DEF RetryAlertDelivery
      <3>1. ~Confirmed(c)
        BY <2>3, WorkedClaim DEF RetryAlertDelivery
      <3>2. /\ status[x] = "processing" /\ token[x] = c.tok
            /\ status' = [status EXCEPT ![x] = "retrying"]
            /\ leaseLeft' = [leaseLeft EXCEPT ![x] = 0]
            /\ UNCHANGED <<attempts, acked>>
        BY <2>3 DEF RetryAlertDelivery, Owns
      <3>3. /\ PhaseOf(x) \in {"leased", "lapsed"}
            /\ PhaseOf(x)' = "waiting"
            /\ \A d \in Delivery \ {x} : PhaseOf(d)' = PhaseOf(d)
        BY <3>1, <3>2 DEF PhaseOf, Waiting
      <3>4. UNCHANGED ReachedNow /\ x \notin ReachedNow
        BY <3>1, <3>2 DEF ReachedNow, Confirmed, AttemptInv, RowTokens
      <3>5. Promise!Retry(x)
        BY <3>1, <3>3, <3>4, PhaseMoves
           DEF Promise!Retry, Promise!AllIn, Promise!Held, Promise!Move, PhaseNow, ReachedNow
      <3> QED BY <3>1, <3>5 DEF Promise!Next
    <2>4. CASE ~(SendAccepted(w) \/ FinishAlertDelivery(w) \/ RetryAlertDelivery(w))
      <3>1. UNCHANGED <<status, leaseLeft, attempts, acked>>
        BY <1>4, <2>4 DEF WorkerStep, TakeClaim, SendRetryable, SendFailed, DeferChannel,
                          DeferDestination, DropOutcome, rows
      <3> QED BY <3>1, RowsStutter
    <2> QED BY <2>1, <2>2, <2>3, <2>4
  <1>5. CASE RecoverExpiredLeases
    <2>1. /\ Lapsed \in SUBSET Delivery
          /\ \A d \in Lapsed : PhaseOf(d) = "lapsed" /\ PhaseOf(d)' = "waiting"
          /\ \A d \in Delivery \ Lapsed : PhaseOf(d)' = PhaseOf(d)
      BY <1>5 DEF RecoverExpiredLeases, Lapsed, Put, PhaseOf, Waiting
    <2>2. UNCHANGED ReachedNow
      BY <1>5 DEF RecoverExpiredLeases, ReachedNow
    <2>3. Promise!Recover(Lapsed)
      BY <2>1, <2>2, PhaseMoves
         DEF Promise!Recover, Promise!AllIn, Promise!Move, PhaseNow, ReachedNow
    <2> QED BY <2>1, <2>3 DEF Promise!Next
  <1>6. CASE ExpireAlertDeliveries
    <2>1. /\ Overdue \in SUBSET Delivery
          /\ \A d \in Overdue : PhaseOf(d) \in {"waiting", "leased", "lapsed"}
                                /\ PhaseOf(d)' = "closed"
          /\ \A d \in Delivery \ Overdue : PhaseOf(d)' = PhaseOf(d)
      BY <1>6 DEF ExpireAlertDeliveries, Overdue, Put, PhaseOf, Live, Waiting
    <2>2. UNCHANGED ReachedNow
      BY <1>6 DEF ExpireAlertDeliveries, ReachedNow
    <2>3. Promise!Close(Overdue)
      BY <2>1, <2>2, PhaseMoves
         DEF Promise!Close, Promise!AllIn, Promise!Open, Promise!Held, Promise!Move,
             PhaseNow, ReachedNow
    <2> QED BY <2>1, <2>3 DEF Promise!Next
  <1>7. CASE PruneDedupeClaims \/ Restart \/ UNCHANGED vars
    BY <1>7, RowsStutter DEF PruneDedupeClaims, Restart, vars, rows
  <1>8. CASE Tick
    <2> DEFINE S == {d \in Delivery : PhaseOf(d) = "leased" /\ leaseLeft[d] = 1}
    <2>1. /\ \A d \in Delivery : leaseLeft'[d] = Less(leaseLeft[d])
          /\ UNCHANGED <<status, attempts, acked>>
      BY <1>8 DEF Tick
    <2>2. \A d \in S : PhaseOf(d) = "leased" /\ PhaseOf(d)' = "lapsed"
      BY <2>1 DEF Less, PhaseOf, Waiting
    <2>3. \A d \in Delivery \ S : PhaseOf(d)' = PhaseOf(d)
      BY <2>1 DEF Less, PhaseOf, Waiting
    <2>4. UNCHANGED ReachedNow
      BY <2>1 DEF ReachedNow
    <2>5. Promise!Lapse(S)
      <3> HIDE DEF S
      <3>1. S \in SUBSET Delivery
        BY DEF S
      <3> QED BY <2>2, <2>3, <2>4, <3>1, PhaseMoves
              DEF Promise!Lapse, Promise!AllIn, Promise!Move, PhaseNow, ReachedNow
    <2> QED BY <2>5 DEF Promise!Next
  <1> QED BY <1>1, <1>2, <1>3, <1>4, <1>5, <1>6, <1>7, <1>8 DEF Next

\* The outbox keeps its promise, for any deliveries, destinations, workers
\* and durations: a confirmed attempt is given back only after its lease
\* lapsed, a destination is leased once, a delivery is settled once, and
\* only what the provider confirmed is recorded as sent.
THEOREM OutboxImplementsDelivery == Spec => DeliveryPromise
  <1>1. Init => Promise!Init
    BY DEF Init, Promise!Init, PhaseOf, Waiting
  <1>2. TypeOK /\ LeaseExclusive /\ AttemptInv /\ [Next]_vars
          => [Promise!Next]_Promise!promised
    BY StepImplements DEF Promise!promised, PhaseNow, ReachedNow
  <1> QED BY <1>1, <1>2, TypeCorrect, LeasesExclusive, Attempts, PTL
          DEF Spec, DeliveryPromise, Promise!Spec

-----------------------------------------------------------------------------
(***************************************************************************)
(* Promotion.  A dedupe claim gets its full lifetime with the row that is  *)
(* recorded as sent, of whatever kind, and that row stays.                 *)
(***************************************************************************)
SentAlertOf(k) ==
    {d \in Delivery : /\ status[d] = "sent" /\ NotificationOf[d] \in ItemAlert
                      /\ UserItem[NotificationOf[d]] = k}

PromotedBySend ==
    \A k \in DOMAIN claimLeft : claimLeft[k] > Provisional => SentAlertOf(k) # {}

LEMMA NextPromotion == TypeOK /\ PromotedBySend /\ [Next]_vars => PromotedBySend'
  <1> SUFFICES ASSUME TypeOK, PromotedBySend, [Next]_vars,
                      NEW k \in DOMAIN claimLeft', claimLeft'[k] > Provisional
               PROVE  \E d \in Delivery : d \in SentAlertOf(k)'
    BY DEF PromotedBySend, SentAlertOf
  <1>1. /\ DOMAIN claimLeft' = DOMAIN claimLeft
        /\ claimLeft[k] \in Nat \cup {-1} /\ claimLeft'[k] \in Nat \cup {-1}
        /\ Provisional \in Nat \ {0}
    BY NextTypeOK, OutboxAssumption DEF TypeOK, NoRow, OutboxAssumption
  <1>2. CASE claimLeft[k] > Provisional
    <2>1. PICK d \in Delivery : d \in SentAlertOf(k)
      BY <1>1, <1>2 DEF PromotedBySend, SentAlertOf
    <2>2. status'[d] = "sent"
      BY <2>1, SettledStays DEF Terminal, SentAlertOf
    <2> QED BY <2>1, <2>2 DEF SentAlertOf
  <1>3. CASE ~(claimLeft[k] > Provisional)
    <2>1. /\ claimLeft'[k] > claimLeft[k] /\ claimLeft'[k] # Provisional
          /\ claimLeft' # claimLeft
      BY <1>1, <1>3
    <2>2. ASSUME NEW w \in Worker, FinishAlertDelivery(w)
          PROVE  \E d \in Delivery : d \in SentAlertOf(k)'
      <3> DEFINE c == work[w].claim
      <3>1. c.d \in Delivery
        BY <2>2, BusyHasJob DEF FinishAlertDelivery
      <3>2. Finish(c, work[w].outcome)
        BY <2>2 DEF FinishAlertDelivery
      <3> HIDE DEF c
      <3>3. work[w].outcome = "sent" /\ PromoteClaim(NotificationOf[c.d])
        BY <2>1, <3>2 DEF Finish
      <3>4. NotificationOf[c.d] \in ItemAlert /\ UserItem[NotificationOf[c.d]] = k
        BY <1>1, <2>1, <3>3 DEF PromoteClaim, TypeOK
      <3>5. status'[c.d] = "sent"
        BY <3>1, <3>2, <3>3 DEF Finish, TypeOK
      <3> QED BY <3>1, <3>4, <3>5 DEF SentAlertOf
    <2>3. ASSUME NEW n \in Notification, EnqueueAlertNotification(n) PROVE FALSE
      BY <1>1, <2>1, <2>3 DEF EnqueueAlertNotification, TypeOK
    <2>4. ASSUME NEW w \in Worker, WorkerStep(w), ~FinishAlertDelivery(w) PROVE FALSE
      BY <2>1, <2>4 DEF WorkerStep, TakeClaim, SendAccepted, SendRetryable, SendFailed,
                        DeferChannel, DeferDestination, RetryAlertDelivery, DropOutcome
    <2>5. CASE PruneDedupeClaims
      BY <1>1, <2>1, <2>5 DEF PruneDedupeClaims, NoRow
    <2>6. CASE Tick
      BY <1>1, <2>1, <2>6 DEF Tick, Less
    <2>7. CASE \/ ClaimAlertDeliveries \/ \E c \in hand : PushClaim(c)
               \/ RecoverExpiredLeases \/ ExpireAlertDeliveries \/ Restart \/ UNCHANGED vars
      <3>1. claimLeft' = claimLeft
        BY <2>7 DEF ClaimAlertDeliveries, PushClaim, RecoverExpiredLeases,
                    ExpireAlertDeliveries, Restart, vars
      <3> QED BY <1>1, <2>1, <3>1
    <2> QED BY <2>2, <2>3, <2>4, <2>5, <2>6, <2>7 DEF Next
  <1> QED BY <1>2, <1>3

\* A dedupe claim gets beyond its provisional time only for a member and item
\* of which the provider confirmed an alert in the attempt that was recorded,
\* whatever workers, sweeps and restarts do in between.
THEOREM PromotionReachedMember == Spec => []PromotionWasReceived
  <1>1. Init => PromotedBySend
    BY OutboxAssumption DEF Init, PromotedBySend, NoRow, OutboxAssumption
  <1>2. PromotedBySend /\ SentWasAccepted => PromotionWasReceived
    BY DEF PromotedBySend, SentAlertOf, SentWasAccepted, PromotionWasReceived
  <1> QED BY <1>1, <1>2, InitTypeOK, NextTypeOK, NextPromotion, SentAccepted, PTL DEF Spec

-----------------------------------------------------------------------------
(***************************************************************************)
(* The deliveries in flight.  The counter is the claims in the channel and *)
(* in the workers, and a batch is claimed only into the room left.         *)
(***************************************************************************)
FlightInv == FlightAccounting /\ IsFiniteSet(hand) /\ IsFiniteSet(queue)

LEMMA FiniteBusy == IsFiniteSet(Busy) /\ Cardinality(Busy) \in Nat
  <1>1. IsFiniteSet(Worker) /\ Busy \in SUBSET Worker
    BY OutboxAssumption DEF OutboxAssumption, Busy
  <1> QED BY <1>1, FS_Subset, FS_CardinalityType

\* The sets a step of the dispatcher leaves alone or moves one claim between.
LEMMA FlightSame ==
    ASSUME FlightInv, hand' = hand, queue' = queue, inFlight' = inFlight, Busy' = Busy
    PROVE  FlightInv'
  BY DEF FlightInv, FlightAccounting, MaxFlight

LEMMA WorkerGoesOn ==
    ASSUME TypeOK, NEW w \in Worker, work[w].stage # "idle", NEW job,
           NextStage(w, job), job # Idle
    PROVE  Busy' = Busy
  <1>1. work[w] # Idle /\ work \in [Worker -> Job \cup {Idle}]
    BY BusyHasJob DEF TypeOK, Idle
  <1> QED BY <1>1 DEF Busy, NextStage

LEMMA WorkerReleased ==
    ASSUME TypeOK, FlightInv, NEW w \in Worker, work[w].stage # "idle", Release(w),
           hand' = hand, queue' = queue
    PROVE  FlightInv'
  <1>1. work[w] # Idle /\ work \in [Worker -> Job \cup {Idle}] /\ inFlight \in Int
    BY BusyHasJob DEF TypeOK, Idle
  <1>2. w \in Busy /\ inFlight' = inFlight - 1
    BY <1>1 DEF Busy, Release
  <1>3. PICK new : new = Busy'
    OBVIOUS
  <1>4. new = Busy \ {w}
    BY <1>1, <1>3 DEF Busy, Release
  <1>5. Cardinality(new) = Cardinality(Busy) - 1
    BY <1>2, <1>4, FiniteBusy, FS_RemoveElement
  <1>6. Cardinality(Busy)' = Cardinality(new)
    BY <1>3
  <1>7. /\ Cardinality(Busy) \in Nat /\ Cardinality(queue) \in Nat /\ Cardinality(hand) \in Nat
        /\ MaxFlight \in Int
    <2>1. Cardinality(Worker) \in Nat
      BY OutboxAssumption, FS_CardinalityType DEF OutboxAssumption
    <2> QED BY <2>1, FiniteBusy, FS_CardinalityType DEF FlightInv, MaxFlight
  <1>8. /\ inFlight = Cardinality(queue) + Cardinality(Busy)
        /\ inFlight + Cardinality(hand) <= MaxFlight
    BY DEF FlightInv, FlightAccounting
  <1>9. /\ inFlight' = Cardinality(queue) + Cardinality(Busy)'
        /\ inFlight' + Cardinality(hand) <= MaxFlight
    BY <1>1, <1>2, <1>5, <1>6, <1>7, <1>8
  <1> HIDE DEF MaxFlight
  <1> QED BY <1>9 DEF FlightInv, FlightAccounting, MaxFlight

LEMMA NextFlightInv == TypeOK /\ AttemptInv /\ FlightInv /\ [Next]_vars => FlightInv'
  <1> SUFFICES ASSUME TypeOK, AttemptInv, FlightInv, [Next]_vars PROVE FlightInv'
    OBVIOUS
  <1>1. Cardinality(Worker) \in Nat /\ IsFiniteSet(Worker)
    BY OutboxAssumption, FS_CardinalityType DEF OutboxAssumption
  <1>2. MaxFlight \in Nat
    BY <1>1 DEF MaxFlight
  <1>3. /\ Cardinality(Busy) \in Nat /\ Cardinality(queue) \in Nat /\ Cardinality(hand) \in Nat
        /\ inFlight \in Int
        /\ inFlight = Cardinality(queue) + Cardinality(Busy)
        /\ inFlight + Cardinality(hand) <= MaxFlight
        /\ IsFiniteSet(hand) /\ IsFiniteSet(queue)
    BY FiniteBusy, FS_CardinalityType DEF FlightInv, FlightAccounting, TypeOK
  <1>4. ASSUME UNCHANGED <<hand, queue, inFlight, work>> PROVE FlightInv'
    BY <1>4, FlightSame DEF Busy
  <1>5. CASE ClaimAlertDeliveries
    <2>1. PICK S \in SUBSET Delivery, reply \in BOOLEAN :
            /\ FirstCandidates(S)
            /\ \E enabled \in [S -> BOOLEAN] :
                 hand' = IF reply
                         THEN {[d |-> d, tok |-> attempts[d] + 1, ok |-> enabled[d]] : d \in S}
                         ELSE {}
      BY <1>5 DEF ClaimAlertDeliveries
    <2>2. PICK enabled \in [S -> BOOLEAN] :
            hand' = IF reply
                    THEN {[d |-> d, tok |-> attempts[d] + 1, ok |-> enabled[d]] : d \in S}
                    ELSE {}
      BY <2>1
    <2>3. IsFiniteSet(S) /\ Cardinality(S) <= ClaimLimit /\ Cardinality(S) \in Nat
      BY <2>1, FS_CardinalityType DEF FirstCandidates
    <2>4. ClaimLimit <= MaxFlight - inFlight
      BY <1>2, <1>3, OutboxAssumption DEF ClaimLimit, OutboxAssumption
    <2>5. IsFiniteSet(hand') /\ Cardinality(hand') <= Cardinality(S) /\ Cardinality(hand') \in Nat
      <3>1. CASE reply
        <4> DEFINE f == [d \in S |-> [d |-> d, tok |-> attempts[d] + 1, ok |-> enabled[d]]]
        <4>1. \A c \in hand' : \E d \in S : f[d] = c
          BY <2>2, <3>1
        <4>2. \A d \in S : f[d] \in hand'
          BY <2>2, <3>1
        <4> HIDE DEF f
        <4>3. f \in [S -> hand']
          BY <4>2 DEF f
        <4>4. f \in Surjection(S, hand')
          BY <4>1, <4>3 DEF Surjection
        <4> QED BY <2>3, <4>4, FS_Surjection, FS_CardinalityType
      <3>2. CASE ~reply
        BY <2>2, <2>3, <3>2, FS_EmptySet
      <3> QED BY <3>1, <3>2
    <2>6. UNCHANGED <<queue, inFlight, work>>
      BY <1>5 DEF ClaimAlertDeliveries
    <2>7. Cardinality(Busy)' = Cardinality(Busy)
      BY <2>6 DEF Busy
    <2>8. ClaimLimit \in Int
      BY <1>2, <1>3, OutboxAssumption DEF ClaimLimit, OutboxAssumption
    <2>9. inFlight + Cardinality(hand') <= MaxFlight
      BY <1>2, <1>3, <2>3, <2>4, <2>5, <2>8
    <2> QED BY <1>3, <2>5, <2>6, <2>7, <2>9 DEF FlightInv, FlightAccounting, MaxFlight
  <1>6. ASSUME NEW c \in hand, PushClaim(c) PROVE FlightInv'
    <2>1. /\ hand' = hand \ {c} /\ queue' = queue \cup {c} /\ inFlight' = inFlight + 1
          /\ work' = work
      BY <1>6 DEF PushClaim
    <2>2. c \notin queue
      BY DEF AttemptInv, ClaimHeldOnce
    <2>3. /\ IsFiniteSet(queue') /\ Cardinality(queue') = Cardinality(queue) + 1
          /\ IsFiniteSet(hand') /\ Cardinality(hand') = Cardinality(hand) - 1
      BY <1>3, <2>1, <2>2, FS_AddElement, FS_RemoveElement
    <2>4. Cardinality(Busy)' = Cardinality(Busy)
      BY <2>1 DEF Busy
    <2>5. /\ inFlight' = Cardinality(queue') + Cardinality(Busy)'
          /\ inFlight' + Cardinality(hand') <= MaxFlight
      BY <1>2, <1>3, <2>1, <2>3, <2>4
    <2> QED BY <2>3, <2>5 DEF FlightInv, FlightAccounting, MaxFlight
  <1>7. ASSUME NEW w \in Worker, NEW c \in queue, TakeClaim(w, c) PROVE FlightInv'
    <2>1. work[w] = Idle /\ queue' = queue \ {c} /\ hand' = hand /\ inFlight' = inFlight
      BY <1>7 DEF TakeClaim
    <2>2. PICK job : job # Idle /\ NextStage(w, job)
      BY <1>7 DEF TakeClaim, Idle
    <2>3. PICK new : new = Busy'
      OBVIOUS
    <2>4. w \notin Busy /\ new = Busy \cup {w}
      BY <2>1, <2>2, <2>3 DEF Busy, NextStage, TypeOK
    <2>5. Cardinality(new) = Cardinality(Busy) + 1
      BY <2>4, FiniteBusy, FS_AddElement
    <2>6. IsFiniteSet(queue') /\ Cardinality(queue') = Cardinality(queue) - 1
      BY <1>3, <2>1, FS_RemoveElement
    <2>7. Cardinality(Busy)' = Cardinality(new)
      BY <2>3
    <2>8. inFlight' = Cardinality(queue') + Cardinality(Busy)'
      BY <1>3, <2>1, <2>5, <2>6, <2>7
    <2> QED BY <1>3, <2>1, <2>6, <2>8 DEF FlightInv, FlightAccounting, MaxFlight
  <1>8. ASSUME NEW w \in Worker, SendAccepted(w) \/ SendRetryable(w) PROVE FlightInv'
    <2>1. PICK job : job # Idle /\ NextStage(w, job)
      BY <1>8 DEF SendAccepted, SendRetryable, Idle
    <2>2. work[w].stage # "idle" /\ hand' = hand /\ queue' = queue /\ inFlight' = inFlight
      BY <1>8 DEF SendAccepted, SendRetryable
    <2> QED BY <2>1, <2>2, WorkerGoesOn, FlightSame
  <1>9. ASSUME NEW w \in Worker, SendFailed(w) \/ DeferChannel(w) PROVE FlightInv'
    <2>1. work[w].stage # "idle" /\ hand' = hand /\ queue' = queue /\ inFlight' = inFlight
      BY <1>9 DEF SendFailed, DeferChannel
    <2>2. work[w] \in Job
      BY <2>1, BusyHasJob
    <2>3. PICK job : NextStage(w, job) /\ job.stage = "recording"
      <3>1. [work[w] EXCEPT !.stage = "recording", !.outcome = "failed"].stage = "recording"
        BY <2>2 DEF Job
      <3>2. [work[w] EXCEPT !.stage = "recording"].stage = "recording"
        BY <2>2 DEF Job
      <3> QED BY <1>9, <3>1, <3>2 DEF SendFailed, DeferChannel
    <2> QED BY <2>1, <2>3, WorkerGoesOn, FlightSame DEF Idle
  <1>10. ASSUME NEW w \in Worker,
                DeferDestination(w) \/ RetryAlertDelivery(w) \/ DropOutcome(w)
         PROVE  FlightInv'
    BY <1>10, WorkerReleased DEF DeferDestination, RetryAlertDelivery, DropOutcome
  <1>11. ASSUME NEW w \in Worker, FinishAlertDelivery(w) PROVE FlightInv'
    <2>1. work[w].stage # "idle" /\ hand' = hand /\ queue' = queue
      BY <1>11 DEF FinishAlertDelivery
    <2>2. CASE Release(w)
      BY <2>1, <2>2, WorkerReleased
    <2>3. CASE ~Release(w)
      <3>1. PICK pause \in Delay :
               NextStage(w, [work[w] EXCEPT !.stage = "pausing", !.delay = pause])
        BY <1>11, <2>3 DEF FinishAlertDelivery
      <3>2. work[w] \in Job
        BY <2>1, BusyHasJob
      <3>3. [work[w] EXCEPT !.stage = "pausing", !.delay = pause].stage = "pausing"
        BY <3>2 DEF Job
      <3>4. PICK job : NextStage(w, job) /\ job.stage = "pausing"
        BY <3>1, <3>3
      <3>5. inFlight' = inFlight
        BY <1>11, <2>3 DEF FinishAlertDelivery
      <3> QED BY <2>1, <3>4, <3>5, WorkerGoesOn, FlightSame DEF Idle
    <2> QED BY <2>2, <2>3
  <1>12. CASE Restart
    <2>1. hand' = {} /\ queue' = {} /\ inFlight' = 0 /\ Busy' = {}
      BY <1>12 DEF Restart, Busy
    <2>2. IsFiniteSet({}) /\ Cardinality({}) = 0
      BY FS_EmptySet
    <2> QED BY <1>2, <2>1, <2>2 DEF FlightInv, FlightAccounting, MaxFlight
  <1>13. CASE Tick
    <2>1. UNCHANGED <<hand, queue, inFlight>>
      BY <1>13 DEF Tick
    <2>2. ASSUME NEW w \in Worker, work[w] # Idle PROVE work'[w] # Idle
      <3>1. work[w] \in Job /\ work'[w] = [work[w] EXCEPT !.delay = Less(@)]
        BY <1>13, <2>2 DEF Tick, TypeOK
      <3>2. work'[w].stage = work[w].stage /\ work[w].stage # "idle"
        BY <3>1 DEF Job
      <3> QED BY <3>2 DEF Idle
    <2>3. Busy' = Busy
      BY <1>13, <2>2 DEF Tick, Busy
    <2> QED BY <2>1, <2>3, FlightSame
  <1>14. CASE \/ \E n \in Notification : EnqueueAlertNotification(n)
              \/ RecoverExpiredLeases \/ ExpireAlertDeliveries \/ PruneDedupeClaims
              \/ UNCHANGED vars
    BY <1>4, <1>14 DEF EnqueueAlertNotification, RecoverExpiredLeases,
                       ExpireAlertDeliveries, PruneDedupeClaims, vars, mem
  <1> QED BY <1>5, <1>6, <1>7, <1>8, <1>9, <1>10, <1>11, <1>12, <1>13, <1>14
          DEF Next, WorkerStep

\* The counter of the dispatcher is right and the pool is never overcommitted,
\* for any number of workers, through lost replies, pauses and restarts.
THEOREM FlightsAreAccounted == Spec => []FlightAccounting
  <1>1. Init => FlightInv
    <2> SUFFICES ASSUME Init PROVE FlightInv
      OBVIOUS
    <2>1. hand = {} /\ queue = {} /\ inFlight = 0 /\ Busy = {}
      BY DEF Init, Busy
    <2>2. IsFiniteSet({}) /\ Cardinality({}) = 0
      BY FS_EmptySet
    <2>3. MaxFlight \in Nat
      BY OutboxAssumption, FS_CardinalityType DEF OutboxAssumption, MaxFlight
    <2> QED BY <2>1, <2>2, <2>3 DEF FlightInv, FlightAccounting
  <1>2. FlightInv => FlightAccounting
    BY DEF FlightInv
  <1> QED BY <1>1, <1>2, NextFlightInv, TypeCorrect, Attempts, PTL DEF Spec
=============================================================================
