---------------------------- MODULE AlertOutbox ----------------------------
(***************************************************************************)
(* The durable alert outbox of the worker: the alert_notifications,        *)
(* alert_deliveries and alert_dedupe_claims tables, the dispatcher that    *)
(* claims deliveries and hands them to a bounded pool of sender workers,   *)
(* and the two sweeps that recover leases and expire deliveries.           *)
(*                                                                         *)
(*   apps/worker/internal/database/alert_outbox.go    the transactions     *)
(*   apps/worker/internal/scraper/alert_dispatcher.go the dispatcher       *)
(*                                                                         *)
(* Every SQL statement or transaction is one action.  Times are kept as    *)
(* what is left until them: leaseLeft for lease_until, dueIn for           *)
(* next_attempt_at, ttl for expires_at; Tick lets time pass.               *)
(***************************************************************************)
EXTENDS Integers, FiniteSets

CONSTANTS
    Notification,    \* requests to enqueue; numbers, in created_at order
    Delivery,        \* one per (notification, channel with a target)
    NotificationOf,  \* [Delivery -> Notification]
    DestinationOf,   \* [Delivery -> destination_fingerprint]
    ChannelOf,       \* [Delivery -> channel]
    ItemMatch,       \* the notifications of kind "item_match"
    Deduped,         \* the notifications enqueued with DedupeUserItem
    ItemAlert,       \* the notifications about an item: those, and price drops
    UserItem,        \* [ItemAlert -> (user, item) pair]
    Lifetime,        \* [Notification -> the longest time it may be delivered]
    Worker,          \* alert delivery workers
    BatchLimit,      \* deliveries claimed at once (16)
    MaxAttempts,     \* maximumAlertDeliveryAttempts (8)
    LeaseTicks,      \* alertDeliveryLeaseDuration (60 s)
    Provisional,     \* lifetime of an unpromoted dedupe claim (15 min)
    Promoted,        \* lifetime of a promoted one (30 days)
    Delay,           \* backoff and Retry-After delays
    ItemDelayCap     \* the cap on an item_match backoff (5 s)

Statuses == {"absent", "pending", "processing", "retrying",
             "sent", "failed", "expired", "cancelled"}
Waiting  == {"pending", "retrying"}
Live     == Waiting \cup {"processing"}
Terminal == {"sent", "failed", "expired", "cancelled"}
    \* "expired" is the status failed with the reason code "expired"

NoToken == 0     \* claim_token IS NULL
NoRow   == -1    \* no alert_dedupe_claims row

ASSUME OutboxAssumption ==
    /\ Notification \subseteq Nat
    /\ NotificationOf \in [Delivery -> Notification]
    /\ ItemAlert \subseteq Notification
    /\ ItemMatch \subseteq ItemAlert
    /\ Deduped \subseteq ItemMatch
    /\ Lifetime \in [Notification -> Nat \ {0}]
    /\ Delay \subseteq Nat \ {0}
    /\ {BatchLimit, MaxAttempts, LeaseTicks, Provisional} \subseteq Nat \ {0}
    /\ ItemDelayCap \in Nat
    /\ Promoted \in Nat /\ Promoted > Provisional
    /\ IsFiniteSet(Worker)
    \* An alert must not outlive its provisional claim: 2 min against 15 min.
    /\ \A n \in Deduped : Lifetime[n] <= Provisional
    \* The two deliveries of a notification go to different channels, and
    \* the channel is part of the fingerprint.
    /\ \A d, e \in Delivery :
         d # e /\ DestinationOf[d] = DestinationOf[e]
            => NotificationOf[d] # NotificationOf[e]

VARIABLES
    status, attempts, token, leaseLeft, dueIn,  \* alert_deliveries
    ttl,         \* alert_notifications: what is left until expires_at
    claimLeft,   \* alert_dedupe_claims: what is left until expires_at
    hand,        \* claims the coordinator has not yet pushed
    queue,       \* claims in the channel claimedAlertDeliveries
    inFlight,    \* alertDeliveryInFlight
    work,        \* what each worker does
    acked,       \* history: <<d, t>>, the provider confirmed attempt t of d
    lost         \* history: <<d, t>>, the lease of attempt t was recovered

rows == <<status, attempts, token, leaseLeft, dueIn>>
mem  == <<hand, queue, inFlight, work>>
vars == <<rows, ttl, claimLeft, mem, acked, lost>>

(***************************************************************************)
(* A claim: the delivery, the token it was claimed with, and whether the   *)
(* target read with it was enabled, present and unchanged.  A claim token  *)
(* is random per batch; of one row, the tokens of two claims differ        *)
(* exactly as its attempt counts do, so the count stands for the token.    *)
(***************************************************************************)
Claim == [d : Delivery, tok : Nat, ok : BOOLEAN]

Idle == [stage |-> "idle"]

Outcome == {"none", "sent", "retry", "failed", "expired", "cancelled"}
Job == {j \in [stage : {"sending", "deferring", "recording", "pausing"},
                claim : Claim, outcome : Outcome, delay : Nat] :
          j.outcome = "none" <=> j.stage = "sending"}

MaxFlight == Cardinality(Worker) + Cardinality(Worker) \div 2

-----------------------------------------------------------------------------
\* The column f with x in the rows of S.
Put(f, S, x) == [d \in DOMAIN f |-> IF d \in S THEN x ELSE f[d]]

Unexpired(d) == ttl[NotificationOf[d]] > 0
Leased(d)    == status[d] = "processing" /\ leaseLeft[d] > 0
Class(d)     == IF NotificationOf[d] \in ItemMatch THEN 0 ELSE 1
Targets(n)   == {d \in Delivery : NotificationOf[d] = n}

\* Mutant: a settled notification may be inserted again.
Known_Live(n) == \E d \in Targets(n) : status[d] \in Live
Known(n)      == \E d \in Targets(n) : status[d] # "absent"

Rivals(d) == {e \in Delivery \ {d} : DestinationOf[e] = DestinationOf[d]}

\* The claim query's row order (kind, created_at, id) within a destination.
Older(e, d) == \/ Class(e) < Class(d)
               \/ Class(e) = Class(d) /\ NotificationOf[e] < NotificationOf[d]

\* Mutant: leases of other rows of the destination do not hold a row back.
Candidate_NoLeases(d) ==
    /\ status[d] \in Waiting
    /\ dueIn[d] = 0
    /\ Unexpired(d)
    /\ \A e \in Rivals(d) : ~(Older(e, d) /\ Unexpired(e) /\ status[e] \in Live)

\* Mutant: rows being processed are claimed, too.
Candidate_Processing(d) ==
    /\ status[d] \in Live
    /\ dueIn[d] = 0
    /\ Unexpired(d)

Candidate(d) ==
    /\ status[d] \in Waiting
    /\ dueIn[d] = 0
    /\ Unexpired(d)
    /\ \A e \in Rivals(d) :
         /\ ~Leased(e)
         /\ ~(Older(e, d) /\ Unexpired(e) /\ status[e] \in Live)

\* UPDATE ... WHERE id AND claim_token AND status = 'processing'
\* Mutant: the token is not compared.
Owns_NoToken(c) == status[c.d] = "processing"
Owns(c) == status[c.d] = "processing" /\ token[c.d] = c.tok

-----------------------------------------------------------------------------
Init ==
    /\ status = [d \in Delivery |-> "absent"]
    /\ attempts = [d \in Delivery |-> 0]
    /\ token = [d \in Delivery |-> NoToken]
    /\ leaseLeft = [d \in Delivery |-> 0]
    /\ dueIn = [d \in Delivery |-> 0]
    /\ ttl = [n \in Notification |-> 0]
    /\ claimLeft = [k \in {UserItem[n] : n \in ItemAlert} |-> NoRow]
    /\ hand = {} /\ queue = {} /\ inFlight = 0
    /\ work = [w \in Worker |-> Idle]
    /\ acked = {} /\ lost = {}

\* The tail of the INSERT: deliveries are new rows, due at once.
InsertRows(n, life) ==
    /\ ttl' = [ttl EXCEPT ![n] = life]
    /\ status' = Put(status, Targets(n), "pending")

\* A dedupe claim that has not run out refuses the request.
\* Mutant: only a promoted claim does.
Refused_Promoted(n) == n \in Deduped /\ claimLeft[UserItem[n]] > Provisional
Refused(n) == n \in Deduped /\ claimLeft[UserItem[n]] > 0

(***************************************************************************)
(* EnqueueAlertNotification.  A live dedupe claim of the user and item     *)
(* refuses the request.  Otherwise the claim is taken and committed, even  *)
(* if the idempotency key is known or no target is left, and then nothing  *)
(* else is written.                                                        *)
(***************************************************************************)
EnqueueAlertNotification(n) ==
    /\ ~Refused(n)
    /\ claimLeft' = IF n \in Deduped
                    THEN [claimLeft EXCEPT ![UserItem[n]] = Provisional]
                    ELSE claimLeft
    /\ IF Known(n) \/ Targets(n) = {}
       THEN UNCHANGED <<status, ttl>>
       ELSE \E life \in 1..Lifetime[n] : InsertRows(n, life)
    /\ UNCHANGED <<attempts, token, leaseLeft, dueIn, mem, acked, lost>>

(***************************************************************************)
(* The coordinator claims while the deliveries in flight leave capacity.   *)
(* Among due candidates item matches come first.  `reply` is FALSE when    *)
(* the 2 s claim timeout or a broken connection loses the answer of a      *)
(* committed claim: the rows are leased and nobody holds them.             *)
(***************************************************************************)
ClaimLimit == LET room == MaxFlight - inFlight
              IN  IF room < BatchLimit THEN room ELSE BatchLimit

LeaseRows(S) ==
    /\ status' = Put(status, S, "processing")
    /\ attempts' = [d \in Delivery |-> IF d \in S THEN attempts[d] + 1 ELSE attempts[d]]
    /\ token' = [d \in Delivery |-> IF d \in S THEN attempts[d] + 1 ELSE token[d]]
    /\ leaseLeft' = Put(leaseLeft, S, LeaseTicks)

FirstCandidates(S) ==
    LET due == {d \in Delivery : Candidate(d)}
    IN  /\ S \subseteq due
        /\ IsFiniteSet(S) /\ Cardinality(S) <= ClaimLimit
        /\ Cardinality(S) < ClaimLimit => S = due
        /\ \A d \in S, e \in due \ S : Class(d) <= Class(e)

ClaimAlertDeliveries ==
    /\ hand = {}
    /\ ClaimLimit > 0
    /\ \E S \in SUBSET Delivery, reply \in BOOLEAN :
         /\ S # {}
         /\ FirstCandidates(S)
         /\ LeaseRows(S)
         /\ \E enabled \in [S -> BOOLEAN] :
              hand' = IF reply
                      THEN {[d |-> d, tok |-> attempts[d] + 1, ok |-> enabled[d]] : d \in S}
                      ELSE {}
    /\ UNCHANGED <<dueIn, ttl, claimLeft, queue, inFlight, work, acked, lost>>

\* alertDeliveryInFlight.Add(1), then the send on the channel, which holds
\* as many claims as there are workers.
\* Mutant: the claim stays in the batch.
PushClaim_Kept(c) ==
    /\ c \in hand
    /\ Cardinality(queue) < Cardinality(Worker)
    /\ queue' = queue \cup {c}
    /\ inFlight' = inFlight + 1
    /\ UNCHANGED <<rows, ttl, claimLeft, hand, work, acked, lost>>

PushClaim(c) ==
    /\ c \in hand
    /\ Cardinality(queue) < Cardinality(Worker)
    /\ hand' = hand \ {c}
    /\ queue' = queue \cup {c}
    /\ inFlight' = inFlight + 1
    /\ UNCHANGED <<rows, ttl, claimLeft, work, acked, lost>>

-----------------------------------------------------------------------------
NextStage(w, job) == work' = [work EXCEPT ![w] = job]

\* Mutant: the counter is not given back.
Release_NoCount(w) ==
    /\ work' = [work EXCEPT ![w] = Idle]
    /\ UNCHANGED inFlight

Release(w) ==
    /\ work' = [work EXCEPT ![w] = Idle]
    /\ inFlight' = inFlight - 1

\* A worker receives a claim and runs processAlertDelivery up to the send.
TakeClaim(w, c) ==
    /\ work[w] = Idle
    /\ c \in queue
    /\ queue' = queue \ {c}
    /\ NextStage(w,
         IF ~c.ok
         THEN [stage |-> "recording", claim |-> c, outcome |-> "cancelled", delay |-> 0]
         ELSE IF ~Unexpired(c.d)
         THEN [stage |-> "recording", claim |-> c, outcome |-> "expired", delay |-> 0]
         ELSE [stage |-> "sending", claim |-> c, outcome |-> "none", delay |-> 0])
    /\ UNCHANGED <<rows, ttl, claimLeft, hand, inFlight, acked, lost>>

\* sendAlertDeliveryAttempt returns Success: the provider took the message.
\* The attempt is cancelled at the deadline of the notification.
SendAccepted(w) ==
    /\ work[w].stage = "sending"
    /\ LET c == work[w].claim IN
         /\ Unexpired(c.d)
         /\ NextStage(w, [stage |-> "recording", claim |-> c,
                          outcome |-> "sent", delay |-> 0])
         /\ acked' = acked \cup {<<c.d, c.tok>>}
    /\ UNCHANGED <<rows, ttl, claimLeft, hand, queue, inFlight, lost>>

\* Mutant: off by one.
MayRetry_OneMore(c, delay) ==
    /\ c.tok <= MaxAttempts
    /\ NotificationOf[c.d] \in ItemMatch => delay <= ItemDelayCap
    /\ delay < ttl[NotificationOf[c.d]]

MayRetry(c, delay) ==
    /\ c.tok < MaxAttempts
    /\ NotificationOf[c.d] \in ItemMatch => delay <= ItemDelayCap
    /\ delay < ttl[NotificationOf[c.d]]

\* A retryable error, a timeout included: another attempt is scheduled if
\* one is left and it falls before the deadline.
SendRetryable(w) ==
    /\ work[w].stage = "sending"
    /\ LET c == work[w].claim IN
         \E delay \in Delay, next \in {"recording", "deferring"} :
           /\ MayRetry(c, delay)
           /\ NextStage(w, [stage |-> next, claim |-> c,
                            outcome |-> "retry", delay |-> delay])
    /\ UNCHANGED <<rows, ttl, claimLeft, hand, queue, inFlight, acked, lost>>

\* A permanent rejection, or a retryable error that may not be retried.
SendFailed(w) ==
    /\ work[w].stage = "sending"
    /\ NextStage(w, [work[w] EXCEPT !.stage = "recording", !.outcome = "failed"])
    /\ UNCHANGED <<rows, ttl, claimLeft, hand, queue, inFlight, acked, lost>>

Postpone(S, until) ==
    dueIn' = [d \in Delivery |->
                IF d \in S /\ status[d] \in Waiting /\ dueIn[d] < until
                THEN until ELSE dueIn[d]]

\* DeferAlertDestination(global): a global rate limit holds back the whole
\* channel before the retry is recorded.  A database error is ignored.
DeferChannel(w) ==
    /\ work[w].stage = "deferring"
    /\ \/ Postpone({d \in Delivery : ChannelOf[d] = ChannelOf[work[w].claim.d]},
                   work[w].delay)
       \/ UNCHANGED dueIn
    /\ NextStage(w, [work[w] EXCEPT !.stage = "recording"])
    /\ UNCHANGED <<status, attempts, token, leaseLeft, ttl, claimLeft,
                   hand, queue, inFlight, acked, lost>>

\* ... and a pause asked for by an accepted send holds back the destination.
DeferDestination(w) ==
    /\ work[w].stage = "pausing"
    /\ \/ Postpone({d \in Delivery : DestinationOf[d] = DestinationOf[work[w].claim.d]},
                   work[w].delay)
       \/ UNCHANGED dueIn
    /\ Release(w)
    /\ UNCHANGED <<status, attempts, token, leaseLeft, ttl, claimLeft,
                   hand, queue, acked, lost>>

-----------------------------------------------------------------------------
\* finishAlertDelivery promotes the dedupe claim of the user and item, if
\* the row exists, whoever took it and whatever kind of alert was sent: a
\* price drop carries a user and an item, too.
PromoteClaim(n) ==
    claimLeft' = IF n \in ItemAlert /\ claimLeft[UserItem[n]] # NoRow
                 THEN [claimLeft EXCEPT ![UserItem[n]] = Promoted]
                 ELSE claimLeft

\* Mutant: whatever the outcome, the dedupe claim is promoted.
Finish_Promoting(c, result) ==
    /\ status' = [status EXCEPT ![c.d] = result]
    /\ token' = [token EXCEPT ![c.d] = NoToken]
    /\ leaseLeft' = [leaseLeft EXCEPT ![c.d] = 0]
    /\ PromoteClaim(NotificationOf[c.d])
    /\ UNCHANGED <<attempts, dueIn>>

Finish(c, result) ==
    /\ status' = [status EXCEPT ![c.d] = result]
    /\ token' = [token EXCEPT ![c.d] = NoToken]
    /\ leaseLeft' = [leaseLeft EXCEPT ![c.d] = 0]
    /\ IF result = "sent" THEN PromoteClaim(NotificationOf[c.d])
                          ELSE UNCHANGED claimLeft
    /\ UNCHANGED <<attempts, dueIn>>

\* Complete-, Fail- or CancelAlertDelivery by the owner of the row.  A
\* provider that took the message may have asked for a pause.
FinishAlertDelivery(w) ==
    /\ work[w].stage = "recording"
    /\ work[w].outcome # "retry"
    /\ Owns(work[w].claim)
    /\ Finish(work[w].claim, work[w].outcome)
    /\ \/ Release(w)
       \/ /\ work[w].outcome = "sent"
          /\ \E pause \in Delay :
               NextStage(w, [work[w] EXCEPT !.stage = "pausing", !.delay = pause])
          /\ UNCHANGED inFlight
    /\ UNCHANGED <<ttl, hand, queue, acked, lost>>

RetryAlertDelivery(w) ==
    /\ work[w].stage = "recording"
    /\ work[w].outcome = "retry"
    /\ Owns(work[w].claim)
    /\ LET d == work[w].claim.d IN
         /\ status' = [status EXCEPT ![d] = "retrying"]
         /\ token' = [token EXCEPT ![d] = NoToken]
         /\ leaseLeft' = [leaseLeft EXCEPT ![d] = 0]
         /\ dueIn' = [dueIn EXCEPT ![d] = work[w].delay]
    /\ Release(w)
    /\ UNCHANGED <<attempts, ttl, claimLeft, hand, queue, acked, lost>>

\* The token no longer matches (lease_lost) or the transaction failed: the
\* outcome is dropped and the row stays as it is.
DropOutcome(w) ==
    /\ work[w].stage = "recording"
    /\ Release(w)
    /\ UNCHANGED <<rows, ttl, claimLeft, hand, queue, acked, lost>>

-----------------------------------------------------------------------------
\* Mutant: lease_until is not compared.
Lapsed_Any == {d \in Delivery : status[d] = "processing"}
Lapsed == {d \in Delivery : status[d] = "processing" /\ leaseLeft[d] = 0}

\* RecoverExpiredAlertDeliveryLeases, every 10 s.
RecoverExpiredLeases ==
    /\ Lapsed # {}
    /\ status' = Put(status, Lapsed, "retrying")
    /\ token' = Put(token, Lapsed, NoToken)
    /\ dueIn' = Put(dueIn, Lapsed, 0)
    /\ lost' = lost \cup {<<d, token[d]>> : d \in Lapsed}
    /\ UNCHANGED <<attempts, leaseLeft, ttl, claimLeft, mem, acked>>

\* Mutant: a delivery waiting for a retry is not swept.
Overdue_Fresh == {d \in Delivery : status[d] \in {"pending", "processing"} /\ ~Unexpired(d)}
Overdue == {d \in Delivery : status[d] \in Live /\ ~Unexpired(d)}

\* ExpireAlertDeliveries, every 15 s.
ExpireAlertDeliveries ==
    /\ Overdue # {}
    /\ status' = Put(status, Overdue, "expired")
    /\ token' = Put(token, Overdue, NoToken)
    /\ leaseLeft' = Put(leaseLeft, Overdue, 0)
    /\ UNCHANGED <<attempts, dueIn, ttl, claimLeft, mem, acked, lost>>

\* The dedupe claims part of PruneAlertTelemetry.
PruneDedupeClaims ==
    /\ \E k \in DOMAIN claimLeft : claimLeft[k] = 0
    /\ claimLeft' = [k \in DOMAIN claimLeft |->
                       IF claimLeft[k] = 0 THEN NoRow ELSE claimLeft[k]]
    /\ UNCHANGED <<rows, ttl, mem, acked, lost>>

\* The worker process stops, at any point, and a new one starts.
Restart ==
    /\ hand' = {} /\ queue' = {} /\ inFlight' = 0
    /\ work' = [w \in Worker |-> Idle]
    /\ UNCHANGED <<rows, ttl, claimLeft, acked, lost>>

Less(x) == IF x > 0 THEN x - 1 ELSE x

Tick ==
    /\ leaseLeft' = [d \in Delivery |-> Less(leaseLeft[d])]
    /\ dueIn' = [d \in Delivery |-> Less(dueIn[d])]
    /\ ttl' = [n \in Notification |-> Less(ttl[n])]
    /\ claimLeft' = [k \in DOMAIN claimLeft |-> Less(claimLeft[k])]
    /\ work' = [w \in Worker |->
                  IF work[w] = Idle THEN Idle
                  ELSE [work[w] EXCEPT !.delay = Less(@)]]
    /\ UNCHANGED <<status, attempts, token, hand, queue, inFlight, acked, lost>>

WorkerStep(w) ==
    \/ \E c \in queue : TakeClaim(w, c)
    \/ SendAccepted(w) \/ SendRetryable(w) \/ SendFailed(w)
    \/ DeferChannel(w) \/ DeferDestination(w)
    \/ FinishAlertDelivery(w) \/ RetryAlertDelivery(w) \/ DropOutcome(w)

Next ==
    \/ \E n \in Notification : EnqueueAlertNotification(n)
    \/ ClaimAlertDeliveries
    \/ \E c \in hand : PushClaim(c)
    \/ \E w \in Worker : WorkerStep(w)
    \/ RecoverExpiredLeases
    \/ ExpireAlertDeliveries
    \/ PruneDedupeClaims
    \/ Restart
    \/ Tick

Spec == Init /\ [][Next]_vars

\* Time passes, the sweeps' tickers fire, the provider call has a timeout,
\* and the coordinator polls every 2 s.
Fairness ==
    /\ WF_vars(Tick)
    /\ WF_vars(RecoverExpiredLeases)
    /\ WF_vars(ExpireAlertDeliveries)
    /\ WF_vars(ClaimAlertDeliveries)
    /\ WF_vars(\E c \in hand : PushClaim(c))
    /\ \A w \in Worker : WF_vars(WorkerStep(w))

FairSpec == Spec /\ Fairness
-----------------------------------------------------------------------------
TypeOK ==
    /\ status \in [Delivery -> Statuses]
    /\ attempts \in [Delivery -> Nat]
    /\ token \in [Delivery -> Nat]
    /\ leaseLeft \in [Delivery -> Nat]
    /\ dueIn \in [Delivery -> Nat]
    /\ ttl \in [Notification -> Nat]
    /\ claimLeft \in [{UserItem[n] : n \in ItemAlert} -> Nat \cup {NoRow}]
    /\ hand \subseteq Claim
    /\ queue \subseteq Claim
    /\ inFlight \in Int
    /\ work \in [Worker -> Job \cup {Idle}]
    /\ acked \subseteq Delivery \X Nat
    /\ lost \subseteq Delivery \X Nat

Busy == {w \in Worker : work[w] # Idle}

\* A claim whose lease runs: its holder may finish or retry the row.
Current(c) == Owns(c) /\ leaseLeft[c.d] > 0

\* Two workers never send to the same webhook or chat at once, unless one of
\* them has outlived its lease: the claim query admits one live lease per
\* destination, within a batch as well as against rows claimed before.
OneSenderPerDestination ==
    \A v, w \in Worker :
      /\ v # w
      /\ work[v].stage = "sending" /\ work[w].stage = "sending"
      /\ DestinationOf[work[v].claim.d] = DestinationOf[work[w].claim.d]
      => ~(Current(work[v].claim) /\ Current(work[w].claim))

\* No claim is in two places of the dispatcher, so no attempt of a delivery
\* is made twice.
ClaimHeldOnce ==
    /\ \A c \in hand \cup queue, w \in Busy :
         <<c.d, c.tok>> # <<work[w].claim.d, work[w].claim.tok>>
    /\ \A v, w \in Busy :
         v # w => <<work[v].claim.d, work[v].claim.tok>>
                    # <<work[w].claim.d, work[w].claim.tok>>
    /\ \A b, c \in hand \cup queue : b # c => <<b.d, b.tok>> # <<c.d, c.tok>>
    /\ hand \cap queue = {}

\* A message the provider confirmed is attempted again only after the lease
\* of the confirmed attempt was recovered ("it may be delivered twice").
ResendOnlyAfterLeaseLoss ==
    \A d \in Delivery : \A t \in 1..attempts[d] :
      <<d, t>> \in acked /\ t < attempts[d] => <<d, t>> \in lost

\* maximumAlertDeliveryAttempts bounds the attempts a worker schedules; only
\* a recovered lease adds one beyond it.
AttemptLimit ==
    \A d \in Delivery : \A t \in 1..attempts[d] :
      MaxAttempts <= t /\ t < attempts[d] => <<d, t>> \in lost

\* A row recorded as sent was confirmed by the provider in its last attempt,
\* not in one whose lease another claim took over.
SentWasAccepted ==
    \A d \in Delivery : status[d] = "sent" => <<d, attempts[d]>> \in acked

\* "The message reached the member, so the provisional dedupe claim earns its
\* full lifetime": a promoted claim belongs to a user and item of which the
\* provider confirmed an alert, an item alert or a price drop, in the attempt
\* that was recorded.
PromotionWasReceived ==
    \A k \in DOMAIN claimLeft :
      claimLeft[k] > Provisional
        => \E d \in Delivery :
             /\ NotificationOf[d] \in ItemAlert /\ UserItem[NotificationOf[d]] = k
             /\ status[d] = "sent" /\ <<d, attempts[d]>> \in acked

\* Of the alerts a member asked to be deduplicated, at most one per item is
\* deliverable at a time: the provisional claim outlives the alert it covers.
OneLiveAlertPerItem ==
    \A d, e \in Delivery :
      /\ {NotificationOf[d], NotificationOf[e]} \subseteq Deduped
      /\ UserItem[NotificationOf[d]] = UserItem[NotificationOf[e]]
      /\ {status[d], status[e]} \subseteq Live
      /\ Unexpired(d) /\ Unexpired(e)
      => NotificationOf[d] = NotificationOf[e]

\* The counter the coordinator claims against counts the claims that are
\* buffered or in a worker, and with the unpushed ones it stays within
\* MaxFlight.
FlightAccounting ==
    /\ inFlight = Cardinality(queue) + Cardinality(Busy)
    /\ inFlight + Cardinality(hand) <= MaxFlight

\* An outcome is recorded once: neither a late worker, nor a sweep, nor a
\* repeated enqueue of the same idempotency key reopens a settled delivery.
SettledForGood ==
    [][\A d \in Delivery : status[d] \in Terminal => status'[d] = status[d]]_vars

\* What the outbox promises: a running lease is a processing row whose
\* lease has time left, and the latest attempt is the one that counts.
PhaseOf(d) ==
    CASE status[d] = "absent"     -> "absent"
      [] status[d] \in Waiting    -> "waiting"
      [] status[d] = "processing" -> IF leaseLeft[d] > 0 THEN "leased" ELSE "lapsed"
      [] status[d] = "sent"       -> "sent"
      [] OTHER                    -> "closed"

Promise == INSTANCE AlertDelivery WITH
    phase   <- [d \in Delivery |-> PhaseOf(d)],
    reached <- {d \in Delivery : <<d, attempts[d]>> \in acked}

\* Claims, late workers, sweeps and restarts together never do to a delivery
\* what AlertDelivery does not allow: give a confirmed attempt back under a
\* running lease, lease a destination twice, settle twice, or record as sent
\* what the provider did not confirm.
DeliveryPromise == Promise!Spec

\* Every enqueued delivery is eventually settled, whatever the provider, the
\* database and restarts of the worker do.
EveryAlertSettles ==
    \A d \in Delivery : status[d] \in Live ~> status[d] \in Terminal

(***************************************************************************)
(* What the repository says and the code does not keep.                    *)
(***************************************************************************)
\* "any alert that then expired or was cancelled left a claim behind that
\* suppressed that item across every one of that member's monitors for a
\* month", as a fault of the past: an item is suppressed beyond the
\* provisional time only if an item alert of it was sent.
PromotionEarned ==
    \A k \in DOMAIN claimLeft :
      claimLeft[k] > Provisional
        => \E d \in Delivery : /\ NotificationOf[d] \in ItemMatch
                              /\ UserItem[NotificationOf[d]] = k
                              /\ status[d] = "sent"

\* "Send one Discord or Telegram alert when multiple monitors find the same
\* item", the dashboard's text beside the dedupe switch.
OneAlertPerItem ==
    \A d, e \in Delivery :
      /\ {NotificationOf[d], NotificationOf[e]} \subseteq Deduped
      /\ UserItem[NotificationOf[d]] = UserItem[NotificationOf[e]]
      /\ (\E t \in 1..attempts[d] : <<d, t>> \in acked)
      /\ (\E t \in 1..attempts[e] : <<e, t>> \in acked)
      => NotificationOf[d] = NotificationOf[e]
=============================================================================
