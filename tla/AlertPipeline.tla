--------------------------- MODULE AlertPipeline ---------------------------
(***************************************************************************)
(* What happens to an item between its detection and the outbox: the       *)
(* seller is looked up (in a cache, or by a request that the jobs of one   *)
(* seller share), a strict monitor waits for the answer, an ordinary one   *)
(* only until a timer fires, and the alert is written as a row of the      *)
(* outbox by workers that retry.                                           *)
(*                                                                         *)
(*   apps/worker/internal/scraper/alert_pipeline.go                        *)
(*                                                                         *)
(* Time is each item's age in ticks, which stops at its alert deadline:    *)
(* nothing is looked at later.  The caches, the seller requests and the    *)
(* database answer what they like.  Which ready job a worker takes is the  *)
(* business of SellerScheduler; here it is any.                            *)
(***************************************************************************)
EXTENDS Integers, FiniteSets, Sequences

CONSTANTS
    Item,
    Strict,        \* the items whose monitor filters by country or rating
    Seller,
    SellerOf,      \* [Item -> Seller]
    AlertCap,      \* cap(alertJobs)
    EnrichTicks,   \* sellerEnrichmentTimeout
    AlertTicks,    \* itemAlertDeadline, two minutes
    RetryDelay     \* the delays of scheduleStrictSellerRetry

ASSUME PipelineAssumption ==
    /\ IsFiniteSet(Item) /\ Strict \subseteq Item
    /\ SellerOf \in [Item -> Seller]
    /\ {"failed", "incomplete"} \cap Seller = {}
    /\ AlertCap \in Nat \ {0}
    /\ EnrichTicks \in Nat /\ AlertTicks \in Nat /\ EnrichTicks < AlertTicks
    /\ RetryDelay \in Seq(Nat) /\ RetryDelay # <<>>

VARIABLES
    age,         \* an item's age, -1 before it is found
    job,         \* the enrichment jobs
    alert,       \* the alert jobs, by who enqueues them
    refreshing,  \* sellerRefreshes
    rows,        \* the item_match rows of the outbox
    decided,     \* history: items whose alert is written, or is on record as
                 \* stale, was found switched off or rejected
    verified     \* history: strict items judged by data of their own seller

jobs == <<job, refreshing, verified>>
vars == <<age, jobs, alert, rows, decided>>

Job    == Item \X {"main", "background", "refresh"}
Copy   == Item \X {"timer", "main"}
Result == {"failed", "incomplete"} \cup Seller
Stages == {"none", "cache", "fast", "queued", "leading", "joined", "answered",
           "alerting", "done"}

JobRow == [stage : Stages, attempt : 0..(Len(RetryDelay) + 1),
           readyAt : 0..AlertTicks, by : 0..AlertTicks, result : Result]

Fresh(stage) == [stage |-> stage, attempt |-> 0, readyAt |-> 0, by |-> 0,
                 result |-> "incomplete"]

TypeOK ==
    /\ age \in [Item -> (-1)..AlertTicks]
    /\ job \in [Job -> JobRow]
    /\ alert \in [Copy -> {"none", "armed", "sending", "queued", "delivering",
                           "over"}]
    /\ Cardinality({c \in Copy : alert[c] = "queued"}) <= AlertCap
    /\ refreshing \subseteq Seller
    /\ rows \in [Item -> Nat]
    /\ decided \subseteq Item
    /\ verified \subseteq Strict

Init ==
    /\ age = [i \in Item |-> -1]
    /\ job = [j \in Job |-> Fresh("none")]
    /\ alert = [c \in Copy |-> "none"]
    /\ refreshing = {}
    /\ rows = [i \in Item |-> 0]
    /\ decided = {}
    /\ verified = {}

Earlier(a, b) == IF a <= b THEN a ELSE b
Expired(i)    == age[i] >= AlertTicks
Decide(i)     == decided' = decided \cup {i}

-----------------------------------------------------------------------------
(* Detection and the seller cache *)

\* Mutant: strict items get the timer as well.
Armed_Any(i) == "armed"

\* Mutant: the timer is armed by the worker that takes the job.
Armed_Late(i) == "none"

\* armNormalAlertDeadline.
Armed(i) == IF i \in Strict THEN "none" ELSE "armed"

\* A stale entry starts one refresh of its seller, unless one is under way.
RefreshJob(i) ==
    /\ refreshing' = refreshing \cup {SellerOf[i]}
    /\ job' = [job EXCEPT
         ![<<i, "main">>] = Fresh("fast"),
         ![<<i, "refresh">>] = IF SellerOf[i] \in refreshing
                               THEN @ ELSE Fresh("queued")]

\* dispatchCachedEnrichment: a fresh or a stale entry.
DispatchCached(i) ==
    \/ /\ job' = [job EXCEPT ![<<i, "main">>] = Fresh("fast")]
       /\ UNCHANGED refreshing
    \/ RefreshJob(i)

\* handleDetectedItem with an alert to send, and enqueueItem: the timer is
\* armed before the job is queued, and the entry is in memory or is not.
EnqueueItem(i) ==
    /\ age[i] = -1
    /\ age' = [age EXCEPT ![i] = 0]
    /\ alert' = [alert EXCEPT ![<<i, "timer">>] = Armed(i)]
    /\ \/ DispatchCached(i)
       \/ /\ job' = [job EXCEPT ![<<i, "main">>] = Fresh("cache")]
          /\ UNCHANGED refreshing
    /\ UNCHANGED <<rows, decided, verified>>

\* The lookup in Redis and Postgres.
PrepareEnrichment(i) ==
    /\ job[<<i, "main">>].stage = "cache"
    /\ \/ DispatchCached(i)
       \/ /\ job' = [job EXCEPT ![<<i, "main">>] = Fresh("queued")]
          /\ UNCHANGED refreshing
    /\ UNCHANGED <<age, alert, rows, decided, verified>>

-----------------------------------------------------------------------------
(* The enrichment workers *)

\* sellerFlights: who looks this seller up.
Leader(s) == {j \in Job : job[j].stage = "leading" /\ SellerOf[j[1]] = s}

\* The deadline of the lookup.
FetchBy(j) ==
    IF job[j].attempt > 0 \/ j[2] # "main"
    THEN Earlier(age[j[1]] + EnrichTicks, AlertTicks)
    ELSE EnrichTicks

\* recordStaleItemAlert, for jobs that were to alert.
GiveUp(j) ==
    /\ job' = [job EXCEPT ![j] = Fresh("done")]
    /\ IF j[2] = "main" THEN Decide(j[1]) ELSE UNCHANGED decided

\* Mutant: the key is given back by a refresh that ran, not by one that came
\* too late.
Released_NotLate(j) ==
    IF j[2] = "refresh" /\ ~Expired(j[1]) THEN refreshing \ {SellerOf[j[1]]}
                                          ELSE refreshing

Released(j) ==
    IF j[2] = "refresh" THEN refreshing \ {SellerOf[j[1]]} ELSE refreshing

(***************************************************************************)
(* A worker takes a job that is due.  After the alert deadline it returns  *)
(* at once.  Otherwise it has cached data, or joins the flight of its      *)
(* seller, or starts one; the policy may switch lookups off that no filter *)
(* needs.                                                                  *)
(***************************************************************************)
TakeJob(j) ==
    LET i == j[1] IN
    /\ job[j].stage \in {"fast", "queued"}
    /\ job[j].readyAt <= age[i]
    /\ IF Expired(i)
       THEN GiveUp(j) /\ refreshing' = Released(j)
       ELSE /\ \/ /\ job[j].stage = "fast"
                  /\ job' = [job EXCEPT ![j].stage = "answered",
                                        ![j].result = SellerOf[i]]
               \/ /\ job[j].stage = "queued"
                  /\ i \notin Strict \/ j[2] # "main"
                  /\ job' = [job EXCEPT ![j].stage = "answered",
                                        ![j].result = "incomplete"]
               \/ /\ job[j].stage = "queued"
                  /\ job' = [job EXCEPT ![j].by = FetchBy(j),
                       ![j].stage = IF Leader(SellerOf[i]) = {} THEN "leading"
                                                                ELSE "joined"]
            /\ UNCHANGED <<decided, refreshing>>
    /\ UNCHANGED <<age, alert, rows, verified>>

\* Mutant: only the leader gets the answer.
Flight_Alone(j) == {j}

\* Those who wait for the flight that j leads.
Flight(j) ==
    {j} \cup {k \in Job : /\ job[k].stage = "joined"
                          /\ SellerOf[k[1]] = SellerOf[j[1]]}

\* RefreshSellerInfo returns: data, data without what a filter needs, or an
\* error, which after the leader's deadline it is.
LookupReturns(j) ==
    /\ job[j].stage = "leading"
    /\ \E r \in {"failed", "incomplete", SellerOf[j[1]]} :
         /\ age[j[1]] >= job[j].by => r = "failed"
         /\ job' = [k \in Job |->
              IF k \in Flight(j)
              THEN [job[k] EXCEPT !.stage = "answered", !.by = 0, !.result = r]
              ELSE job[k]]
    /\ UNCHANGED <<age, alert, refreshing, rows, decided, verified>>

\* The deadline of a job that waits for another's lookup.
JoinerTimesOut(j) ==
    /\ job[j].stage = "joined"
    /\ age[j[1]] >= job[j].by
    /\ job' = [job EXCEPT ![j].stage = "answered", ![j].by = 0,
                          ![j].result = "failed"]
    /\ UNCHANGED <<age, alert, refreshing, rows, decided, verified>>

Again(j, at) ==
    /\ job' = [job EXCEPT ![j] = [Fresh("queued") EXCEPT
                 !.attempt = job[j].attempt + 1, !.readyAt = at]]
    /\ UNCHANGED decided

(***************************************************************************)
(* scheduleStrictSellerRetry: a retry after each delay that ends before    *)
(* the deadline, then one at the deadline itself.                          *)
(***************************************************************************)
ScheduleStrictSellerRetry(j) ==
    LET n    == job[j].attempt
        next == age[j[1]] + RetryDelay[n + 1]
    IN  IF n >= Len(RetryDelay)
        THEN IF job[j].readyAt >= AlertTicks THEN GiveUp(j)
                                             ELSE Again(j, AlertTicks)
        ELSE IF next >= AlertTicks THEN GiveUp(j) ELSE Again(j, next)

\* enrichAndPersist with the answer, for a strict item.
JudgeStrict(j) ==
    LET i == j[1] IN
    /\ job[j].stage = "answered" /\ j[2] = "main" /\ i \in Strict
    /\ \/ /\ job[j].result \notin Seller
          /\ ScheduleStrictSellerRetry(j)
          /\ UNCHANGED verified
       \/ /\ job[j].result \in Seller
          /\ job' = [job EXCEPT ![j] = Fresh("done")]
          /\ Decide(i)
          /\ UNCHANGED verified
       \/ /\ job[j].result \in Seller
          /\ job' = [job EXCEPT ![j].stage = "alerting"]
          /\ verified' = IF job[j].result = SellerOf[i]
                         THEN verified \cup {i} ELSE verified
          /\ UNCHANGED decided
    /\ UNCHANGED <<age, alert, refreshing, rows>>

\* Mutant: the finished lookup stops the timer and enqueues only what it
\* has data for.
Onward_WithData(j) == IF job[j].result \in Seller THEN "alerting" ELSE "done"

Onward(j) == "alerting"

\* For another: it stops the timer, which may have fired, and alerts.
JudgeNormal(j) ==
    LET c == <<j[1], "timer">> IN
    /\ job[j].stage = "answered" /\ j[2] = "main" /\ j[1] \notin Strict
    /\ job' = [job EXCEPT ![j].stage = Onward(j)]
    /\ alert' = [alert EXCEPT ![c] = IF @ = "armed" THEN "over" ELSE @]
    /\ UNCHANGED <<age, refreshing, rows, decided, verified>>

\* A refresh only filled the cache; a background job updates the live feed.
FinishQuietly(j) ==
    /\ job[j].stage = "answered" /\ j[2] # "main"
    /\ job' = [job EXCEPT ![j] = Fresh("done")]
    /\ refreshing' = Released(j)
    /\ UNCHANGED <<age, alert, rows, decided, verified>>

Room == Cardinality({c \in Copy : alert[c] = "queued"}) < AlertCap

\* enqueueAlert, SaveItem, and the second look at a seller that failed.
EnqueueMain(j) ==
    LET i    == j[1]
        late == Earlier(age[i] + RetryDelay[1], AlertTicks)
    IN
    /\ job[j].stage = "alerting"
    /\ Room
    /\ alert' = [alert EXCEPT ![<<i, "main">>] = "queued"]
    /\ job' = [job EXCEPT
         ![j] = Fresh("done"),
         ![<<i, "background">>] =
             IF job[j].result = "failed" /\ i \notin Strict
             THEN [Fresh("queued") EXCEPT !.readyAt = late] ELSE @]
    /\ UNCHANGED <<age, refreshing, rows, decided, verified>>

-----------------------------------------------------------------------------
(* The alert workers *)

\* The deadline of an ordinary item, kept by its own goroutine.
TimerFires(i) ==
    /\ alert[<<i, "timer">>] = "armed"
    /\ age[i] >= EnrichTicks
    /\ alert' = [alert EXCEPT ![<<i, "timer">>] = "sending"]
    /\ UNCHANGED <<age, jobs, rows, decided>>

\* Mutant: the channel has no limit.
EnqueueAlert_Unbounded(c) ==
    /\ alert[c] = "sending"
    /\ alert' = [alert EXCEPT ![c] = "queued"]
    /\ UNCHANGED <<age, jobs, rows, decided>>

\* enqueueAlert from the timer or from a retry; it waits while the channel is full.
EnqueueAlert(c) ==
    /\ alert[c] = "sending"
    /\ Room
    /\ alert' = [alert EXCEPT ![c] = "queued"]
    /\ UNCHANGED <<age, jobs, rows, decided>>

\* deliverAlert up to the transaction; notifications are on or off now.
TakeAlert(c) ==
    /\ alert[c] = "queued"
    /\ \/ /\ alert' = [alert EXCEPT ![c] = "over"]
          /\ Decide(c[1])
       \/ /\ Expired(c[1])
          /\ alert' = [alert EXCEPT ![c] = "over"]
          /\ Decide(c[1])
       \/ /\ ~Expired(c[1])
          /\ alert' = [alert EXCEPT ![c] = "delivering"]
          /\ UNCHANGED decided
    /\ UNCHANGED <<age, jobs, rows>>

\* Mutant: the row has no idempotency key.
Inserted_NoKey(i) == [rows EXCEPT ![i] = Earlier(@ + 1, 2)]

\* ON CONFLICT (idempotency_key) DO NOTHING.
Inserted(i) == IF rows[i] > 0 THEN rows ELSE [rows EXCEPT ![i] = 1]

\* EnqueueAlertNotification answers.
AlertWritten(c) ==
    /\ alert[c] = "delivering"
    /\ alert' = [alert EXCEPT ![c] = "over"]
    /\ rows' = Inserted(c[1])
    /\ Decide(c[1])
    /\ UNCHANGED <<age, jobs>>

\* scheduleAlertEnqueueRetry; how long the retry waits is left open.
RetryAlert(c) ==
    /\ alert' = [alert EXCEPT ![c] = IF Expired(c[1]) THEN "over" ELSE "sending"]
    /\ IF Expired(c[1]) THEN Decide(c[1]) ELSE UNCHANGED decided

\* It fails, or times out although the transaction commits.
AlertFails(c) ==
    /\ alert[c] = "delivering"
    /\ rows' \in {rows, Inserted(c[1])}
    /\ RetryAlert(c)
    /\ UNCHANGED <<age, jobs>>

-----------------------------------------------------------------------------
(* The surroundings *)

Tick ==
    /\ \E i \in Item : age[i] \in 0..(AlertTicks - 1)
    /\ age' = [i \in Item |-> IF age[i] \in 0..(AlertTicks - 1)
                              THEN age[i] + 1 ELSE age[i]]
    /\ UNCHANGED <<jobs, alert, rows, decided>>

EnrichmentStep ==
    \/ \E i \in Item : PrepareEnrichment(i)
    \/ \E j \in Job : TakeJob(j)

LookupStep == \E j \in Job :
    \/ LookupReturns(j) \/ JoinerTimesOut(j)
    \/ JudgeStrict(j) \/ JudgeNormal(j) \/ FinishQuietly(j) \/ EnqueueMain(j)

AlertStep(c) ==
    \/ EnqueueAlert(c) \/ TakeAlert(c) \/ AlertWritten(c) \/ AlertFails(c)

Next ==
    \/ \E i \in Item : EnqueueItem(i) \/ TimerFires(i)
    \/ EnrichmentStep \/ LookupStep
    \/ \E c \in Copy : AlertStep(c)
    \/ Tick

Spec == Init /\ [][Next]_vars

(***************************************************************************)
(* Timers, alert workers and answers; nothing is assumed of the workers    *)
(* that look sellers up, which other monitors may keep busy.               *)
(***************************************************************************)
Fairness ==
    /\ WF_vars(Tick)
    /\ WF_vars(\E i \in Item : TimerFires(i))
    /\ WF_vars(\E c \in Copy : AlertStep(c))
    /\ WF_vars(LookupStep)

FairSpec == Spec /\ Fairness

-----------------------------------------------------------------------------
(* Properties *)

\* Whatever timers, lookups, shared errors and failed transactions do, the
\* alert of an item is not lost without a trace: when nothing is left that
\* could still write it, it was written, recorded as stale, found switched
\* off, or rejected by the filters.
NothingVanishes ==
    \A i \in Item :
        /\ job[<<i, "main">>].stage = "done"
        /\ \A c \in {<<i, "timer">>, <<i, "main">>} : alert[c] \in {"none", "over"}
        => i \in decided

\* A strict item is alerted only after data of its own seller passed the
\* filters, not by a timer and not by an answer another seller's job shared.
StrictVerified ==
    \A i \in Strict : rows[i] > 0 => i \in verified

\* The timer and the lookup may both enqueue, and an enqueue is repeated
\* when its answer is lost: the outbox has one row of the item.
OneRowPerItem == \A i \in Item : rows[i] <= 1

\* Every job that waits for a flight has a leader of its seller, and a
\* seller has one.
FlightsLed ==
    /\ \A s \in Seller : Cardinality(Leader(s)) <= 1
    /\ \A j \in Job : job[j].stage = "joined" => Leader(SellerOf[j[1]]) # {}

\* The key of a refresh is held as long as the refresh is under way, and no
\* longer: the next stale entry of the seller starts another.
RefreshKeyReturned ==
    \A s \in Seller :
        s \in refreshing <=>
            \E i \in Item : /\ SellerOf[i] = s
                            /\ job[<<i, "refresh">>].stage \notin {"none", "done"}

\* The alert of an ordinary item is decided even if no worker ever looks at
\* its seller.
AlertNotHeldUp ==
    \A i \in Item \ Strict :
        age[i] >= 0 ~> i \in decided
=============================================================================
