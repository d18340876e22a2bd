-------------------------- MODULE SellerScheduler --------------------------
(***************************************************************************)
(* The scheduler of seller lookups: one goroutine that takes jobs from two *)
(* bounded channels, sorts them into a FIFO lane per class, source and     *)
(* monitor, and hands them, round robin and by priority, to the enrichment *)
(* workers over an unbuffered channel.                                     *)
(*                                                                         *)
(*   apps/worker/internal/scraper/seller_scheduler.go  the scheduler       *)
(*   apps/worker/internal/scraper/alert_pipeline.go    who submits to it   *)
(*                                                                         *)
(* A job's readyAt is kept as its age: what has passed since readyAt,      *)
(* negative before it, and no further than the age that promotes the job.  *)
(***************************************************************************)
EXTENDS Integers, FiniteSets, Sequences

CONSTANTS
    Lane,
    Class,         \* [Lane -> Classes]
    Job,
    LaneOf,        \* [Job -> Lane]
    Dated,         \* the jobs with a readyAt: the retries
    Arriving,      \* the jobs that detection and the seller cache submit
    FollowUps,     \* [Job -> SUBSET Job]: what a worker may submit after a job
    Worker,
    Capacity,      \* of either input channel
    MaxDelay,      \* the longest delay of a retry
    StarvationAge  \* strictRetryStarvationAge

Classes == {"foreground", "strict", "background"}

ASSUME SchedulerAssumption ==
    /\ Class \in [Lane -> Classes]
    /\ LaneOf \in [Job -> Lane]
    /\ Dated \subseteq Job
    /\ Arriving \subseteq Job
    /\ FollowUps \in [Job -> SUBSET Job]
    /\ IsFiniteSet(Lane)
    /\ Capacity \in Nat \ {0}
    /\ MaxDelay \in Nat
    /\ StarvationAge \in Nat \ {0}

VARIABLES
    input, backgroundInput,  \* the channels
    lanes,      \* Run's lanes, each with its jobs
    laneIndex,  \* where a lane is, 0 for nowhere
    nextLane,   \* where the next choice starts, counted from 0
    selected,   \* the lane Run offers a job of, 0 for none
    pc,         \* Run: "poll", "wait" or "stopped"
    worker,
    accepted    \* history: jobs that Submit took and no worker has received

queues == <<input, backgroundInput>>
table  == <<lanes, laneIndex, nextLane>>
vars   == <<queues, table, selected, pc, worker, accepted>>

Entry == [job : Job, age : (-MaxDelay)..StarvationAge]
Idle  == [stage |-> "idle"]
Busy  == [stage : {"fetching", "submitting"}, job : Job]

ClassOf(j)   == Class[LaneOf[j]]
HeldBy(w, j) == worker[w] # Idle /\ worker[w].job = j

Init ==
    /\ input = <<>> /\ backgroundInput = <<>>
    /\ lanes = <<>>
    /\ laneIndex = [l \in Lane |-> 0]
    /\ nextLane = 0
    /\ selected = 0
    /\ pc = "poll"
    /\ worker = [w \in Worker |-> Idle]
    /\ accepted = {}

-----------------------------------------------------------------------------
(* Submit *)

\* Mutant: a full channel takes the job all the same.
Submit_Unbounded(j) ==
    /\ accepted' = accepted \cup {j}
    /\ IF ClassOf(j) = "background"
       THEN /\ backgroundInput' = Append(backgroundInput, [job |-> j, age |-> 0])
            /\ UNCHANGED input
       ELSE /\ input' = Append(input, [job |-> j, age |-> 0])
            /\ UNCHANGED backgroundInput

\* The send on the channel; the sender waits while it is full.
Submit(j) ==
    /\ accepted' = accepted \cup {j}
    /\ \E delay \in IF j \in Dated THEN 0..MaxDelay ELSE {0} :
         LET e == [job |-> j, age |-> -delay] IN
         IF ClassOf(j) = "background"
         THEN /\ Len(backgroundInput) < Capacity
              /\ backgroundInput' = Append(backgroundInput, e)
              /\ UNCHANGED input
         ELSE /\ Len(input) < Capacity
              /\ input' = Append(input, e)
              /\ UNCHANGED backgroundInput

\* A detected item, or the refresh of a stale cache entry (one per seller).
Arrive(j) ==
    /\ j \in Arriving \ accepted
    /\ \A w \in Worker : ~HeldBy(w, j)
    /\ pc # "stopped"
    /\ Submit(j)
    /\ UNCHANGED <<table, selected, pc, worker>>

-----------------------------------------------------------------------------
(* Lanes *)

\* Mutant: a scheduled retry is placed without regard to its time.
Places_Append(jobs, e) == {Len(jobs) + 1}

(***************************************************************************)
(* Where add may insert a job: before the first that is due later, and     *)
(* before every scheduled retry if the job has no time itself.  Of two     *)
(* jobs beyond the age that counts, either may be the older one.           *)
(***************************************************************************)
Places(jobs, e) ==
    LET Goes(i)  == \/ jobs[i].age < e.age
                    \/ e.job \notin Dated
                    \/ jobs[i].age = e.age /\ e.age = StarvationAge
        Stays(i) == \/ jobs[i].job \notin Dated
                    \/ e.job \in Dated /\ jobs[i].age >= e.age
    IN  {p \in 1..Len(jobs) + 1 :
           /\ \A i \in 1..p-1 : Stays(i)
           /\ p <= Len(jobs) => jobs[p].job \in Dated /\ Goes(p)}

Inserted(jobs, p, e) ==
    [i \in 1..Len(jobs) + 1 |->
        IF i < p THEN jobs[i] ELSE IF i = p THEN e ELSE jobs[i - 1]]

\* add
AddJob(e) ==
    LET l == LaneOf[e.job]  i == laneIndex[l] IN
    IF i # 0
    THEN /\ \E p \in Places(lanes[i].jobs, e) :
              lanes' = [lanes EXCEPT ![i].jobs = Inserted(@, p, e)]
         /\ UNCHANGED laneIndex
    ELSE /\ lanes' = Append(lanes, [lane |-> l, jobs |-> <<e>>])
         /\ laneIndex' = [laneIndex EXCEPT ![l] = Len(lanes) + 1]

\* Mutant: the index keeps the old places of the lanes that move up.
RemoveEmptyLane_NoShift(i) ==
    /\ lanes' = [k \in 1..Len(lanes) - 1 |->
                   IF k < i THEN lanes[k] ELSE lanes[k + 1]]
    /\ laneIndex' = [laneIndex EXCEPT ![lanes[i].lane] = 0]
    /\ nextLane' = IF i >= Len(lanes) - 1 THEN 0 ELSE i

\* removeEmptyLane, after nextLane = selectedLane + 1: the pointer skips the
\* lane that moves into the place of the removed one.
RemoveEmptyLane(i) ==
    /\ lanes' = [k \in 1..Len(lanes) - 1 |->
                   IF k < i THEN lanes[k] ELSE lanes[k + 1]]
    /\ laneIndex' = [l \in Lane |->
                       IF l = lanes[i].lane THEN 0
                       ELSE IF laneIndex[l] > i THEN laneIndex[l] - 1
                       ELSE laneIndex[l]]
    /\ nextLane' = IF i >= Len(lanes) - 1 THEN 0 ELSE i

-----------------------------------------------------------------------------
(* The choice *)

Ready(e) == e.job \in Dated => e.age >= 0

Rank(e) == CASE ClassOf(e.job) = "foreground" -> 0
             [] ClassOf(e.job) = "strict"     -> 1
             [] ClassOf(e.job) = "background" -> 2

\* Mutant: no aging.
Priority_Pure(e) == Rank(e)

\* enrichmentPriority
Priority(e) == IF e.job \in Dated /\ e.age >= StarvationAge THEN 0 ELSE Rank(e)

\* Mutant: the scan ends before the last lane.
Offsets_Short(ls) == 0..Len(ls) - 2
Offsets(ls) == 0..Len(ls) - 1

\* The lane that Run looks at after o others, of the lanes ls.
Scan(ls, o) == ((nextLane + o) % Len(ls)) + 1

\* The first lane of the best priority whose head is ready, 0 if there is none.
Selection(ls) ==
    LET HeadAt(o) == Head(ls[Scan(ls, o)].jobs)
        open == {o \in Offsets(ls) :
                   /\ ls[Scan(ls, o)].jobs # <<>>
                   /\ Ready(HeadAt(o))}
        best == {o \in open : \A x \in open :
                   \/ Priority(HeadAt(o)) < Priority(HeadAt(x))
                   \/ Priority(HeadAt(o)) = Priority(HeadAt(x)) /\ o <= x}
    IN  IF open = {} THEN 0 ELSE Scan(ls, CHOOSE o \in best : TRUE)

-----------------------------------------------------------------------------
(* Run *)

\* The top of the loop: at most one waiting foreground job is taken, then the
\* job to offer is chosen.
Poll ==
    /\ pc = "poll"
    /\ pc' = "wait"
    /\ IF input # <<>>
       THEN AddJob(Head(input)) /\ input' = Tail(input)
       ELSE UNCHANGED <<input, lanes, laneIndex>>
    /\ selected' = Selection(lanes')
    /\ UNCHANGED <<backgroundInput, nextLane, worker, accepted>>

\* Mutant: a chosen job is sent without listening to the inputs meanwhile.
Listening_NotWhileSending == pc = "wait" /\ selected = 0
Listening == pc = "wait"

TakeInput ==
    /\ Listening
    /\ input # <<>>
    /\ AddJob(Head(input))
    /\ input' = Tail(input)
    /\ pc' = "poll"
    /\ selected' = 0
    /\ UNCHANGED <<backgroundInput, nextLane, worker, accepted>>

TakeBackgroundInput ==
    /\ Listening
    /\ backgroundInput # <<>>
    /\ AddJob(Head(backgroundInput))
    /\ backgroundInput' = Tail(backgroundInput)
    /\ pc' = "poll"
    /\ selected' = 0
    /\ UNCHANGED <<input, nextLane, worker, accepted>>

\* The 50 ms ticker.
TickerFires ==
    /\ Listening
    /\ pc' = "poll"
    /\ selected' = 0
    /\ UNCHANGED <<queues, table, worker, accepted>>

\* Mutant: the lane keeps the job it has handed out.
TakeHead_Kept(i) ==
    /\ lanes' = [lanes EXCEPT ![i].jobs = SubSeq(@, 1, 1)]
    /\ nextLane' = i
    /\ UNCHANGED laneIndex

TakeHead(i) ==
    /\ lanes' = [lanes EXCEPT ![i].jobs = Tail(@)]
    /\ nextLane' = i
    /\ UNCHANGED laneIndex

\* A worker receives the job on offer.
Dispatch(w) ==
    LET jobs == lanes[selected].jobs IN
    /\ pc = "wait"
    /\ selected # 0
    /\ worker[w] = Idle
    /\ worker' = [worker EXCEPT ![w] = [stage |-> "fetching",
                                        job |-> Head(jobs).job]]
    /\ accepted' = accepted \ {Head(jobs).job}
    /\ IF Len(jobs) = 1 THEN RemoveEmptyLane(selected) ELSE TakeHead(selected)
    /\ pc' = "poll"
    /\ selected' = 0
    /\ UNCHANGED queues

\* The context of the engine is done; what is queued is dropped.
Stop ==
    /\ pc = "wait"
    /\ pc' = "stopped"
    /\ selected' = 0
    /\ UNCHANGED <<queues, table, worker, accepted>>

-----------------------------------------------------------------------------
(* The enrichment workers *)

\* The lookup ends: with an alert, a mismatch or a stale item.
Finish(w) ==
    /\ worker[w].stage = "fetching"
    /\ worker' = [worker EXCEPT ![w] = Idle]
    /\ UNCHANGED <<queues, table, selected, pc, accepted>>

\* The lookup ends without the data: a retry is to be submitted
\* (scheduleStrictSellerRetry, and the background retry of enrichAndPersist).
WantsRetry(w) ==
    /\ worker[w].stage = "fetching"
    /\ \E j \in FollowUps[worker[w].job] \ accepted :
         /\ \A v \in Worker \ {w} : ~HeldBy(v, j)
         /\ worker' = [worker EXCEPT ![w] = [stage |-> "submitting", job |-> j]]
    /\ UNCHANGED <<queues, table, selected, pc, accepted>>

\* The worker is back when the channel has taken the retry ...
SubmitsRetry(w) ==
    /\ worker[w].stage = "submitting"
    /\ Submit(worker[w].job)
    /\ worker' = [worker EXCEPT ![w] = Idle]
    /\ UNCHANGED <<table, selected, pc>>

\* ... or when the context is done.
RetryRefused(w) ==
    /\ worker[w].stage = "submitting"
    /\ pc = "stopped"
    /\ worker' = [worker EXCEPT ![w] = Idle]
    /\ UNCHANGED <<queues, table, selected, pc, accepted>>

-----------------------------------------------------------------------------
Older(e) == IF e.job \in Dated /\ e.age < StarvationAge
            THEN [e EXCEPT !.age = @ + 1] ELSE e

Aged(jobs) == [i \in DOMAIN jobs |-> Older(jobs[i])]

Tick ==
    /\ input' = Aged(input)
    /\ backgroundInput' = Aged(backgroundInput)
    /\ lanes' = [i \in DOMAIN lanes |-> [lanes[i] EXCEPT !.jobs = Aged(@)]]
    /\ UNCHANGED <<laneIndex, nextLane, selected, pc, worker, accepted>>

Next ==
    \/ \E j \in Job : Arrive(j)
    \/ Poll \/ TakeInput \/ TakeBackgroundInput \/ TickerFires \/ Stop
    \/ \E w \in Worker : \/ Dispatch(w) \/ Finish(w) \/ WantsRetry(w)
                         \/ SubmitsRetry(w) \/ RetryRefused(w)
    \/ Tick

Spec == Init /\ [][Next]_vars

Offers(l) == selected # 0 /\ selected = laneIndex[l]

\* Of several ready cases of a select Go takes one at random, so none is
\* passed over for ever, nor is a lane that offers a job to a waiting worker
\* again and again; senders that wait on a full channel are served in
\* turn; a lookup has a deadline.
FairSpec ==
    /\ Spec
    /\ WF_vars(Tick)
    /\ WF_vars(Poll)
    /\ WF_vars(TickerFires)
    /\ SF_vars(TakeBackgroundInput)
    /\ \A l \in Lane : SF_vars(Offers(l) /\ \E w \in Worker : Dispatch(w))
    /\ \A w \in Worker : WF_vars(Finish(w) \/ WantsRetry(w))
    /\ \A w \in Worker : SF_vars(SubmitsRetry(w) \/ RetryRefused(w))

-----------------------------------------------------------------------------
(* Properties *)

\* Every variable keeps to its domain (SellerEnrichmentScheduler and Run).
TypeOK ==
    /\ input \in Seq(Entry) /\ Len(input) <= Capacity
    /\ backgroundInput \in Seq(Entry) /\ Len(backgroundInput) <= Capacity
    /\ lanes \in Seq([lane : Lane, jobs : Seq(Entry)])
    /\ laneIndex \in [Lane -> Nat]
    /\ nextLane \in Nat
    /\ selected \in Nat
    /\ pc \in {"poll", "wait", "stopped"}
    /\ worker \in [Worker -> Busy \cup {Idle}]
    /\ accepted \subseteq Job

\* The index agrees with the lanes through every insertion, removal and
\* shift, no lane is empty, and a lane on offer exists: a stale index would
\* put a job into another monitor's lane, or fail out of range.
LanesIndexed ==
    /\ \A l \in Lane : laneIndex[l] \in 0..Len(lanes)
    /\ \A i \in 1..Len(lanes) : /\ laneIndex[lanes[i].lane] = i
                                /\ lanes[i].jobs # <<>>
    /\ \A l \in Lane : laneIndex[l] # 0 => lanes[laneIndex[l]].lane = l
    /\ selected <= Len(lanes)

\* A retry that is not due never stands in front of a ready job of its lane
\* (TestScheduledRetryDoesNotBlockReadyJobInSameLane).
ReadyInFront ==
    \A i \in 1..Len(lanes) : \A k \in 1..Len(lanes[i].jobs) :
        Ready(lanes[i].jobs[k]) => Ready(lanes[i].jobs[1])

QueuedAt(j) ==
    {<<"input", 0, i>> : i \in {n \in 1..Len(input) : input[n].job = j}}
    \cup {<<"background", 0, i>> :
            i \in {n \in 1..Len(backgroundInput) : backgroundInput[n].job = j}}
    \cup UNION {{<<"lane", l, i>> :
            i \in {n \in 1..Len(lanes[l].jobs) : lanes[l].jobs[n].job = j}} :
              l \in 1..Len(lanes)}

\* A job that Submit accepted stands in exactly one place until a worker
\* receives it, and in none afterwards: no alert is lost or looked up twice.
QueuedOnce ==
    \A j \in Job : Cardinality(QueuedAt(j)) = IF j \in accepted THEN 1 ELSE 0

\* A newly detected item is eventually handed to a worker, under any load of
\* other monitors, retries and refreshes.
ForegroundServed ==
    \A j \in {i \in Job : ClassOf(i) = "foreground"} :
        j \in accepted ~> j \notin accepted \/ pc = "stopped"

\* So is a strict retry, under any load of new items
\* (TestSellerEnrichmentSchedulerStrictRetryEventuallyDispatchedUnderForegroundFlood).
StrictServed ==
    \A j \in {i \in Job : ClassOf(i) = "strict"} :
        j \in accepted ~> j \notin accepted \/ pc = "stopped"

\* Workers that submit retries to a full channel are not waited for by the
\* scheduler they wait for.
WorkersReturn == \A w \in Worker :
    worker[w].stage = "submitting" ~> worker[w].stage # "submitting"

\* seller_scheduler.go: "strictRetryStarvationAge bounds how long a ready
\* strict-retry or background job can keep losing the dispatch pick to fresh
\* priority-0 foreground work."
BackgroundServed ==
    \A j \in {i \in Job : ClassOf(i) = "background"} :
        j \in accepted ~> j \notin accepted \/ pc = "stopped"
=============================================================================
