----------------------------- MODULE PriceWatch -----------------------------
(***************************************************************************)
(* Price watches: rows the control center, the browser extension and the   *)
(* administrator write, and the polling schedules the workers claim.       *)
(*                                                                         *)
(*   apps/control-center/src/actions/price-watch.ts   members' actions     *)
(*   apps/control-center/src/lib/extension-price-watch.server.ts           *)
(*   apps/control-center/src/actions/{admin,admin-features,proxy-groups}.ts*)
(*   apps/worker/internal/database/price_watch.go     claims and results   *)
(*                                                                         *)
(* A watch is a member's booking of an item; a schedule polls an item over *)
(* one transport, "shared" or a member's proxy group (one per member here, *)
(* named by its owner).  A rate is in checks per minute, the inverse of    *)
(* the polling interval.                                                   *)
(***************************************************************************)
EXTENDS Naturals, FiniteSets, FiniteSetsExt

CONSTANTS
    User, Item,
    Booking,       \* the <<member, item>> pairs that may be watched
    GroupOwner,    \* the members who may have a proxy group
    Job,           \* price watch jobs the workers run at a time
    Rate, SlowRate,   \* the presets; the one deleteProxyGroup falls back to
    Price,
    Limit,         \* what the effective limit of a member may be
    Budget,        \* what the administrator may set the shared budget to
    SharedMaxRpm,  \* the scalar setting that admission reads
    MaxWorking, RpmPerProxy,
    GroupMaxRpm,   \* the most that is asked of a group, whatever its size
    Strikes,       \* unavailable results that stop a schedule
    None           \* no row, no claim, nobody

ASSUME PriceWatchAssumption ==
    /\ Booking \subseteq User \X Item /\ IsFiniteSet(Booking)
    /\ GroupOwner \subseteq User
    /\ "shared" \notin GroupOwner
    /\ Rate \subseteq Nat /\ SlowRate \in Nat
    /\ Price \subseteq Nat \ {0} /\ Limit \subseteq Nat /\ Budget \subseteq Nat
    /\ {SharedMaxRpm, MaxWorking, RpmPerProxy, GroupMaxRpm} \subseteq Nat
    /\ Strikes \in Nat \ {0}

VARIABLES
    watch,     \* price_watches
    schedule,  \* price_watch_schedules
    group,     \* proxy_groups: working proxies, 0 unverified or without a group
    limit,     \* the effective limit of each member
    budget,    \* sharedMaxRpm of the policy document, which workers poll by
    job,       \* what each worker job is checking
    lock,      \* the member who holds the advisory locks, and the slots read
    deleting,  \* the deletion between its reads and its commit: one at a time
    dropping,  \* schedules deleteProxyGroup read before its transaction
    owed       \* history: members whose limit went down unreconciled

rows == <<watch, schedule>>
vars == <<rows, group, limit, budget, job, lock, deleting, dropping, owed>>

Transport == {"shared"} \cup GroupOwner
Key       == Item \X Transport

\* seen (history): the last price polled while the watch was active.
\* moved (history): updatePriceWatch changed its transport since activation.
WatchRow == [status : {"active", "paused", "stopped"}, via : Transport, rate : Rate \cup {SlowRate},
             armed : BOOLEAN, seen : Price \cup {0}, moved : BOOLEAN]
ScheduleRow == [availability : {"pending", "active", "unavailable"}, missed : 0..Strikes,
                price : Price \cup {0}, token : Job \cup {None}]
\* late (history): an activation reset the schedule during the check.
Check    == [key : Key, late : BOOLEAN]
Deletion == [of : Booking, last : BOOLEAN, lastOfItem : BOOLEAN]
Hold     == [user : User, room : Nat]

ASSUME NoneAssumption ==
    None \notin Job /\ None \notin WatchRow /\ None \notin ScheduleRow /\ None \notin Check

KeyOf(b, row) == <<b[2], row.via>>
On(w, k)      == {b \in Booking : w[b] # None /\ KeyOf(b, w[b]) = k}
Active(w)     == {b \in Booking : w[b] # None /\ w[b].status = "active"}
ActiveOf(u)   == {b \in Active(watch) : b[1] = u}
Unlocked(bs)  == deleting # None => deleting.of \notin bs  \* no row lock to wait for
NewSchedule   == [availability |-> "pending", missed |-> 0, price |-> 0,
                  token |-> None]

Init ==
    /\ watch = [b \in Booking |-> None]
    /\ schedule = [k \in Key |-> None]
    /\ group = [u \in GroupOwner |-> 0]
    /\ limit \in [User -> Limit]
    /\ budget = SharedMaxRpm
    /\ job = [j \in Job |-> None]
    /\ lock = None
    /\ deleting = None
    /\ dropping = [u \in GroupOwner |-> None]
    /\ owed = [u \in User |-> FALSE]

-----------------------------------------------------------------------------
(* resolveSchedule *)

Using(w, via) == {b \in Active(w) : w[b].via = via}

\* The sums of rates, as numbers of checks: a shared schedule makes those of its
\* fastest active watch, of which the others' are a part; over a group each
\* watch counts for itself.
SharedRate(w)     == Cardinality(UNION {{b[2]} \X (1..w[b].rate) : b \in Using(w, "shared")})
GroupRate(w, via) == Cardinality(UNION {{b} \X (1..w[b].rate) : b \in Using(w, via)})

Fastest(w, bs) == IF bs = {} THEN 0 ELSE Max({w[b].rate : b \in bs})

\* Mutant: a watch of the same schedule is not counted as a booking of it.
Projected_Free(w, b, via, rate) ==
    LET others == [w EXCEPT ![b] = None]
        same   == On(others, <<b[2], via>>) \cap Active(others)
    IN IF same # {} THEN SharedRate(others)
       ELSE SharedRate(others) + rate

\* The shared rate with b booked: the schedule keeps its faster rate.
Projected(w, b, via, rate) ==
    LET others == [w EXCEPT ![b] = None]
        same   == On(others, <<b[2], via>>) \cap Active(others)
        old    == Fastest(others, same)
    IN SharedRate(others) - old + Max({old, rate})

\* What admits a watch: the shared budget, or a verified group with room.
Fits(w, b, via, rate) ==
    IF via = "shared" THEN Projected(w, b, via, rate) <= SharedMaxRpm
    ELSE /\ b[1] = via /\ group[via] > 0
         /\ GroupRate([w EXCEPT ![b] = None], via) + rate
              <= Min({GroupMaxRpm, group[via] * RpmPerProxy})

Upserted(s, ks) == [k \in Key |-> IF k \in ks /\ s[k] = None THEN NewSchedule ELSE s[k]]

-----------------------------------------------------------------------------
(* Activation: under the advisory locks of the member and of the capacity. *)

\* What getEffectivePriceWatchLimit leaves to the member.
Slots(u) == limit[u] - Min({limit[u], Cardinality(ActiveOf(u))})

\* Mutant: one watch more than the limit is let in.
Admit_OffByOne(u) ==
    /\ lock = None
    /\ lock' = [user |-> u, room |-> Slots(u) + 1]
    /\ UNCHANGED <<rows, group, limit, budget, job, deleting, dropping, owed>>

\* assertPriceWatchSlot reads the limit and the count; the write comes later.
Admit(u) ==
    /\ lock = None
    /\ Slots(u) > 0
    /\ lock' = [user |-> u, room |-> Slots(u)]
    /\ UNCHANGED <<rows, group, limit, budget, job, deleting, dropping, owed>>

\* A refusal or an error rolls the transaction back.
Refuse ==
    /\ lock # None
    /\ lock' = None
    /\ UNCHANGED <<rows, group, limit, budget, job, deleting, dropping, owed>>

\* Mutant: a watch keeps the arming it had when it was paused.
Activated_Armed(w, bs) ==
    [b \in Booking |-> IF b \in bs THEN [w[b] EXCEPT !.status = "active", !.seen = 0,
                                                     !.moved = FALSE]
                       ELSE w[b]]

Activated(w, bs) ==
    [b \in Booking |-> IF b \in bs THEN [w[b] EXCEPT !.status = "active", !.armed = FALSE,
                                                     !.seen = 0, !.moved = FALSE]
                       ELSE w[b]]

\* Mutant: the claim of a running check survives.
Reset_Claimed(s, ks) ==
    [k \in Key |-> IF k \in ks THEN [s[k] EXCEPT !.availability = "pending", !.missed = 0]
                   ELSE s[k]]

\* Mutant: the schedule stays as unavailable as it was.
Reset_Unavailable(s, ks) ==
    [k \in Key |-> IF k \in ks THEN [s[k] EXCEPT !.missed = 0, !.token = None]
                   ELSE s[k]]

Reset(s, ks) ==
    [k \in Key |-> IF k \in ks THEN [s[k] EXCEPT !.availability = "pending", !.missed = 0,
                                                 !.token = None]
                   ELSE s[k]]

Overtake(ks) == job' = [j \in Job |-> IF job[j] # None /\ job[j].key \in ks
                                      THEN [job[j] EXCEPT !.late = TRUE] ELSE job[j]]

\* Activate the watches bs, with the rows of w, and release the locks.
Activate(w, bs) ==
    LET ks == {KeyOf(b, w[b]) : b \in bs} IN
    /\ Cardinality(bs) <= lock.room
    /\ Unlocked(bs)
    /\ watch' = Activated(w, bs)
    /\ schedule' = Reset(Upserted(schedule, ks), ks)
    /\ Overtake(ks)
    /\ lock' = None
    /\ UNCHANGED <<group, limit, budget, deleting, dropping, owed>>

createPriceWatch(b, via, rate) ==
    /\ lock # None /\ lock.user = b[1]
    /\ b \notin Active(watch)
    /\ Fits(watch, b, via, rate)
    /\ Activate([watch EXCEPT ![b] = [status |-> "paused", via |-> via, rate |-> rate,
                     armed |-> watch[b] # None /\ watch[b].armed,
                     seen |-> 0, moved |-> FALSE]], {b})

resumePriceWatch(b) ==
    /\ lock # None /\ lock.user = b[1]
    /\ watch[b] # None /\ b \notin Active(watch)
    /\ Fits(watch, b, watch[b].via, watch[b].rate)
    /\ Activate(watch, {b})

\* Newest first, each as far as slots and capacity go.  Rates only add up, so
\* a set is admitted one by one iff each of its watches fits beside the others.
startAllPriceWatches(u) ==
    /\ lock # None /\ lock.user = u
    /\ LET idle == {b \in Booking : b[1] = u /\ watch[b] # None} \ Active(watch)
           fits(bs, b) == Fits(Activated(watch, bs), b, watch[b].via, watch[b].rate)
       IN \E bs \in SUBSET idle :
            /\ \A b \in bs : fits(bs, b)
            /\ Cardinality(bs) = lock.room \/ \A b \in idle \ bs : ~fits(bs, b)
            /\ Activate(watch, bs)

\* setExtensionPriceWatchStatus: the slot is checked, the capacity is not.
resumeFromExtension(b) ==
    /\ lock # None /\ lock.user = b[1]
    /\ watch[b] # None /\ b \notin Active(watch)
    /\ Activate(watch, {b})

-----------------------------------------------------------------------------
(* The other actions of a member *)

\* The schedule keeps its availability, its count and its running check.
updatePriceWatch(b, via, rate) ==
    /\ lock = None
    /\ watch[b] # None /\ Unlocked({b})
    /\ Fits(watch, b, via, rate)
    /\ schedule' = Upserted(schedule, {<<b[2], via>>})
    /\ watch' = [watch EXCEPT ![b].via = via, ![b].rate = rate,
                              ![b].armed = @ /\ via = watch[b].via,
                              ![b].seen = IF via = watch[b].via THEN @ ELSE 0,
                              ![b].moved = @ \/ (b \in Active(watch) /\ via # watch[b].via)]
    /\ UNCHANGED <<group, limit, budget, job, lock, deleting, dropping, owed>>

\* The rows bs put to rest; a pause of the member's own keeps them armed.
Rested(bs, status, disarm) ==
    [b \in Booking |-> IF b \in bs
        THEN [watch[b] EXCEPT !.status = status, !.armed = @ /\ ~disarm,
                              !.seen = 0, !.moved = FALSE]
        ELSE watch[b]]

\* Pause one watch (control center or extension) or all of them.
Pause(u, bs) ==
    /\ lock = None
    /\ bs # {} /\ bs \subseteq ActiveOf(u) /\ Unlocked(bs)
    /\ watch' = Rested(bs, "paused", FALSE)
    /\ UNCHANGED <<schedule, group, limit, budget, job, lock, deleting, dropping, owed>>

pausePriceWatch(b)     == Pause(b[1], {b})
pauseFromExtension(b)  == Pause(b[1], {b})
stopAllPriceWatches(u) == Pause(u, ActiveOf(u))

\* deletePriceWatch takes no advisory lock: it deletes the row, unseen until
\* the commit, and counts the watches that others have committed.
deletePriceWatch(b) ==
    /\ watch[b] # None /\ deleting = None
    /\ deleting' = [of |-> b, last |-> On(watch, KeyOf(b, watch[b])) = {b},
                    lastOfItem |-> {c \in Booking : c[2] = b[2] /\ watch[c] # None} = {b}]
    /\ UNCHANGED <<rows, group, limit, budget, job, lock, dropping, owed>>

deleteExtensionPriceWatch(b) == deletePriceWatch(b)

\* The schedule may not go while another watch references it; an item takes
\* all the watches that reference it along.
commitDelete ==
    LET b == deleting.of
        k == KeyOf(b, watch[b])
        gone == IF deleting.lastOfItem THEN {c \in Booking : c[2] = b[2]} ELSE {b} IN
    /\ deleting # None
    /\ deleting.last => On(watch, k) = {b}
    /\ watch' = [c \in Booking |-> IF c \in gone THEN None ELSE watch[c]]
    /\ schedule' = [q \in Key |-> IF \/ q = k /\ deleting.last
                                     \/ q[1] = b[2] /\ deleting.lastOfItem
                                  THEN None ELSE schedule[q]]
    /\ deleting' = None
    /\ UNCHANGED <<group, limit, budget, job, lock, dropping, owed>>

\* A foreign key or a deadlock with a worker rolls it back.
failDelete ==
    /\ deleting # None
    /\ deleting' = None
    /\ UNCHANGED <<rows, group, limit, budget, job, lock, dropping, owed>>

-----------------------------------------------------------------------------
(* The administrator *)

\* A limit is written: it is the effective one of those without a nearer one.
setPriceWatchLimit(us, n) ==
    /\ \E u \in us : n # limit[u]
    /\ limit' = [u \in User |-> IF u \in us THEN n ELSE limit[u]]
    /\ owed' = [u \in User |-> owed[u] \/ (u \in us /\ n < limit[u])]
    /\ UNCHANGED <<rows, group, budget, job, lock, deleting, dropping>>

setGlobalPriceWatchLimit(us, n) == setPriceWatchLimit(us, n)
setUserPriceWatchLimit(u, n)    == setPriceWatchLimit({u}, n)

\* reconcilePriceWatchLimits, without the advisory locks: it cannot see a
\* watch whose activation has not committed.
reconcilePriceWatchLimits(u) ==
    \E bs \in SUBSET ActiveOf(u) :
      /\ Cardinality(ActiveOf(u) \ bs) = Min({limit[u], Cardinality(ActiveOf(u))})
      /\ Unlocked(bs)
      /\ watch' = Rested(bs, "paused", TRUE)
      /\ owed' = [owed EXCEPT ![u] = @ /\ lock # None /\ lock.user = u]
      /\ UNCHANGED <<schedule, group, limit, budget, job, lock, deleting, dropping>>

\* The watches of members whose role loses Price Watch, or proxy groups.
Impact(us, transports) == {b \in Active(watch) : b[1] \in us /\ watch[b].via \in transports}

applyFeaturePolicyChanges(us, transports) ==
    LET bs == Impact(us, transports) IN
    /\ bs # {} /\ Unlocked(bs)
    /\ watch' = Rested(bs, "paused", TRUE)
    /\ UNCHANGED <<schedule, group, limit, budget, job, lock, deleting, dropping, owed>>

\* updatePriceWatchRuntimeSettings writes the policy document alone.
updatePriceWatchRuntimeSettings(rpm) ==
    /\ budget' = rpm
    /\ UNCHANGED <<rows, group, limit, job, lock, deleting, dropping, owed>>

-----------------------------------------------------------------------------
(* Proxy groups *)

Regroup(u, n) ==
    /\ n # group[u]
    /\ group' = [group EXCEPT ![u] = n]
    /\ UNCHANGED <<rows, limit, budget, job, lock, deleting, dropping, owed>>

\* A new list of proxies, or a check that starts, leaves the group unverified.
updateProxyGroup(u)     == Regroup(u, 0)
startProxyGroupCheck(u) == Regroup(u, 0)
\* The worker reports the check.
completeProxyCheck(u, n) == Regroup(u, n)

SchedulesOf(u) == {k \in Key : k[2] = u /\ schedule[k] # None}

\* deleteProxyGroup reads the schedules of the group before its transaction.
deleteProxyGroup(u) ==
    /\ SchedulesOf(u) # {} /\ dropping[u] = None
    /\ dropping' = [dropping EXCEPT ![u] = SchedulesOf(u)]
    /\ UNCHANGED <<rows, group, limit, budget, job, lock, deleting, owed>>

\* The watches of those schedules fall back to the shared ones; the
\* transaction fails if such a schedule went, or a new one came.
commitDeleteGroup(u) ==
    LET gone   == dropping[u]
        rested == {b \in Booking : watch[b] # None /\ KeyOf(b, watch[b]) \in gone} IN
    /\ gone # None
    /\ Unlocked(rested)
    /\ dropping' = [dropping EXCEPT ![u] = None]
    /\ IF gone = SchedulesOf(u)
       THEN /\ watch' = [b \in Booking |-> IF b \in rested
                  THEN [Rested(rested, "paused", TRUE)[b] EXCEPT !.via = "shared", !.rate = SlowRate]
                  ELSE watch[b]]
            /\ schedule' = [k \in Key |-> IF k \in gone THEN None
                  ELSE Upserted(schedule, {<<g[1], "shared">> : g \in gone})[k]]
            /\ group' = [group EXCEPT ![u] = 0]
       ELSE UNCHANGED <<rows, group>>
    /\ UNCHANGED <<limit, budget, job, lock, deleting, owed>>

-----------------------------------------------------------------------------
(* The workers *)

\* A lease may have run out whenever another job asks.
ClaimPriceWatchTargets(j, k) ==
    /\ job[j] = None
    /\ schedule[k] # None
    /\ schedule[k].availability # "unavailable"
    /\ On(watch, k) \cap Active(watch) # {}
    /\ schedule' = [schedule EXCEPT ![k].token = j]
    /\ job' = [job EXCEPT ![j] = [key |-> k, late |-> FALSE]]
    /\ UNCHANGED <<watch, group, limit, budget, lock, deleting, dropping, owed>>

\* The claim still carries the token of the job.
Mine(j) == schedule[job[j].key] # None /\ schedule[job[j].key].token = j
Subscribers(k) == {b \in On(watch, k) \cap Active(watch) : watch[b].armed}

Answered(s) == [s EXCEPT !.token = None]

\* A drop below the price of the schedule goes to its Subscribers.
ApplyPriceWatchObservation(j, p) ==
    LET k == job[j].key
        polled == On(watch, k) \cap Active(watch) IN
    /\ job[j] # None /\ Mine(j)
    /\ Unlocked(polled)
    /\ schedule' = [schedule EXCEPT ![k] =
           [Answered(@) EXCEPT !.availability = "active", !.missed = 0, !.price = p]]
    /\ watch' = [b \in Booking |-> IF b \in polled
                     THEN [watch[b] EXCEPT !.armed = TRUE, !.seen = p] ELSE watch[b]]
    /\ job' = [job EXCEPT ![j] = None]
    /\ UNCHANGED <<group, limit, budget, lock, deleting, dropping, owed>>

RecordPriceWatchUnavailable(j) ==
    LET k == job[j].key
        missed  == schedule[k].missed + 1
        stopped == IF missed >= Strikes THEN On(watch, k) \cap Active(watch) ELSE {} IN
    /\ job[j] # None /\ Mine(j)
    /\ Unlocked(stopped)
    /\ schedule' = [schedule EXCEPT ![k] =
           [Answered(schedule[k]) EXCEPT !.missed = missed,
                !.availability = IF missed >= Strikes THEN "unavailable" ELSE @]]
    /\ watch' = Rested(stopped, "stopped", TRUE)
    /\ job' = [job EXCEPT ![j] = None]
    /\ UNCHANGED <<group, limit, budget, lock, deleting, dropping, owed>>

RecordPriceWatchError(j) ==
    /\ job[j] # None /\ Mine(j)
    /\ schedule' = [schedule EXCEPT ![job[j].key] = [Answered(@) EXCEPT !.missed = 0]]
    /\ job' = [job EXCEPT ![j] = None]
    /\ UNCHANGED <<watch, group, limit, budget, lock, deleting, dropping, owed>>

\* The token no longer matches, the write fails, or the worker dies.
DropResult(j) ==
    /\ job[j] # None
    /\ job' = [job EXCEPT ![j] = None]
    /\ UNCHANGED <<rows, group, limit, budget, lock, deleting, dropping, owed>>

-----------------------------------------------------------------------------

Next ==
    \/ \E u \in User : Admit(u) \/ startAllPriceWatches(u) \/ stopAllPriceWatches(u)
                       \/ reconcilePriceWatchLimits(u)
    \/ Refuse
    \/ \E us \in SUBSET User :
         \/ \E n \in Limit : setGlobalPriceWatchLimit(us, n)
         \/ \E ts \in {Transport, GroupOwner} : applyFeaturePolicyChanges(us, ts)
    \/ \E u \in User, n \in Limit : setUserPriceWatchLimit(u, n)
    \/ \E rpm \in Budget : updatePriceWatchRuntimeSettings(rpm)
    \/ \E b \in Booking, via \in Transport, r \in Rate :
         createPriceWatch(b, via, r) \/ updatePriceWatch(b, via, r)
    \/ \E b \in Booking :
         \/ resumePriceWatch(b) \/ resumeFromExtension(b) \/ pausePriceWatch(b)
         \/ pauseFromExtension(b) \/ deletePriceWatch(b) \/ deleteExtensionPriceWatch(b)
    \/ commitDelete \/ failDelete
    \/ \E u \in GroupOwner :
         \/ updateProxyGroup(u) \/ startProxyGroupCheck(u)
         \/ \E n \in 0..MaxWorking : completeProxyCheck(u, n)
         \/ deleteProxyGroup(u) \/ commitDeleteGroup(u)
    \/ \E j \in Job :
         \/ \E k \in Key : ClaimPriceWatchTargets(j, k)
         \/ \E p \in Price : ApplyPriceWatchObservation(j, p)
         \/ RecordPriceWatchUnavailable(j) \/ RecordPriceWatchError(j) \/ DropResult(j)

Spec == Init /\ [][Next]_vars

-----------------------------------------------------------------------------
(* Properties *)

\* The tables have their columns' types: no schedule counts more misses than
\* stop it, and a watch references a schedule that exists, the shared one or
\* that of the member's own group, whatever deletions overlap.
TypeOK ==
    /\ watch \in [Booking -> WatchRow \cup {None}]
    /\ \A b \in Booking : watch[b] # None =>
         schedule[KeyOf(b, watch[b])] # None /\ watch[b].via \in {"shared", b[1]}
    /\ schedule \in [Key -> ScheduleRow \cup {None}]
    /\ group \in [GroupOwner -> 0..MaxWorking]
    /\ limit \in [User -> Limit] /\ budget \in Budget \cup {SharedMaxRpm}
    /\ job \in [Job -> Check \cup {None}]
    /\ lock \in Hold \cup {None}
    /\ deleting \in Deletion \cup {None}
    /\ dropping \in [GroupOwner -> (SUBSET Key) \cup {None}]
    /\ owed \in [User -> BOOLEAN]

\* The price a drop is measured from was polled while the watch it goes to was
\* active, since its last activation and over its present transport: a paused,
\* moved or shared-with-others watch is never told of a drop it did not see.
DropWasSeen ==
    \A k \in Key : \A b \in Subscribers(k) : watch[b].seen = schedule[k].price

\* While its transport is the one it was activated on, an active watch is on a
\* schedule that workers still claim: stopping a schedule and activating a
\* watch of it, in any order, never leave a watch active and unpolled.
ActiveIsPolled ==
    \A b \in Active(watch) : ~watch[b].moved =>
      schedule[KeyOf(b, watch[b])].availability # "unavailable"

\* A check that an activation overtook changes nothing when its result comes:
\* it neither counts as a miss nor stops or arms the reactivated watch.
LateResultIgnored ==
    [][\A j \in Job : job[j] # None /\ job[j].late /\ job'[j] = None => UNCHANGED rows]_vars

\* Once a lowered limit was reconciled while no activation of the member was
\* under way, the member has no more active watches than the limit.
LimitKept ==
    \A u \in User : ~owed[u] => Cardinality(ActiveOf(u)) <= limit[u]

\* What the control center admits to the shared transport, one watch or all of
\* a member's, leaves the sum of the schedules' fastest rates within the budget
\* that admission reads.
AdmittedWithinBudget ==
    [][(\E b \in Booking, r \in Rate :
            \/ createPriceWatch(b, "shared", r)
            \/ updatePriceWatch(b, "shared", r)
            \/ resumePriceWatch(b) /\ watch[b].via = "shared"
            \/ startAllPriceWatches(b[1]) /\ b \in Using(watch', "shared") \ Active(watch))
       => SharedRate(watch') <= SharedMaxRpm]_vars

\* docs/configuration.md: "Runtime floors and request budgets live under
\* Admin -> Operations -> Price Watch": what is admitted is within the budget
\* of the policy that page saves.  createPriceWatch reads another setting.
AdmittedWithinPolicy ==
    [][\A b \in Booking : b \notin Active(watch) /\ b \in Active(watch')
         /\ watch'[b].via = "shared" => SharedRate(watch') <= budget]_vars

\* docs/browser-extension-privacy.md: "deleting a Price Watch requires a
\* deliberate click": only the deletion of a watch removes it.
DeletedByOwner ==
    [][\A b \in Booking : watch[b] # None /\ watch'[b] = None => deleting.of = b]_vars
=============================================================================
