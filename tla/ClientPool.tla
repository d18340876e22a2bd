----------------------------- MODULE ClientPool -----------------------------
(***************************************************************************)
(* The pool of HTTP clients, one per proxy, that the requests of a region  *)
(* share: borrowing and reporting, quarantine, replacement in the          *)
(* background, the reconciliation with a list of proxies that changes, and *)
(* the catalog fetch that sends further requests while the first is slow.  *)
(*                                                                         *)
(*   apps/worker/internal/scraper/client_pool.go                           *)
(*   apps/worker/internal/scraper/proxy_failure.go  when to replace        *)
(*   apps/worker/internal/scraper/hedged_fetch.go   fetchCatalogHedged     *)
(*   apps/worker/internal/proxy/manager.go          the list of proxies    *)
(*                                                                         *)
(* Every step is one section under the pool's lock.  A pointer to a Client *)
(* is its proxy and a generation; a slot is a clientState in p.states.     *)
(* The manager's list of proxies is replaced by another task at any        *)
(* moment, so each step that draws from it draws from any list.            *)
(* Time is left out: a quarantine ends at any moment, and the cooldown and *)
(* the pacing of a client, which may refuse it to any request, leave no    *)
(* trace.  So are latencies: any client may have the best score.           *)
(***************************************************************************)
EXTENDS Naturals, FiniteSets, Sequences

CONSTANTS
    Proxy, Slot, Fetch,
    Keeper,          \* the tasks that call EnsureSize
    Size,            \* the pool size they ask for
    MaxInFlight,     \* SetMaxInFlightPerClient, 0 for no limit
    QuarantineAfter, \* SetQuarantineFailureThreshold
    MaxAttempts,     \* CATALOG_MAX_ATTEMPTS
    Generations,     \* bound: clients of one proxy somebody still points to
    None

ASSUME PoolAssumption ==
    /\ IsFiniteSet(Fetch) /\ IsFiniteSet(Proxy) /\ Slot \cap Keeper = {}
    /\ Size \in Nat \ {0} /\ MaxInFlight \in Nat /\ MaxAttempts \in Nat \ {0}
    /\ QuarantineAfter \in Nat \ {0} /\ Generations \in Nat \ {0}
    /\ Proxy \cap {None, "reserving"} = {} /\ None # "reserving"

VARIABLES
    slot,         \* p.states: None for a slot that is not in it
    swap,         \* the goroutine of Replace that holds a slot
    quarantined, reserved, resizing,
    keeper,       \* the EnsureSize a task is in
    fetch         \* the catalog fetches and the requests they have sent

pool == <<slot, swap, quarantined, reserved, resizing>>
vars == <<pool, keeper, fetch>>

Client    == Proxy \X (1..Generations)
Exit(c)   == c[1]
FailCap   == IF QuarantineAfter > 2 THEN QuarantineAfter ELSE 2

State == [client : Client, failures : 0..FailCap,
          inFlight : Nat,
          replacing : BOOLEAN, retiring : BOOLEAN]

\* sent: requests under way.  condemned: reported, and about to be replaced.
\* results: of the reported requests, in the order of the channel.
FetchState ==
    [running : BOOLEAN, attempted : SUBSET Client,
     sent : SUBSET Client, condemned : SUBSET Client,
     results : Seq(BOOLEAN), armed : BOOLEAN]

KeeperState ==
    [at : {"idle", "growing"}, size : 0..Size, failed : SUBSET Proxy, proxy : {None}]
    \cup [at : {"making"}, size : 0..Size, failed : SUBSET Proxy, proxy : Proxy]

NewState(c) == [client |-> c, failures |-> 0, inFlight |-> 0,
                replacing |-> FALSE, retiring |-> FALSE]
NoFetch == [running |-> FALSE, attempted |-> {}, sent |-> {},
            condemned |-> {}, results |-> <<>>, armed |-> FALSE]
Idle    == [at |-> "idle", size |-> 0, failed |-> {}, proxy |-> None]

States    == {s \in Slot : slot[s] # None}
Available == {s \in States : ~slot[s].retiring}
ExitsOf(ss) == {Exit(slot[s].client) : s \in ss}

\* findState
Find(c)   == {s \in States : slot[s].client = c}

\* NewClientPool: the clients it could make of the manager's proxies.  Other
\* pools draw from the same manager meanwhile, and a new list starts it over:
\* two clients may get one proxy.  A pool made without proxies, which has one
\* direct client, is left out.
Init ==
    /\ slot \in [Slot -> {None} \cup {NewState(c) : c \in Client}]
    /\ \A s, t \in States : slot[s] = slot[t] => s = t
    /\ \A s \in States, n \in 1..Generations :
          n < slot[s].client[2] => Find(<<Exit(slot[s].client), n>>) # {}
    /\ Cardinality(States) <= Size
    /\ swap = [s \in Slot |-> None]
    /\ quarantined = {} /\ reserved = {} /\ resizing = FALSE
    /\ keeper = [k \in Keeper |-> Idle]
    /\ fetch = [f \in Fetch |-> NoFetch]

\* A client that nobody points to.
Known(c) == \/ Find(c) # {}
            \/ \E f \in Fetch : c \in fetch[f].attempted \cup fetch[f].sent
                                        \cup fetch[f].condemned
NewClient(p) == {c \in {p} \X (1..Generations) :
                    /\ ~Known(c)
                    /\ \A n \in 1..(c[2] - 1) : Known(<<p, n>>)}

\* NextExcluding, from wherever the round robin stands, and of any list: a
\* new one may be loaded at any moment.
NextExcluding(list, ps) == list \ ps

QuarantineEnds(p) ==
    /\ p \in quarantined
    /\ quarantined' = quarantined \ {p}
    /\ UNCHANGED <<slot, swap, reserved, resizing, keeper, fetch>>

-----------------------------------------------------------------------------
(* Borrowing a client *)

\* Whom AcquireExcluding and AcquireRoundRobin may choose.
Eligible(excluded) ==
    {s \in Available :
        /\ slot[s].client \notin excluded
        /\ ~slot[s].replacing
        /\ MaxInFlight > 0 => slot[s].inFlight < MaxInFlight
        /\ Exit(slot[s].client) \notin quarantined}

Acquire(s) == slot' = [slot EXCEPT ![s].inFlight = @ + 1]

Attempt(F, c) == [F EXCEPT !.attempted = @ \cup {c}, !.sent = @ \cup {c}]

\* Rearmed until as many requests were sent as may be.
Armed(F) == Cardinality(F.attempted) < MaxAttempts

\* The first request of a fetch, which waits until a client is free.  That
\* the pool may have fewer clients than MaxAttempts, and that hedging may be
\* switched off, adds nothing to the refusals of LaunchNext.
FetchBegins(f) ==
    /\ ~fetch[f].running /\ fetch[f].sent = {} /\ fetch[f].condemned = {}
    /\ \E s \in Eligible({}) :
          /\ Acquire(s)
          /\ fetch' = [fetch EXCEPT ![f] =
               Attempt([NoFetch EXCEPT !.running = TRUE, !.armed = TRUE],
                       slot[s].client)]
    /\ UNCHANGED <<swap, quarantined, reserved, resizing, keeper>>

-----------------------------------------------------------------------------
(* Report *)

Failures == {"server", "network", "blocked", "proxyAuth"}

\* failurePolicyWithQuarantineThreshold: whether the n-th failure in a row
\* quarantines the proxy and replaces the client.
Replaces(failure, n) ==
    \/ failure = "proxyAuth"
    \/ failure = "blocked" /\ n >= QuarantineAfter
    \/ failure = "network" /\ n >= QuarantineAfter /\ n >= 2

\* A request is over; the last one of a retiring client takes it away.
Returned(s) ==
    LET n == IF slot[s].inFlight > 0 THEN slot[s].inFlight - 1 ELSE 0
    IN IF slot[s].retiring /\ n = 0 THEN None
       ELSE [slot[s] EXCEPT !.inFlight = n]

\* What a fetch gets to know of it; nobody listens when it is over.
Sends(F, ok) == IF F.running THEN [F EXCEPT !.results = Append(@, ok)] ELSE F

Answered(f, c, ok) ==
    fetch' = [fetch EXCEPT ![f] = Sends([fetch[f] EXCEPT !.sent = @ \ {c}], ok)]

\* The answer of a client that was replaced, or that leaves with it, counts
\* for nothing in the pool; nor does a request that was cancelled.
ReportIgnored(f, c) ==
    /\ c \in fetch[f].sent
    /\ slot' = [s \in Slot |-> IF s \in Find(c) THEN Returned(s) ELSE slot[s]]
    /\ \E ok \in BOOLEAN :
          /\ ok => \A s \in Find(c) : Returned(s) = None
          /\ Answered(f, c, ok)
    /\ UNCHANGED <<swap, quarantined, reserved, resizing, keeper>>

ReportSuccess(f, c) ==
    /\ c \in fetch[f].sent
    /\ \E s \in Find(c) :
          /\ Returned(s) # None
          /\ slot' = [slot EXCEPT ![s] =
               [Returned(s) EXCEPT !.failures = 0]]
    /\ quarantined' = quarantined \ {Exit(c)}
    /\ Answered(f, c, TRUE)
    /\ UNCHANGED <<swap, reserved, resizing, keeper>>

\* Replace is called after the lock was given back.
ReportFailure(f, c) ==
    /\ c \in fetch[f].sent
    /\ \E s \in Find(c), failure \in Failures :
          LET n == IF slot[s].failures < FailCap THEN slot[s].failures + 1
                   ELSE FailCap IN
          /\ Returned(s) # None
          /\ slot' = [slot EXCEPT ![s] =
               [Returned(s) EXCEPT !.failures = n]]
          /\ IF Replaces(failure, n)
             THEN /\ quarantined' = quarantined \cup {Exit(c)}
                  /\ fetch' = [fetch EXCEPT ![f].sent = @ \ {c},
                                            ![f].condemned = @ \cup {c}]
             ELSE /\ UNCHANGED quarantined
                  /\ Answered(f, c, FALSE)
    /\ UNCHANGED <<swap, reserved, resizing, keeper>>

-----------------------------------------------------------------------------
(* Replace: it marks the slot and leaves the rest to a goroutine, which      *)
(* reserves a proxy, connects without the lock, and installs the client.     *)

Replaceable(s) == ~slot[s].replacing /\ ~slot[s].retiring

Replace(f, c) ==
    /\ c \in fetch[f].condemned
    /\ LET bad == {s \in Find(c) : Replaceable(s)} IN
       /\ slot' = [s \in Slot |-> IF s \in bad
                                  THEN [slot[s] EXCEPT !.replacing = TRUE]
                                  ELSE slot[s]]
       /\ swap' = [s \in Slot |-> IF s \in bad THEN "reserving" ELSE swap[s]]
    /\ fetch' = [fetch EXCEPT
         ![f] = Sends([fetch[f] EXCEPT !.condemned = @ \ {c}], FALSE)]
    /\ UNCHANGED <<quarantined, reserved, resizing, keeper>>

\* Mutant: the goroutine gives up and leaves the client marked.
Unmarked_Not(s) == slot[s]

\* The goroutine gives up; the slot may have left the pool meanwhile.
Unmarked(s) == IF slot[s] = None THEN None ELSE [slot[s] EXCEPT !.replacing = FALSE]

\* Mutant: a proxy that another goroutine is connecting to is reserved again.
Unusable_NotReserved(s) == quarantined \cup ExitsOf(States \ {s})

\* reserveReplacementProxy: what is not to be taken for the slot.
Unusable(s) == quarantined \cup reserved \cup ExitsOf(States \ {s})

SwapReserves(s) ==
    /\ swap[s] = "reserving"
    /\ \E p \in NextExcluding(Proxy, Unusable(s)) :
          /\ reserved' = reserved \cup {p}
          /\ swap' = [swap EXCEPT ![s] = p]
    /\ UNCHANGED <<slot, quarantined, resizing, keeper, fetch>>

SwapFindsNone(s) ==
    /\ swap[s] = "reserving"
    /\ \E list \in SUBSET Proxy : NextExcluding(list, Unusable(s)) = {}
    /\ swap' = [swap EXCEPT ![s] = None]
    /\ slot' = [slot EXCEPT ![s] = Unmarked(s)]
    /\ UNCHANGED <<quarantined, reserved, resizing, keeper, fetch>>

\* Mutant: the new client takes over the count of the old one's requests.
Installed_Counting(s, c) == [slot[s] EXCEPT !.client = c, !.failures = 0,
                                !.replacing = FALSE]

\* retiring is not looked at, nor reset.
Installed(s, c) == [slot[s] EXCEPT !.client = c, !.failures = 0, !.inFlight = 0,
                                   !.replacing = FALSE]

\* The goroutine ends, with a client or with an error.
SwapEnds(s) ==
    /\ swap[s] \in Proxy
    /\ reserved' = reserved \ {swap[s]}
    /\ swap' = [swap EXCEPT ![s] = None]
    /\ \/ slot' = [slot EXCEPT ![s] = Unmarked(s)]
       \/ /\ slot[s] # None
          /\ \E c \in NewClient(swap[s]) : slot' = [slot EXCEPT ![s] = Installed(s, c)]
    /\ UNCHANGED <<quarantined, resizing, keeper, fetch>>

-----------------------------------------------------------------------------
(* Reconcile, and EnsureSize which it ends in                                *)

\* A client whose proxy was removed retires, and leaves when it is idle.
Reconciled(s, allowed) ==
    IF slot[s] = None \/ Exit(slot[s].client) \in allowed THEN slot[s]
    ELSE IF slot[s].inFlight = 0 THEN None
    ELSE [slot[s] EXCEPT !.retiring = TRUE, !.replacing = FALSE]

\* The snapshot of the list was taken before the lock.
Reconcile ==
    /\ \E snapshot \in SUBSET Proxy :
          slot' = [s \in Slot |-> Reconciled(s, snapshot)]
    /\ UNCHANGED <<swap, quarantined, reserved, resizing, keeper, fetch>>

Enough(size) == Cardinality(Available) >= size

\* EnsureSize, at the end of Reconcile or, for private proxies, alone.  Size
\* is cut to the number of proxies, whatever that is.
EnsureSizeBegins(k) ==
    /\ keeper[k].at = "idle" /\ ~resizing
    /\ \E size \in 1..Size :
          /\ ~Enough(size)
          /\ keeper' = [keeper EXCEPT ![k].at = "growing", ![k].size = size]
    /\ resizing' = TRUE
    /\ UNCHANGED <<slot, swap, quarantined, reserved, fetch>>

\* A quarantined proxy is not left out.
Addable(list, k) ==
    NextExcluding(list, ExitsOf(States) \cup reserved \cup keeper[k].failed)

EnsureSizeReserves(k) ==
    /\ keeper[k].at = "growing" /\ ~Enough(keeper[k].size)
    /\ \E p \in Addable(Proxy, k) :
          /\ reserved' = reserved \cup {p}
          /\ keeper' = [keeper EXCEPT ![k].at = "making", ![k].proxy = p]
    /\ UNCHANGED <<slot, swap, quarantined, resizing, fetch>>

EnsureSizeEnds(k) ==
    /\ keeper[k].at = "growing"
    /\ \/ Enough(keeper[k].size)
       \/ \E list \in SUBSET Proxy : Addable(list, k) = {}
    /\ keeper' = [keeper EXCEPT ![k] = Idle]
    /\ resizing' = FALSE
    /\ UNCHANGED <<slot, swap, quarantined, reserved, fetch>>

\* Mutant: the reservation outlives a client that could not be made.
Released_NotFailed(p, made) == IF made THEN reserved \ {p} ELSE reserved

Released(p, made) == reserved \ {p}

\* The client was made without the lock, or could not be.
EnsureSizeAdds(k) ==
    LET p == keeper[k].proxy IN
    /\ keeper[k].at = "making"
    /\ \/ /\ \E s \in Slot \ States, c \in NewClient(p) :
                swap[s] = None /\ slot' = [slot EXCEPT ![s] = NewState(c)]
          /\ keeper' = [keeper EXCEPT ![k].at = "growing", ![k].proxy = None]
          /\ reserved' = Released(p, TRUE)
       \/ /\ keeper' = [keeper EXCEPT ![k].at = "growing", ![k].proxy = None,
                                      ![k].failed = @ \cup {p}]
          /\ reserved' = Released(p, FALSE)
          /\ UNCHANGED slot
    /\ UNCHANGED <<swap, quarantined, resizing, fetch>>

-----------------------------------------------------------------------------
(* The loop of fetchCatalogHedged                                            *)

Completed(F) == Cardinality(F.attempted \ (F.sent \cup F.condemned)) - Len(F.results)

\* The fetch returns; its requests are cancelled and report by themselves.
Over(F) == [NoFetch EXCEPT !.sent = F.sent, !.condemned = F.condemned]

\* launchNext, when it finds a client that the fetch has not tried; a timer
\* that still runs is left running.
LaunchNext(f, F) ==
    /\ Cardinality(F.attempted) < MaxAttempts
    /\ \E s \in Eligible(F.attempted) :
          LET G == Attempt(F, slot[s].client) IN
          /\ Acquire(s)
          /\ fetch' = [fetch EXCEPT ![f] = [G EXCEPT !.armed = F.armed \/ Armed(G)]]

\* The hedge timer runs out: it is armed again only if there was a client.
HedgeTimer(f) ==
    /\ fetch[f].running /\ fetch[f].armed
    /\ \/ LaunchNext(f, [fetch[f] EXCEPT !.armed = FALSE])
       \/ /\ fetch' = [fetch EXCEPT ![f].armed = FALSE]
          /\ UNCHANGED slot
    /\ UNCHANGED <<swap, quarantined, reserved, resizing, keeper>>

\* Mutant: the loop goes on while completed <= launched.
Finished_OneMore(F, ok) == ok \/ Completed(F) > Cardinality(F.attempted)

\* Whether the loop ends with this result when no further request is sent.
Finished(F, ok) == ok \/ Completed(F) = Cardinality(F.attempted)

\* A result is taken off the channel; a bad one sends the next request.
Receive(f) ==
    LET ok == Head(fetch[f].results)
        F  == [fetch[f] EXCEPT !.results = Tail(@)] IN
    /\ fetch[f].running /\ fetch[f].results # <<>>
    /\ \/ ~ok /\ LaunchNext(f, F)
       \/ /\ fetch' = [fetch EXCEPT ![f] = IF Finished(F, ok) THEN Over(F) ELSE F]
          /\ UNCHANGED slot
    /\ UNCHANGED <<swap, quarantined, reserved, resizing, keeper>>

\* ctx ends: the deadline of the fetch, or its monitor is stopped.
Deadline(f) ==
    /\ fetch[f].running
    /\ fetch' = [fetch EXCEPT ![f] = Over(@)]
    /\ UNCHANGED <<pool, keeper>>

-----------------------------------------------------------------------------

Report(f, c) == ReportIgnored(f, c) \/ ReportSuccess(f, c) \/ ReportFailure(f, c)

FetchStep(f) ==
    \/ \E c \in Client : Report(f, c) \/ Replace(f, c)
    \/ Receive(f)

KeeperStep(k) ==
    \/ EnsureSizeBegins(k) \/ EnsureSizeReserves(k)
    \/ EnsureSizeAdds(k) \/ EnsureSizeEnds(k)

Next ==
    \/ Reconcile
    \/ \E s \in Slot : SwapReserves(s) \/ SwapFindsNone(s)
                       \/ SwapEnds(s)
    \/ \E p \in Proxy : QuarantineEnds(p)
    \/ \E k \in Keeper : KeeperStep(k)
    \/ \E f \in Fetch : FetchBegins(f) \/ FetchStep(f) \/ HedgeTimer(f) \/ Deadline(f)

Spec == Init /\ [][Next]_vars

-----------------------------------------------------------------------------

TypeOK ==
    /\ slot \in [Slot -> State \cup {None}]
    /\ swap \in [Slot -> Proxy \cup {"reserving", None}]
    /\ quarantined \subseteq Proxy /\ reserved \subseteq Proxy
    /\ resizing \in BOOLEAN
    /\ keeper \in [Keeper -> KeeperState]
    /\ fetch \in [Fetch -> FetchState]

\* The count of a client's requests is right, through replacements, late
\* answers and retirement: too high a count shuts the client out, or keeps a
\* retired one for ever, and too low a one closes it under a request.
RequestsAccounted ==
    \A s \in States :
        slot[s].inFlight = Cardinality({f \in Fetch : slot[s].client \in fetch[f].sent})

\* The goroutines that are connecting to a proxy.
Connecting(p) ==
    {s \in Slot : swap[s] = p}
    \cup {k \in Keeper : keeper[k].at = "making" /\ keeper[k].proxy = p}

\* However replacements and the growth of the pool overlap, a proxy is
\* reserved exactly as long as one goroutine is connecting to it, and no other
\* client of the pool has it as its exit: a reservation that is left behind
\* takes the proxy from the pool for good, and one that is overlooked puts two
\* clients behind one address.
ExitsHeldOnce ==
    \A p \in Proxy :
        /\ p \in reserved <=> Connecting(p) # {}
        /\ \A x, y \in Connecting(p) : x = y
        /\ p \in reserved => \A s \in States :
              Exit(slot[s].client) = p => swap[s] = p

\* A client that is marked as being replaced has a goroutine that will unmark
\* it, and a goroutine is never joined by a second one for the same client.
ReplacementTracked ==
    \A s \in States :
        /\ slot[s].replacing => swap[s] # None
        /\ swap[s] # None => slot[s].replacing \/ slot[s].retiring

\* A fetch that has not returned is owed an answer, or has one to read:
\* otherwise it waits for its deadline although nothing can come.
AnswerOwed ==
    \A f \in Fetch : fetch[f].running =>
        fetch[f].sent \cup fetch[f].condemned # {} \/ fetch[f].results # <<>>
=============================================================================
