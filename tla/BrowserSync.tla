---------------------------- MODULE BrowserSync ----------------------------
(* The session sync of the browser extension (background.js): alarms, cookie *)
(* and tab events and clicks queue sync lifecycles; a lifecycle posts the    *)
(* Vinted session cookies of the linked contexts to Vintrack, refreshes the  *)
(* Vinted session when no cookie is usable, posts again and stores what came *)
(* of it.  The browser may stop the worker at any point, which loses the     *)
(* queue and the running lifecycle and keeps the storage.                    *)
(*                                                                           *)
(* Instants in storage are modelled as the ticks that are left until them.   *)
EXTENDS Integers, Sequences, SequencesExt, FiniteSetsExt

CONSTANTS
    Context,      \* domain and cookie store pairs (cookieSyncKey)
    RetryTicks,   \* BROWSER_REFRESH_RETRY_MS, also the lease of a request
    MaxRetryTicks,\* BROWSER_REFRESH_MAX_RETRY_MS
    ActionTicks,  \* BROWSER_REFRESH_ACTION_COOLDOWN_MS
    ReceiptTicks, \* SYNC_RECEIPT_TTL_MS
    FailureCap,   \* the failures counted for the backoff (7)
    RetryAfter,   \* waits Vinted asks for with a rate limit
    MaxCookies,   \* bound: values the session cookie of a context takes
    MaxTokens,    \* bound: link tokens the member connects with
    MaxQueue,     \* bound: lifecycles queued at a time
    None          \* an absent record

ASSUME BrowserSyncAssumption ==
    /\ {RetryTicks, MaxRetryTicks, ActionTicks, ReceiptTicks, FailureCap,
        MaxCookies, MaxTokens, MaxQueue} \subseteq Nat \ {0}
    /\ RetryAfter \subseteq Nat
    /\ {"alarm", "click"} \cap Context = {}
    /\ Context # {}
    /\ None \notin [failures : Nat, left : Nat, limit : BOOLEAN]

VARIABLES
    links,       \* link tokens the member connected with so far
    token,       \* browserLinkToken: the connection in storage, 0 if none
    saved,       \* syncedSessions in storage
    receipts,    \* syncReceipts in storage
    refreshes,   \* browserRefreshState in storage
    cookie,      \* access_token_web of each context: [v, st]
    queue,       \* the lifecycles queued, the running one first
    life,        \* the running lifecycle
    accepted,    \* history: the last <<token, v>> the server accepted
    limited,     \* history: ticks left of the rate limit last answered
    interrupted  \* history: ticks of the lease left of an unanswered request

storage == <<links, token, saved, receipts, refreshes>>
history == <<accepted, limited, interrupted>>
vars == <<storage, cookie, queue, life, history>>

----------------------------------------------------------------------------
Job == {"alarm", "click"} \cup Context
Receipt == [token : 0..MaxTokens, v : 1..MaxCookies, left : 0..ReceiptTicks]
Entry == [failures : 0..FailureCap, left : Nat, limit : BOOLEAN]
Cookie == [v : 1..MaxCookies, st : {"none", "expiring", "fresh"}]
Life == [pc : {"sync", "post", "refresh", "ask"}, pass : {1, 2},
         todo : SUBSET Context,   \* contexts the phase has yet to go through
         need : SUBSET Context,   \* their session needs a refresh
         done : SUBSET Context,   \* completed, or refreshed
         at : Context,            \* the context of the pending request
         token : 0..MaxTokens,    \* what performDomainSync read for it
         v : 0..MaxCookies,
         state : [Context -> Entry \cup {None}]]  \* refreshVinted...'s copy

TypeOK ==
    /\ links \in 0..MaxTokens /\ token \in {0, links}
    /\ saved \subseteq Context
    /\ receipts \in [Context -> Receipt \cup {None}]
    /\ refreshes \in [Context -> Entry \cup {None}]
    /\ cookie \in [Context -> Cookie]
    /\ queue \in Seq(Job) /\ life \in Life \cup {None}
    /\ life # None => queue # <<>>
    /\ accepted \in [Context -> (0..MaxTokens) \X (0..MaxCookies)]
    /\ limited \in [Context -> Nat] /\ interrupted \in [Context -> Nat]

Init ==
    /\ links = 0 /\ token = 0 /\ saved = {}
    /\ receipts = [c \in Context |-> None]
    /\ refreshes = [c \in Context |-> None]
    /\ cookie \in [Context -> {[v |-> 1, st |-> s] : s \in {"none", "fresh"}}]
    /\ queue = <<>> /\ life = None
    /\ accepted = [c \in Context |-> <<0, 0>>]
    /\ limited = [c \in Context |-> 0] /\ interrupted = [c \in Context |-> 0]

----------------------------------------------------------------------------
(* What starts a lifecycle.                                                  *)

(* A lifecycle with the same key that is queued or running is joined.        *)
Room(j) == j \in ToSet(queue) \/ Len(queue) < MaxQueue
Queued(j) == IF j \in ToSet(queue) THEN queue ELSE Append(queue, j)

(* The periodic alarm, and the start of the browser or the extension.        *)
Alarm ==
    /\ Room("alarm")
    /\ queue' = Queued("alarm")
    /\ UNCHANGED <<storage, cookie, life, history>>

(* The cookie of a context changed or its tab was opened: 800 ms after the   *)
(* last such event its sync is queued.                                       *)
ScheduleSync(c) ==
    /\ Room(c)
    /\ queue' = Queued(c)
    /\ UNCHANGED <<storage, cookie, life, history>>

(* VINTRACK_EXTENSION_CONNECT: the link of the member, then a sync.          *)
Connect ==
    /\ links < MaxTokens
    /\ links' = links + 1
    /\ token' = links + 1
    /\ Room("click")
    /\ queue' = Queued("click")
    /\ UNCHANGED <<saved, receipts, refreshes, cookie, life, history>>

(* VINTRACK_EXTENSION_MANUAL_SYNC *)
ManualSync ==
    /\ Room("click")
    /\ queue' = Queued("click")
    /\ UNCHANGED <<storage, cookie, life, history>>

(* VINTRACK_EXTENSION_CLEAR_LOCAL_STATE does not wait for the queue.         *)
ClearLocalExtensionState ==
    /\ token # 0
    /\ token' = 0
    /\ saved' = {}
    /\ receipts' = [c \in Context |-> None]
    /\ refreshes' = [c \in Context |-> None]
    /\ limited' = [c \in Context |-> 0]
    /\ interrupted' = [c \in Context |-> 0]
    /\ UNCHANGED <<links, cookie, queue, life, accepted>>

(* The browser stops the worker.                                             *)
WorkerStops ==
    /\ queue # <<>>
    /\ queue' = <<>> /\ life' = None
    /\ UNCHANGED <<storage, cookie, history>>

----------------------------------------------------------------------------
(* performSyncLifecycle *)

(* syncPreferredOrAllDomains: an alarm goes through the linked contexts, or  *)
(* those with a cookie; an event through its own; a click through that of    *)
(* the open tab, unless its account is not known, and with no tab open there *)
(* is one to refresh.                                                        *)
StartPass(j, n) ==
    LET pass(cs, need) ==
          [pc |-> "sync", pass |-> n, todo |-> cs, need |-> need, done |-> {},
           at |-> CHOOSE c \in Context : TRUE, token |-> 0, v |-> 0,
           state |-> [c \in Context |-> None]]
    IN CASE j = "alarm" ->
              life' = pass(IF saved # {} THEN saved
                           ELSE {c \in Context : cookie[c].st # "none"}, {})
         [] j = "click" ->
              \E c \in Context :
                  life' \in {pass({c}, {}), pass({}, {c}), pass({}, {})}
         [] OTHER -> life' = pass({j}, {})

(* persistSyncState, and the end of the lifecycle.                           *)
Persist(done) ==
    /\ saved' = IF done # {} THEN done ELSE saved
    /\ life' = None
    /\ queue' = Tail(queue)

Begin ==
    LET j == Head(queue) IN
    /\ life = None
    /\ queue # <<>>
    /\ IF token = 0 \/ (j \in Context /\ saved # {} /\ j \notin saved)
       THEN queue' = Tail(queue) /\ UNCHANGED life
       ELSE StartPass(j, 1) /\ UNCHANGED queue
    /\ UNCHANGED <<storage, cookie, history>>

Running(pc) == life # None /\ life.pc = pc
Clicked == Head(queue) = "click"

(* Mutation: the fingerprint is that of the cookie alone.                    *)
Receipted_CookieOnly(c) ==
    /\ receipts[c] # None
    /\ receipts[c].left > 0
    /\ receipts[c].v = cookie[c].v

(* The fingerprint is of the token and the cookie.                           *)
Receipted(c) ==
    /\ receipts[c] # None
    /\ receipts[c].left > 0
    /\ receipts[c].token = token
    /\ receipts[c].v = cookie[c].v

(* performDomainSync up to its request.                                      *)
SyncContext(c) ==
    LET rest == [life EXCEPT !.todo = @ \ {c}] IN
    /\ Running("sync")
    /\ c \in life.todo
    /\ life' =
         IF token = 0 THEN rest
         ELSE IF cookie[c].st # "fresh" THEN [rest EXCEPT !.need = @ \cup {c}]
         ELSE IF ~Clicked /\ Receipted(c) THEN [rest EXCEPT !.done = @ \cup {c}]
         ELSE [rest EXCEPT !.pc = "post", !.at = c, !.token = token,
                           !.v = cookie[c].v]
    /\ UNCHANGED <<storage, cookie, queue, history>>

(* Mutation: an accepted session forgets a rate limit as well.               *)
Recovers_Any(e) == e # None

(* An accepted session proves that a failed refresh has recovered.           *)
Recovers(e) == e # None /\ ~e.limit

(* The server accepts the session.  A click may have switched the account,   *)
(* so the receipts of the other contexts go.                                 *)
SyncCompleted ==
    LET c == life.at IN
    /\ Running("post")
    /\ accepted' = [accepted EXCEPT ![c] = <<life.token, life.v>>]
    /\ receipts' = [d \in Context |->
                      IF d = c THEN [token |-> life.token, v |-> life.v,
                                     left |-> ReceiptTicks]
                      ELSE IF Clicked THEN None ELSE receipts[d]]
    /\ refreshes' = IF Recovers(refreshes[c])
                    THEN [refreshes EXCEPT ![c] = None] ELSE refreshes
    /\ interrupted' = [interrupted EXCEPT ![c] = 0]
    /\ life' = [life EXCEPT !.pc = "sync", !.done = @ \cup {c}]
    /\ UNCHANGED <<links, token, saved, cookie, queue, limited>>

(* It refuses the session as invalid, fails, or does not answer in time,     *)
(* when it may have accepted the session all the same.                       *)
SyncFailed ==
    LET c == life.at IN
    /\ Running("post")
    /\ \/ /\ life' = [life EXCEPT !.pc = "sync", !.need = @ \cup {c}]
          /\ UNCHANGED accepted
       \/ /\ life' = [life EXCEPT !.pc = "sync"]
          /\ \/ UNCHANGED accepted
             \/ accepted' = [accepted EXCEPT ![c] = <<life.token, life.v>>]
    /\ UNCHANGED <<storage, cookie, queue, limited, interrupted>>

(* The pass is over: refresh, or store the outcome.                          *)
PassEnds ==
    /\ Running("sync")
    /\ life.todo = {}
    /\ IF life.pass = 1 /\ life.done = {} /\ life.need # {} /\ token # 0
       THEN /\ life' = [life EXCEPT !.pc = "refresh", !.state = refreshes,
                                    !.todo = life.need]
            /\ UNCHANGED <<saved, queue>>
       ELSE Persist(life.done)
    /\ UNCHANGED <<links, token, receipts, refreshes, cookie, history>>

----------------------------------------------------------------------------
(* refreshVintedBrowserSessions *)

Previous(c) == IF life.state[c] = None
               THEN [failures |-> 0, left |-> 0, limit |-> FALSE]
               ELSE life.state[c]

(* Mutation: a click passes a rate limit.                                    *)
Cooling_Bypassed(c) == Previous(c).left > 0 /\ ~Clicked

(* A click may retry authentication, but must respect a rate limit.          *)
Cooling(c) == Previous(c).left > 0 /\ (~Clicked \/ Previous(c).limit)

(* Mutation: the lease is kept in memory until the answer.                   *)
Leased_InMemory(state) == refreshes

(* The lease is stored before the request.                                   *)
Leased(state) == state

RefreshContext(c) ==
    LET state == [life.state EXCEPT ![c] =
                    [Previous(c) EXCEPT !.left = RetryTicks]] IN
    /\ Running("refresh")
    /\ c \in life.todo
    /\ IF Cooling(c)
       THEN /\ life' = [life EXCEPT !.todo = @ \ {c}]
            /\ UNCHANGED <<refreshes, interrupted>>
       ELSE /\ life' = [life EXCEPT !.todo = @ \ {c}, !.pc = "ask", !.at = c,
                                    !.state = state]
            /\ refreshes' = Leased(state)
            /\ interrupted' = [interrupted EXCEPT ![c] = RetryTicks]
    /\ UNCHANGED <<links, token, saved, receipts, cookie, queue, accepted,
                   limited>>

Answer(entry, ok) ==
    LET c == life.at
        state == [life.state EXCEPT ![c] = entry] IN
    /\ refreshes' = state
    /\ interrupted' = [interrupted EXCEPT ![c] = 0]
    /\ life' = [life EXCEPT !.pc = "refresh", !.state = state,
                            !.done = IF ok THEN @ \cup {c} ELSE @]
    /\ UNCHANGED <<links, token, saved, receipts, queue, accepted>>

(* The cookie changes, which the extension also hears of as an event.        *)
Rotate(c) ==
    /\ cookie[c].v < MaxCookies
    /\ cookie' = [cookie EXCEPT ![c] = [v |-> @.v + 1, st |-> "fresh"]]

Refreshed ==
    /\ Running("ask")
    /\ Rotate(life.at)
    /\ Answer(None, TRUE)
    /\ UNCHANGED limited

Least(a, b) == IF a < b THEN a ELSE b
Most(a, b) == IF a < b THEN b ELSE a

Failures(c) == Least(Previous(c).failures + 1, FailureCap)

(* A failure: the member has to act, Vinted limits the rate, or anything     *)
(* else, where the cookie may have been rotated unseen.                      *)
RefreshFailed(kind, after) ==
    LET c == life.at
        backoff == Least(RetryTicks * 2 ^ (Failures(c) - 1), MaxRetryTicks)
        delay == IF kind = "action" THEN ActionTicks ELSE Most(backoff, after)
    IN /\ Running("ask")
       /\ Answer([failures |-> Failures(c), left |-> delay,
                  limit |-> kind = "limit"], FALSE)
       /\ limited' = IF kind = "limit" THEN [limited EXCEPT ![c] = after]
                                       ELSE limited
       /\ UNCHANGED cookie \/ (kind = "other" /\ Rotate(c))

RefreshEnds ==
    /\ Running("refresh")
    /\ life.todo = {}
    /\ IF life.done # {}
       THEN StartPass(Head(queue), 2) /\ UNCHANGED <<saved, queue>>
       ELSE Persist({})
    /\ UNCHANGED <<links, token, receipts, refreshes, cookie, history>>

----------------------------------------------------------------------------
(* Around the extension.                                                     *)

(* The session of a context runs out or is closed.                           *)
SessionEnds(c, st) ==
    /\ cookie[c].v < MaxCookies
    /\ cookie[c].st = "fresh"
    /\ cookie' = [cookie EXCEPT ![c].st = st]
    /\ UNCHANGED <<storage, queue, life, history>>

(* The member signs in, or the open Vinted page renews its session.          *)
SignIn(c) ==
    /\ Rotate(c)
    /\ UNCHANGED <<storage, queue, life, history>>

Sooner(e) == IF e = None THEN None ELSE [e EXCEPT !.left = Most(@ - 1, 0)]
SoonerAll(f) == [c \in Context |-> Sooner(f[c])]
CountDown(f) == [c \in Context |-> Most(f[c] - 1, 0)]

(* Time passes.  An instant held by the running lifecycle comes nearer too.  *)
Tick ==
    /\ receipts' = SoonerAll(receipts)
    /\ refreshes' = SoonerAll(refreshes)
    /\ life' = IF life = None THEN None
               ELSE [life EXCEPT !.state = SoonerAll(@)]
    /\ limited' = CountDown(limited)
    /\ interrupted' = CountDown(interrupted)
    /\ UNCHANGED <<links, token, saved, cookie, queue, accepted>>

----------------------------------------------------------------------------
Trigger ==
    \/ Alarm
    \/ Connect
    \/ ManualSync
    \/ \E c \in Context : ScheduleSync(c)

Lifecycle ==
    \/ Begin
    \/ \E c \in Context : SyncContext(c) \/ RefreshContext(c)
    \/ SyncCompleted \/ SyncFailed \/ PassEnds
    \/ Refreshed \/ RefreshEnds
    \/ RefreshFailed("action", 0) \/ RefreshFailed("other", 0)
    \/ \E after \in RetryAfter : RefreshFailed("limit", after)

Surroundings ==
    \/ ClearLocalExtensionState
    \/ WorkerStops
    \/ Tick
    \/ \E c \in Context : \/ SignIn(c)
                          \/ \E st \in {"expiring", "none"} : SessionEnds(c, st)

Next == Trigger \/ Lifecycle \/ Surroundings

Spec == Init /\ [][Next]_vars

----------------------------------------------------------------------------
(* Properties.                                                               *)

RefreshSent(c) ==
    Running("refresh") /\ life' # None /\ life'.pc = "ask" /\ life'.at = c

(* A rate limit of Vinted is waited out by every refresh of that context,    *)
(* whether a click, an event or an alarm asks for it and whatever happened   *)
(* in between: a stopped worker, a session that was accepted, a new link.    *)
RateLimitRespected ==
    [][\A c \in Context : RefreshSent(c) => limited[c] = 0]_vars

(* A refresh that a stopped worker left unanswered is not repeated by itself *)
(* before the lease of the request has run out.                              *)
InterruptedRefreshWaits ==
    [][\A c \in Context :
          RefreshSent(c) /\ ~Clicked => interrupted[c] = 0]_vars

(* A sync that is answered from a receipt would repeat the last one the      *)
(* server accepted for that context: the same link and the same session.     *)
CachedWasAccepted ==
    \A c \in Context : Receipted(c) => accepted[c] = <<token, cookie[c].v>>
=============================================================================
