------------------------------ MODULE Checkout ------------------------------
(* Buying a found item through the browser extension: the handoff page of    *)
(* the control center (lib/open-checkout.ts), the payment claim on the       *)
(* server (app/api/checkout), the extension's worker with the attempts it    *)
(* stores (background.js) and the checkout that runs inside the Vinted tab   *)
(* (page-bridge.js).                                                         *)
(*                                                                           *)
(* One member with one linked Vinted account is modelled, so the account and *)
(* the domain drop out of every key.  A worker that is stopped by the browser*)
(* loses its map of running preparations but not its storage, and a run in   *)
(* the Vinted tab goes on without it.  Checkout preferences are the limit of *)
(* an automatic payment, 0 standing for a checkout the member reviews.       *)
EXTENDS Naturals, FiniteSets, Sequences, SequencesExt

CONSTANTS
    Browser,    \* browsers with the extension installed
    Page,       \* open buy-link pages of the control center
    Host,       \* the browser a page is open in
    Item,       \* items found by the member's monitors
    Limit,      \* spending limits a member may save
    Quote,      \* totals Vinted may ask for
    MaxReview,  \* the review attempts kept in storage (100 in the source)
    MaxOpens,   \* bound: buy links the member opens
    None        \* no preparation is running

ASSUME CheckoutAssumption ==
    /\ Host \in [Page -> Browser]
    /\ Limit \subseteq Nat \ {0}
    /\ Quote \subseteq Nat
    /\ MaxReview \in Nat
    /\ MaxOpens \in Nat
    /\ None \notin [pc : {"tab", "found", "run", "await"},
                    limit : Limit \cup {0}, id : Nat]

VARIABLES
    enabled,   \* the member's checkout module is on, its warning accepted
    limit,     \* the saved preferences: 0 or an automatic payment's limit
    claimed,   \* the server's attempt markers: item -> the limit, 0 if unset
    page,      \* the handoff pages: [pc, item, limit]
    task,      \* checkoutInFlight of each browser: a preparation or None
    attempts,  \* the attempts each browser stores, newest first
    run,       \* the checkouts running inside Vinted tabs
    opened,    \* the buy links opened so far
    started,   \* preparations that reached the checkpoint (their startedAt)
    sent,      \* history: the automatic runs that sent a request, [item, id]
    floor,     \* history: the preparations started before the last clear
    paid       \* history: payment requests, as [item, quote, id]

server == <<enabled, limit, claimed>>
history == <<sent, floor, paid>>
vars == <<server, opened, page, task, attempts, run, started, history>>

----------------------------------------------------------------------------
Preference == Limit \cup {0}
Attempt == [item : Item, id : Nat, limit : Preference, url : BOOLEAN]
Task == [pc : {"tab", "found", "run", "await"}, limit : Preference,
         id : Nat]
Run == [browser : Browser, item : Item, id : Nat, limit : Preference,
        pc : {"account", "prepare", "pay", "mismatch", "failed", "ok"}]
Idle == [pc |-> "idle"]
PageState ==
    {Idle} \cup [pc : {"loaded", "ready", "authorized", "sent"},
                 item : Item, limit : Preference]

TypeOK ==
    /\ enabled \in BOOLEAN /\ limit \in Preference
    /\ claimed \in [Item -> Preference]
    /\ page \in [Page -> PageState]
    /\ task \in [Browser -> [Item -> Task \cup {None}]]
    /\ attempts \in [Browser -> Seq(Attempt)]
    /\ run \subseteq Run
    /\ opened \in 0..MaxOpens /\ started \in Nat
    /\ sent \subseteq [browser : Browser, item : Item, id : Nat]
    /\ floor \in [Browser -> Nat]
    /\ paid \subseteq [item : Item, quote : Quote, id : Nat]

Init ==
    /\ enabled = FALSE /\ limit = 0
    /\ claimed = [i \in Item |-> 0]
    /\ page = [p \in Page |-> Idle]
    /\ task = [b \in Browser |-> [i \in Item |-> None]]
    /\ attempts = [b \in Browser |-> <<>>]
    /\ run = {}
    /\ opened = 0 /\ started = 0
    /\ sent = {} /\ floor = [b \in Browser |-> 0]
    /\ paid = {}

----------------------------------------------------------------------------
(* Settings of the member.                                                   *)

(* Switching the module either way disarms the automatic payment.  It cannot *)
(* be switched on before the risk warning is accepted, which is never undone.*)
SetCheckoutModuleEnabled(on) ==
    /\ enabled' = on
    /\ limit' = 0
    /\ UNCHANGED <<claimed, opened, page, task, attempts, run,
                   started, history>>

SaveCheckoutPreferences(l) ==
    /\ enabled
    /\ limit' = l
    /\ UNCHANGED <<enabled, claimed, opened, page, task, attempts, run,
                   started, history>>

----------------------------------------------------------------------------
(* The handoff page.                                                         *)

Show(p, s) == page' = [page EXCEPT ![p] = s]

(* loadCheckoutTarget answers only while the module is enabled.              *)
OpenItemCheckout(p, i) ==
    /\ page[p] = Idle
    /\ enabled
    /\ opened < MaxOpens
    /\ opened' = opened + 1
    /\ Show(p, [pc |-> "loaded", item |-> i, limit |-> limit])
    /\ UNCHANGED <<server, task, attempts, run, started, history>>

(* The readiness probe of an automatic checkout, before its claim.           *)
CheckReadiness(p) ==
    /\ page[p].pc = "loaded"
    /\ page[p].limit # 0
    /\ Show(p, [page[p] EXCEPT !.pc = "ready"])
    /\ UNCHANGED <<server, opened, task, attempts, run, started, history>>

(* The claim is for the preferences the page shows.                          *)
(* Mutation: the preferences header is not compared.                        *)
SamePreferences_Skipped(p) == TRUE
SamePreferences(p) == limit = page[p].limit

(* Mutation: the marker is set without asking whether there is one.          *)
Claimable_Always(i) == TRUE
Claimable(i) == claimed[i] = 0

(* The page's POST: the server checks the member, then sets the marker only  *)
(* if there is none.  An answer that is lost leaves the marker behind.       *)
Authorize(p) ==
    LET i == page[p].item
        valid == enabled /\ limit # 0 /\ SamePreferences(p) IN
    /\ page[p].pc = "ready"
    /\ IF valid /\ Claimable(i)
       THEN /\ claimed' = [claimed EXCEPT ![i] = limit]
            /\ \/ Show(p, [page[p] EXCEPT !.pc = "authorized"])
               \/ Show(p, Idle)
       ELSE Show(p, Idle) /\ UNCHANGED claimed
    /\ UNCHANGED <<enabled, limit, opened, task, attempts, run, started,
                   history>>

(* One message to the worker: it starts a preparation or joins the one of    *)
(* the same item (handleBrowserBuy).                                         *)
HandleBrowserBuy(p) ==
    LET b == Host[p]
        i == page[p].item IN
    /\ \/ page[p].pc = "authorized"
       \/ page[p].pc = "loaded" /\ page[p].limit = 0
    /\ Show(p, [page[p] EXCEPT !.pc = "sent"])
    /\ task' = IF task[b][i] = None
               THEN [task EXCEPT ![b][i] =
                        [pc |-> "tab", limit |-> page[p].limit, id |-> 0]]
               ELSE task
    /\ UNCHANGED <<server, opened, attempts, run, started, history>>

(* A probe, a request or a wait of the page fails or times out, or the page  *)
(* is closed: whatever it was doing is not taken up again.                   *)
GiveUp(p) ==
    /\ page[p] # Idle
    /\ Show(p, Idle)
    /\ UNCHANGED <<server, opened, task, attempts, run, started, history>>

----------------------------------------------------------------------------
(* The worker of the extension.                                              *)

IsAuto(a) == a.limit # 0

(* The elements of s that are in T, in their order: the n-th of them has n-1 *)
(* before it.  (SelectSeq, in a form that needs no recursion.)               *)
Filter(s, T) ==
    LET kept == {k \in DOMAIN s : s[k] \in T}
    IN [n \in 1..Cardinality(kept) |->
          s[CHOOSE k \in kept : Cardinality({j \in kept : j < k}) = n - 1]]

(* Mutation: the list is cut whatever the attempts are.                      *)
LimitCheckoutAttempts_All(s) ==
    SubSeq(s, 1, IF Len(s) < MaxReview THEN Len(s) ELSE MaxReview)

LimitCheckoutAttempts(s) ==
    LET review == Filter(s, {a \in ToSet(s) : ~IsAuto(a)})
    IN Filter(s, {a \in ToSet(s) : IsAuto(a)})
       \o SubSeq(review, 1, IF Len(review) < MaxReview THEN Len(review)
                            ELSE MaxReview)

AttemptFor(b, i) == {a \in ToSet(attempts[b]) : a.item = i}

SetTask(b, i, t) == task' = [task EXCEPT ![b][i] = t]

(* The preparation of an item settles: every page that waits for it is told. *)
Settle(b, i) ==
    /\ SetTask(b, i, None)
    /\ page' = [p \in Page |->
                  IF Host[p] = b /\ page[p].pc = "sent" /\ page[p].item = i
                  THEN Idle ELSE page[p]]

Store(b, s) == attempts' = [attempts EXCEPT ![b] = LimitCheckoutAttempts(s)]

(* The checkpoint: intent is stored before any request.                      *)
SaveAttempt(b, i) ==
    /\ task[b][i] # None
    /\ task[b][i].pc = "tab"
    /\ IF AttemptFor(b, i) # {}
       THEN /\ SetTask(b, i, [task[b][i] EXCEPT !.pc = "found"])
            /\ UNCHANGED <<attempts, started>>
       ELSE /\ started' = started + 1
            /\ Store(b, <<[item |-> i, id |-> started + 1,
                           limit |-> task[b][i].limit, url |-> FALSE]>>
                        \o attempts[b])
            /\ SetTask(b, i, [task[b][i] EXCEPT !.pc = "run",
                                                !.id = started + 1])
    /\ UNCHANGED <<server, opened, page, run, history>>

(* No tab becomes ready, or the checkpoint cannot be written; or an earlier  *)
(* attempt was found: its link is opened again, or the member is told that   *)
(* it is uncertain or that the tab has another account.  Nothing is run.     *)
EndWithoutRun(b, i) ==
    /\ task[b][i] # None
    /\ task[b][i].pc \in {"tab", "found"}
    /\ Settle(b, i)
    /\ UNCHANGED <<server, opened, attempts, run, started, history>>

(* The run is sent to the Vinted tab, whose bridge may not answer.           *)
SendRun(b, i) ==
    /\ task[b][i] # None
    /\ task[b][i].pc = "run"
    /\ \/ /\ run' = run \cup {[browser |-> b, item |-> i, id |-> task[b][i].id,
                              limit |-> task[b][i].limit, pc |-> "account"]}
          /\ SetTask(b, i, [task[b][i] EXCEPT !.pc = "await"])
          /\ UNCHANGED page
       \/ Settle(b, i) /\ UNCHANGED run
    /\ UNCHANGED <<server, opened, attempts, started, history>>

Answered(r) == r.pc \in {"mismatch", "failed", "ok"}

Awaits(r) ==
    LET t == task[r.browser][r.item]
    IN t # None /\ t.pc = "await" /\ t.id = r.id

(* A run that found another account sent nothing: its attempt is dropped.    *)
(* Mutation: every failed run drops its attempt.                             *)
ClearsAttempt_OnFailure(r) == r.pc \in {"mismatch", "failed"}

ClearsAttempt(r) == r.pc = "mismatch"

(* The worker takes the answer.  The storage write after it may fail.        *)
TakeAnswer(r) ==
    LET b == r.browser
        i == r.item
        without(gone) == Filter(attempts[b], ToSet(attempts[b]) \ gone) IN
    /\ r \in run
    /\ Answered(r)
    /\ run' = run \ {r}
    /\ IF ~Awaits(r)
       THEN UNCHANGED <<page, task, attempts>>
       ELSE /\ Settle(b, i)
            /\ \/ /\ ClearsAttempt(r)
                  /\ attempts' = [attempts EXCEPT ![b] =
                        without({a \in AttemptFor(b, i) : a.id = r.id})]
               \/ /\ r.pc = "ok"
                  /\ Store(b, <<[item |-> i, id |-> r.id, limit |-> r.limit,
                                 url |-> TRUE]>> \o without(AttemptFor(b, i)))
               \/ UNCHANGED attempts
    /\ UNCHANGED <<server, opened, started, history>>

(* A preparation that waits for a run whose tab is gone is rejected.         *)
ResponseLost(b, i) ==
    /\ task[b][i] # None
    /\ task[b][i].pc = "await"
    /\ ~\E r \in run : r.browser = b /\ r.item = i /\ r.id = task[b][i].id
    /\ Settle(b, i)
    /\ UNCHANGED <<server, opened, attempts, run, started, history>>

(* The browser stops the worker: what it was preparing is forgotten.         *)
WorkerStops(b) ==
    /\ task' = [task EXCEPT ![b] = [i \in Item |-> None]]
    /\ page' = [p \in Page |-> IF Host[p] = b /\ page[p].pc = "sent"
                               THEN Idle ELSE page[p]]
    /\ UNCHANGED <<server, opened, attempts, run, started, history>>

ClearLocalExtensionState(b) ==
    /\ attempts' = [attempts EXCEPT ![b] = <<>>]
    /\ floor' = [floor EXCEPT ![b] = started]
    /\ UNCHANGED <<server, opened, page, task, run, started, sent, paid>>

(* Ten minutes after its start a review attempt is no longer read; its run   *)
(* is over by then.                                                          *)
(* Mutation: automatic attempts age as well.                                 *)
Expires_All(a) == TRUE

Expires(a) == ~IsAuto(a)

Expire(b) ==
    \E a \in ToSet(attempts[b]) :
        /\ Expires(a)
        /\ \A i \in Item : task[b][i] # None => task[b][i].id # a.id
        /\ \A r \in run : r.id # a.id
        /\ attempts' = [attempts EXCEPT ![b] = Filter(@, ToSet(@) \ {a})]
        /\ UNCHANGED <<server, opened, page, task, run, started, history>>

----------------------------------------------------------------------------
(* The run inside the Vinted tab.                                            *)

Advance(r, pc) == run' = (run \ {r}) \cup {[r EXCEPT !.pc = pc]}

(* The account is looked up before the first request that changes anything;  *)
(* the tab may be signed in with any account, or not answer.                 *)
CheckAccount(r) ==
    /\ r \in run
    /\ r.pc = "account"
    /\ \E pc \in {"prepare", "mismatch", "failed"} : Advance(r, pc)
    /\ UNCHANGED <<server, opened, page, task, attempts, started, history>>

(* The conversation, build and update requests, of which one may fail.       *)
PrepareCheckout(r) ==
    /\ r \in run
    /\ r.pc = "prepare"
    /\ \/ Advance(r, "failed")
       \/ Advance(r, IF IsAuto(r) THEN "pay" ELSE "ok")
    /\ sent' = IF IsAuto(r)
               THEN sent \cup {[browser |-> r.browser, item |-> r.item,
                                id |-> r.id]}
               ELSE sent
    /\ UNCHANGED <<server, opened, page, task, attempts, started, floor,
                   paid>>

(* The quote is paid once if it is within the limit.  Whatever comes back,   *)
(* the payment is not sent again.                                            *)
Pay(r) ==
    /\ r \in run
    /\ r.pc = "pay"
    /\ \E q \in Quote :
          paid' = IF q <= r.limit
                  THEN paid \cup {[item |-> r.item, quote |-> q, id |-> r.id]}
                  ELSE paid
    /\ Advance(r, "ok")
    /\ UNCHANGED <<server, opened, page, task, attempts, started, sent, floor>>

(* The tab is closed, reloaded or navigated away.                            *)
TabLost(r) ==
    /\ r \in run
    /\ run' = run \ {r}
    /\ UNCHANGED <<server, opened, page, task, attempts, started, history>>

----------------------------------------------------------------------------
Settings ==
    \/ \E on \in BOOLEAN : SetCheckoutModuleEnabled(on)
    \/ \E l \in Preference : SaveCheckoutPreferences(l)

Handoff(p) ==
    \/ \E i \in Item : OpenItemCheckout(p, i)
    \/ CheckReadiness(p)
    \/ Authorize(p)
    \/ HandleBrowserBuy(p)
    \/ GiveUp(p)

Worker(b) ==
    \/ \E i \in Item : \/ SaveAttempt(b, i)
                       \/ EndWithoutRun(b, i)
                       \/ SendRun(b, i)
                       \/ ResponseLost(b, i)
    \/ WorkerStops(b)
    \/ ClearLocalExtensionState(b)
    \/ Expire(b)

Bridge ==
    \E r \in run : \/ CheckAccount(r)
                   \/ PrepareCheckout(r)
                   \/ Pay(r)
                   \/ TabLost(r)
                   \/ TakeAnswer(r)

Next ==
    \/ Settings
    \/ \E p \in Page : Handoff(p)
    \/ \E b \in Browser : Worker(b)
    \/ Bridge

Spec == Init /\ [][Next]_vars

----------------------------------------------------------------------------
(* Properties.                                                               *)

(* An item is paid for automatically at most once, whatever browsers, pages, *)
(* retries, stopped workers and cleared storage the member goes through (the *)
(* claim is taken before the run is asked for, and neither is repeated).     *)
PaidOnce ==
    \A x, y \in paid : x.item = y.item => x = y

(* A payment keeps within the limit that was saved when it was claimed: a    *)
(* page that shows older preferences cannot have them used.                  *)
PaidWithinClaim ==
    \A x \in paid : x.quote <= claimed[x.item]

(* Once an automatic run has sent a request, the browser holds an attempt    *)
(* for the item until the member clears the extension: neither its age, the  *)
(* limit of the list, a failure nor a stopped worker makes it forgotten.     *)
RequestRecorded ==
    \A s \in sent :
        s.id > floor[s.browser] => AttemptFor(s.browser, s.item) # {}
=============================================================================
