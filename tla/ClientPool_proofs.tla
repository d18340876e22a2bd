--------------------------- MODULE ClientPool_proofs ---------------------------
(***************************************************************************)
(* Theorems about ClientPool for every set of proxies, slots, fetches and  *)
(* tasks, every limit and every number of generations.                     *)
(***************************************************************************)
EXTENDS ClientPool, FiniteSetTheorems, SequenceTheorems, TLAPS

\* A slot of the pool holds a state with fields of their types.
LEMMA Held ==
    ASSUME TypeOK, NEW s \in States
    PROVE  /\ s \in Slot /\ slot[s] \in State
           /\ slot[s].client \in Client /\ slot[s].failures \in 0..FailCap
           /\ slot[s].inFlight \in Nat /\ slot[s].replacing \in BOOLEAN
           /\ slot[s].retiring \in BOOLEAN
  BY DEF TypeOK, States, State

\* What the helpers make of a state is a state again, or None.
LEMMA HelpersType ==
    ASSUME TypeOK, NEW s \in Slot
    PROVE  /\ s \in States =>
                /\ Returned(s) \in State \cup {None}
                /\ [slot[s] EXCEPT !.inFlight = @ + 1] \in State
                /\ [slot[s] EXCEPT !.replacing = TRUE] \in State
                /\ \A c \in Client : Installed(s, c) \in State
           /\ Unmarked(s) \in State \cup {None}
           /\ \A allowed : Reconciled(s, allowed) \in State \cup {None}
           /\ \A c \in Client : NewState(c) \in State
  <1>1. ASSUME s \in States
        PROVE  /\ Returned(s) \in State \cup {None}
               /\ [slot[s] EXCEPT !.inFlight = @ + 1] \in State
               /\ [slot[s] EXCEPT !.replacing = TRUE] \in State
               /\ \A c \in Client : Installed(s, c) \in State
    <2>1. /\ slot[s] \in State /\ slot[s].inFlight \in Nat
          /\ 0 \in 0..FailCap
      BY <1>1, Held, PoolAssumption DEF FailCap, PoolAssumption
    <2>2. [slot[s] EXCEPT !.inFlight = @ + 1] \in State
      BY <2>1 DEF State
    <2>3. [slot[s] EXCEPT !.replacing = TRUE] \in State
      BY <2>1 DEF State
    <2>4. \A c \in Client : Installed(s, c) \in State
      BY <2>1 DEF Installed, State
    <2>5. \A n \in Nat : [slot[s] EXCEPT !.inFlight = n] \in State
      BY <2>1 DEF State
    <2>6. Returned(s) \in State \cup {None}
      BY <2>1, <2>5 DEF Returned
    <2> QED BY <2>2, <2>3, <2>4, <2>6
  <1>2. Unmarked(s) \in State \cup {None} /\ \A allowed : Reconciled(s, allowed) \in State \cup {None}
    BY DEF TypeOK, Unmarked, Reconciled, State
  <1>3. \A c \in Client : NewState(c) \in State
    BY PoolAssumption DEF NewState, State, FailCap, PoolAssumption
  <1> QED BY <1>1, <1>2, <1>3

\* A fetch with another request, or another result, has its type.
LEMMA FetchesType ==
    ASSUME NEW F \in FetchState, NEW c \in Client, NEW ok \in BOOLEAN
    PROVE  /\ Attempt(F, c) \in FetchState
           /\ Sends(F, ok) \in FetchState
           /\ Over(F) \in FetchState
           /\ [F EXCEPT !.sent = @ \ {c}] \in FetchState
           /\ [F EXCEPT !.condemned = @ \ {c}] \in FetchState
           /\ [F EXCEPT !.sent = @ \ {c}, !.condemned = @ \cup {c}] \in FetchState
           /\ [F EXCEPT !.armed = ok] \in FetchState
           /\ NoFetch \in FetchState
           /\ [NoFetch EXCEPT !.running = TRUE, !.armed = TRUE] \in FetchState
  <1>1. Attempt(F, c) \in FetchState /\ [F EXCEPT !.armed = ok] \in FetchState
    BY DEF FetchState, Attempt
  <1>2. Append(F.results, ok) \in Seq(BOOLEAN)
    BY DEF FetchState
  <1>3. Sends(F, ok) \in FetchState
    BY <1>2 DEF FetchState, Sends
  <1>4. /\ [F EXCEPT !.sent = @ \ {c}] \in FetchState
        /\ [F EXCEPT !.condemned = @ \ {c}] \in FetchState
        /\ [F EXCEPT !.sent = @ \ {c}, !.condemned = @ \cup {c}] \in FetchState
    BY DEF FetchState
  <1>5. NoFetch \in FetchState
    BY DEF FetchState, NoFetch
  <1>8. [NoFetch EXCEPT !.running = TRUE, !.armed = TRUE] \in FetchState
    BY <1>5 DEF FetchState
  <1>9. Over(F) \in FetchState
    BY <1>5 DEF FetchState, Over
  <1> QED BY <1>1, <1>3, <1>4, <1>5, <1>8, <1>9

LEMMA OverType == \A F \in FetchState : Over(F) \in FetchState
  <1>1. NoFetch \in FetchState
    BY DEF FetchState, NoFetch
  <1> QED BY <1>1 DEF FetchState, Over

LEMMA TailType ==
    \A F \in FetchState : F.results # <<>> =>
        /\ Head(F.results) \in BOOLEAN /\ Len(F.results) \in Nat
        /\ [F EXCEPT !.results = Tail(@)] \in FetchState
  <1> SUFFICES ASSUME NEW F \in FetchState, F.results # <<>>
               PROVE  /\ Head(F.results) \in BOOLEAN /\ Len(F.results) \in Nat
                      /\ [F EXCEPT !.results = Tail(@)] \in FetchState
    OBVIOUS
  <1>1. F.results \in Seq(BOOLEAN)
    BY DEF FetchState
  <1> DEFINE r == F.results
  <1> HIDE DEF r
  <1>2. r \in Seq(BOOLEAN) /\ r # <<>>
    BY <1>1 DEF r
  <1>3. Head(r) \in BOOLEAN
    BY <1>2, HeadTailProperties
  <1>4. Tail(r) \in Seq(BOOLEAN)
    BY <1>2, HeadTailProperties
  <1>5. Len(r) \in Nat
    BY <1>2
  <1> QED BY <1>3, <1>4, <1>5 DEF FetchState, r

LEMMA InitTypeOK == Init => TypeOK
  <1> SUFFICES ASSUME Init PROVE TypeOK
    OBVIOUS
  <1>1. \A c \in Client : NewState(c) \in State
    BY PoolAssumption DEF NewState, State, FailCap, PoolAssumption
  <1>2. slot \in [Slot -> State \cup {None}]
    BY <1>1 DEF Init
  <1>3. NoFetch \in FetchState
    BY DEF NoFetch, FetchState
  <1>4. Idle \in KeeperState
    BY PoolAssumption DEF Idle, KeeperState, PoolAssumption
  <1> QED BY <1>2, <1>3, <1>4 DEF Init, TypeOK

\* A new client is one of the pool's.
LEMMA NewIsClient == \A p \in Proxy : NewClient(p) \subseteq Client
  BY DEF NewClient, Client

\* Every step keeps the types.
LEMMA NextTypeOK == TypeOK /\ [Next]_vars => TypeOK'
  <1> SUFFICES ASSUME TypeOK, [Next]_vars PROVE TypeOK'
    OBVIOUS
  <1>1. \A A : \A s \in States : slot' = [slot EXCEPT ![s] = A] /\ A \in State \cup {None}
          => slot' \in [Slot -> State \cup {None}]
    BY DEF TypeOK, States
  <1>2. \A F : \A f \in Fetch : fetch' = [fetch EXCEPT ![f] = F] /\ F \in FetchState
          => fetch' \in [Fetch -> FetchState]
    BY DEF TypeOK
  <1>3. \A s \in States : Exit(slot[s].client) \in Proxy
    BY Held DEF Client, Exit
  <1>4. \A c \in Client : Exit(c) \in Proxy
    BY DEF Client, Exit
  <1>5. ASSUME NEW f \in Fetch, NEW F \in FetchState, LaunchNext(f, F)
        PROVE  slot' \in [Slot -> State \cup {None}] /\ fetch' \in [Fetch -> FetchState]
    <2>1. PICK s \in Eligible(F.attempted) :
            /\ Acquire(s)
            /\ fetch' = [fetch EXCEPT ![f] =
                 [Attempt(F, slot[s].client) EXCEPT
                    !.armed = F.armed \/ Armed(Attempt(F, slot[s].client))]]
      BY <1>5 DEF LaunchNext
    <2>2. s \in States
      BY <2>1 DEF Eligible, Available
    <2>3. slot' \in [Slot -> State \cup {None}]
      BY <1>1, <2>1, <2>2, HelpersType, Held DEF Acquire
    <2>4. Attempt(F, slot[s].client) \in FetchState
      BY <2>2, Held, FetchesType
    <2>5. (F.armed \/ Armed(Attempt(F, slot[s].client))) \in BOOLEAN
      BY DEF Armed
    <2>6. [Attempt(F, slot[s].client) EXCEPT
             !.armed = F.armed \/ Armed(Attempt(F, slot[s].client))] \in FetchState
      BY <2>4, <2>5 DEF FetchState
    <2> QED BY <1>2, <2>1, <2>3, <2>6
  <1>6. ASSUME NEW f \in Fetch, NEW c \in Client, NEW ok \in BOOLEAN, Answered(f, c, ok)
        PROVE  fetch' \in [Fetch -> FetchState]
    <2>1. [fetch[f] EXCEPT !.sent = @ \ {c}] \in FetchState
      BY FetchesType DEF TypeOK
    <2>2. Sends([fetch[f] EXCEPT !.sent = @ \ {c}], ok) \in FetchState
      BY <2>1, FetchesType
    <2>3. fetch' = [fetch EXCEPT ![f] = Sends([fetch[f] EXCEPT !.sent = @ \ {c}], ok)]
      BY <1>6 DEF Answered
    <2> QED BY <1>2, <2>2, <2>3
  <1>7. CASE Reconcile
    <2>1. PICK snapshot : slot' = [s \in Slot |-> Reconciled(s, snapshot)]
      BY <1>7 DEF Reconcile
    <2>2. \A s \in Slot : Reconciled(s, snapshot) \in State \cup {None}
      BY HelpersType
    <2>3. slot' \in [Slot -> State \cup {None}]
      BY <2>1, <2>2
    <2> QED BY <1>7, <2>3 DEF TypeOK, Reconcile
  <1>8. ASSUME NEW s \in Slot, SwapReserves(s) PROVE TypeOK'
    BY <1>8 DEF TypeOK, SwapReserves, NextExcluding
  <1>9. ASSUME NEW s \in Slot, SwapFindsNone(s) PROVE TypeOK'
    BY <1>9, HelpersType DEF TypeOK, SwapFindsNone
  <1>10. ASSUME NEW s \in Slot, SwapEnds(s) PROVE TypeOK'
    <2>1. slot' \in [Slot -> State \cup {None}]
      <3>1. CASE slot' = [slot EXCEPT ![s] = Unmarked(s)]
        BY <3>1, HelpersType DEF TypeOK
      <3>2. ASSUME s \in States, NEW c \in NewClient(swap[s]),
                   slot' = [slot EXCEPT ![s] = Installed(s, c)]
            PROVE  slot' \in [Slot -> State \cup {None}]
        BY <1>1, <1>10, <3>2, HelpersType, NewIsClient DEF SwapEnds
      <3> QED BY <1>10, <3>1, <3>2 DEF SwapEnds, States
    <2> QED BY <1>10, <2>1 DEF TypeOK, SwapEnds
  <1>11. ASSUME NEW p \in Proxy, QuarantineEnds(p) PROVE TypeOK'
    BY <1>11 DEF TypeOK, QuarantineEnds
  <1>12. ASSUME NEW k \in Keeper, EnsureSizeBegins(k) PROVE TypeOK'
    <2>1. PICK size \in 1..Size :
            keeper' = [keeper EXCEPT ![k].at = "growing", ![k].size = size]
      BY <1>12 DEF EnsureSizeBegins
    <2>2. keeper[k] \in KeeperState
      BY DEF TypeOK
    <2>3. [keeper[k] EXCEPT !.at = "growing", !.size = size] \in KeeperState
      <3>1. keeper[k].at = "idle" /\ size \in 0..Size
        BY <1>12, PoolAssumption DEF EnsureSizeBegins, PoolAssumption
      <3>2. keeper[k] \in [at : {"idle", "growing"}, size : 0..Size,
                           failed : SUBSET Proxy, proxy : {None}]
        BY <2>2, <3>1 DEF KeeperState
      <3>3. [keeper[k] EXCEPT !.at = "growing", !.size = size]
              \in [at : {"idle", "growing"}, size : 0..Size,
                   failed : SUBSET Proxy, proxy : {None}]
        BY <3>1, <3>2
      <3> QED BY <3>3 DEF KeeperState
    <2>4. keeper' \in [Keeper -> KeeperState]
      BY <2>1, <2>3 DEF TypeOK
    <2> QED BY <1>12, <2>4 DEF TypeOK, EnsureSizeBegins
  <1>13. ASSUME NEW k \in Keeper, EnsureSizeReserves(k) PROVE TypeOK'
    <2>1. PICK p \in Proxy : /\ reserved' = reserved \cup {p}
                             /\ keeper' = [keeper EXCEPT ![k].at = "making", ![k].proxy = p]
      BY <1>13 DEF EnsureSizeReserves, Addable, NextExcluding
    <2>2. keeper[k] \in KeeperState
      BY DEF TypeOK
    <2>3. [keeper[k] EXCEPT !.at = "making", !.proxy = p] \in KeeperState
      BY <2>2 DEF KeeperState
    <2>4. keeper' \in [Keeper -> KeeperState]
      BY <2>1, <2>3 DEF TypeOK
    <2> QED BY <1>13, <2>1, <2>4 DEF TypeOK, EnsureSizeReserves
  <1>14. ASSUME NEW k \in Keeper, EnsureSizeAdds(k) PROVE TypeOK'
    <2>1. keeper' \in [Keeper -> KeeperState] /\ reserved' \subseteq Proxy
      BY <1>14 DEF TypeOK, EnsureSizeAdds, KeeperState, Released
    <2>2. slot' \in [Slot -> State \cup {None}]
      <3>1. ASSUME NEW s \in Slot \ States, NEW c \in NewClient(keeper[k].proxy),
                   slot' = [slot EXCEPT ![s] = NewState(c)]
            PROVE  slot' \in [Slot -> State \cup {None}]
        <4>1. c \in {keeper[k].proxy} \X (1..Generations)
          BY DEF NewClient
        <4>2. c \in Client /\ NewState(c) \in State
          BY <1>14, <4>1, HelpersType, <3>1 DEF EnsureSizeAdds, TypeOK, KeeperState, Client
        <4> QED BY <3>1, <4>2 DEF TypeOK
      <3> QED BY <1>14, <3>1 DEF EnsureSizeAdds, TypeOK
    <2> QED BY <1>14, <2>1, <2>2 DEF TypeOK, EnsureSizeAdds
  <1>15. ASSUME NEW k \in Keeper, EnsureSizeEnds(k) PROVE TypeOK'
    <2>1. Idle \in KeeperState
      BY PoolAssumption DEF Idle, KeeperState, PoolAssumption
    <2> QED BY <1>15, <2>1 DEF TypeOK, EnsureSizeEnds
  <1>16. ASSUME NEW f \in Fetch, FetchBegins(f) PROVE TypeOK'
    <2>1. PICK s \in Eligible({}) :
            /\ Acquire(s)
            /\ fetch' = [fetch EXCEPT ![f] =
                 Attempt([NoFetch EXCEPT !.running = TRUE, !.armed = TRUE], slot[s].client)]
      BY <1>16 DEF FetchBegins
    <2>2. s \in States
      BY <2>1 DEF Eligible, Available
    <2>3. slot' \in [Slot -> State \cup {None}]
      BY <1>1, <2>1, <2>2, HelpersType, Held DEF Acquire
    <2>4. [NoFetch EXCEPT !.running = TRUE, !.armed = TRUE] \in FetchState
      BY <2>2, Held, FetchesType DEF TypeOK
    <2>5. fetch' \in [Fetch -> FetchState]
      BY <1>2, <2>1, <2>2, <2>4, Held, FetchesType
    <2> QED BY <1>16, <2>3, <2>5 DEF TypeOK, FetchBegins
  <1>17. ASSUME NEW f \in Fetch, NEW c \in Client, ReportIgnored(f, c) PROVE TypeOK'
    <2>1. slot' \in [Slot -> State \cup {None}]
      BY <1>17, HelpersType DEF TypeOK, ReportIgnored, Find
    <2>2. fetch' \in [Fetch -> FetchState]
      BY <1>6, <1>17 DEF ReportIgnored
    <2> QED BY <1>17, <2>1, <2>2 DEF TypeOK, ReportIgnored
  <1>18. ASSUME NEW f \in Fetch, NEW c \in Client, ReportSuccess(f, c) PROVE TypeOK'
    <2>1. PICK s \in Find(c) : /\ Returned(s) # None
                               /\ slot' = [slot EXCEPT ![s] = [Returned(s) EXCEPT !.failures = 0]]
      BY <1>18 DEF ReportSuccess
    <2>2. s \in States /\ Returned(s) \in State
      BY <2>1, HelpersType DEF Find, States
    <2>3. 0 \in 0..FailCap
      BY PoolAssumption DEF FailCap, PoolAssumption
    <2>4. [Returned(s) EXCEPT !.failures = 0] \in State
      BY <2>2, <2>3 DEF State
    <2>5. slot' \in [Slot -> State \cup {None}]
      BY <1>1, <2>1, <2>2, <2>4
    <2>6. fetch' \in [Fetch -> FetchState]
      BY <1>6, <1>18 DEF ReportSuccess
    <2> QED BY <1>18, <2>5, <2>6 DEF TypeOK, ReportSuccess
  <1>19. ASSUME NEW f \in Fetch, NEW c \in Client, ReportFailure(f, c) PROVE TypeOK'
    <2>1. PICK s \in Find(c), failure \in Failures :
            LET n == IF slot[s].failures < FailCap THEN slot[s].failures + 1
                     ELSE FailCap IN
            /\ Returned(s) # None
            /\ slot' = [slot EXCEPT ![s] = [Returned(s) EXCEPT !.failures = n]]
            /\ IF Replaces(failure, n)
               THEN /\ quarantined' = quarantined \cup {Exit(c)}
                    /\ fetch' = [fetch EXCEPT ![f].sent = @ \ {c},
                                              ![f].condemned = @ \cup {c}]
               ELSE /\ UNCHANGED quarantined
                    /\ Answered(f, c, FALSE)
      BY <1>19 DEF ReportFailure
    <2> DEFINE n == IF slot[s].failures < FailCap THEN slot[s].failures + 1 ELSE FailCap
    <2>2. s \in States /\ Returned(s) \in State
      BY <2>1, HelpersType DEF Find, States
    <2>3. n \in 0..FailCap
      BY <2>2, Held, PoolAssumption DEF FailCap, PoolAssumption
    <2>4. [Returned(s) EXCEPT !.failures = n] \in State
      BY <2>2, <2>3 DEF State
    <2>5. slot' \in [Slot -> State \cup {None}]
      BY <1>1, <2>1, <2>2, <2>4
    <2>6. fetch' \in [Fetch -> FetchState] /\ quarantined' \subseteq Proxy
      <3>1. CASE Replaces(failure, n)
        <4>1. fetch[f] \in FetchState
          BY DEF TypeOK
        <4>2. fetch' = [fetch EXCEPT ![f] = [fetch[f] EXCEPT !.sent = @ \ {c},
                                                             !.condemned = @ \cup {c}]]
          BY <2>1, <3>1, <4>1 DEF TypeOK
        <4> QED BY <1>2, <1>4, <2>1, <3>1, <4>1, <4>2, FetchesType DEF TypeOK
      <3>2. CASE ~Replaces(failure, n)
        BY <1>6, <2>1, <3>2 DEF TypeOK
      <3> QED BY <3>1, <3>2
    <2> QED BY <1>19, <2>5, <2>6 DEF TypeOK, ReportFailure
  <1>20. ASSUME NEW f \in Fetch, NEW c \in Client, Replace(f, c) PROVE TypeOK'
    <2>1. slot' \in [Slot -> State \cup {None}]
      BY <1>20, HelpersType DEF TypeOK, Replace, Find
    <2>2. [fetch[f] EXCEPT !.condemned = @ \ {c}] \in FetchState
      BY FetchesType DEF TypeOK
    <2>3. Sends([fetch[f] EXCEPT !.condemned = @ \ {c}], FALSE) \in FetchState
      BY <2>2, FetchesType
    <2>4. fetch' = [fetch EXCEPT ![f] = Sends([fetch[f] EXCEPT !.condemned = @ \ {c}], FALSE)]
      BY <1>20 DEF Replace
    <2>5. fetch' \in [Fetch -> FetchState]
      BY <1>2, <2>3, <2>4
    <2> QED BY <1>20, <2>1, <2>5 DEF TypeOK, Replace
  <1>21. ASSUME NEW f \in Fetch, Receive(f) PROVE TypeOK'
    <2> DEFINE F == [fetch[f] EXCEPT !.results = Tail(@)]
    <2>1. fetch[f] \in FetchState /\ fetch[f].results # <<>>
      BY <1>21 DEF TypeOK, Receive
    <2>2. F \in FetchState
      BY <2>1, TailType
    <2>3. Over(F) \in FetchState
      BY <2>2, OverType
    <2> HIDE DEF F
    <2>4. slot' \in [Slot -> State \cup {None}] /\ fetch' \in [Fetch -> FetchState]
      <3>1. CASE LaunchNext(f, F)
        BY <1>5, <2>2, <3>1
      <3>2. CASE UNCHANGED slot /\ \/ fetch' = [fetch EXCEPT ![f] = F]
                                   \/ fetch' = [fetch EXCEPT ![f] = Over(F)]
        BY <1>2, <2>2, <2>3, <3>2 DEF TypeOK
      <3> QED BY <1>21, <3>1, <3>2 DEF Receive, F
    <2> QED BY <1>21, <2>4 DEF TypeOK, Receive
  <1>22. ASSUME NEW f \in Fetch, HedgeTimer(f) PROVE TypeOK'
    <2> DEFINE F == [fetch[f] EXCEPT !.armed = FALSE]
    <2>1. F \in FetchState
      BY DEF TypeOK, FetchState
    <2>2. slot' \in [Slot -> State \cup {None}] /\ fetch' \in [Fetch -> FetchState]
      <3>1. CASE LaunchNext(f, F)
        BY <1>5, <2>1, <3>1
      <3>2. CASE UNCHANGED slot /\ fetch' = [fetch EXCEPT ![f].armed = FALSE]
        BY <2>1, <3>2 DEF TypeOK
      <3> QED BY <1>22, <3>1, <3>2 DEF HedgeTimer
    <2> QED BY <1>22, <2>2 DEF TypeOK, HedgeTimer
  <1>23. ASSUME NEW f \in Fetch, Deadline(f) PROVE TypeOK'
    <2>1. Over(fetch[f]) \in FetchState
      BY OverType DEF TypeOK
    <2>2. fetch' = [fetch EXCEPT ![f] = Over(fetch[f])]
      BY <1>23 DEF Deadline
    <2> QED BY <1>2, <1>23, <2>1, <2>2 DEF TypeOK, Deadline, pool
  <1>24. CASE UNCHANGED vars
    BY <1>24 DEF TypeOK, vars, pool
  <1> QED
    BY <1>7, <1>8, <1>9, <1>10, <1>11, <1>12, <1>13, <1>14, <1>15, <1>16, <1>17,
       <1>18, <1>19, <1>20, <1>21, <1>22, <1>23, <1>24
    DEF Next, FetchStep, KeeperStep, Report

\* TypeOK, always: no helper, failure path or late answer of the pool makes a
\* value of another type.
THEOREM TypesKept == Spec => []TypeOK
  BY InitTypeOK, NextTypeOK, PTL DEF Spec

-----------------------------------------------------------------------------
(* Replacement and reservation *)

\* A step that installs no client and marks none.
SameClients ==
    \A s \in States' : /\ s \in States /\ slot'[s].client = slot[s].client
                       /\ slot'[s].replacing = slot[s].replacing
                       /\ slot'[s].retiring = slot[s].retiring

LEMMA ReturnedSame ==
    ASSUME TypeOK, NEW s \in States, Returned(s) # None
    PROVE  /\ Returned(s) \in State
           /\ Returned(s).client = slot[s].client
           /\ Returned(s).replacing = slot[s].replacing
           /\ Returned(s).retiring = slot[s].retiring
           /\ Returned(s).inFlight = IF slot[s].inFlight > 0 THEN slot[s].inFlight - 1 ELSE 0
  <1>1. slot[s] \in State
    BY Held
  <1> QED BY <1>1, HelpersType DEF Returned, State, States

LEMMA BorrowingSame ==
    ASSUME TypeOK, NEW s \in States, Acquire(s)
    PROVE  SameClients
  <1>1. slot[s] \in State
    BY Held
  <1>2. \A t \in Slot : slot'[t] = IF t = s THEN [slot[s] EXCEPT !.inFlight = @ + 1] ELSE slot[t]
    BY DEF Acquire, TypeOK, States
  <1> QED BY <1>1, <1>2 DEF SameClients, States, State

LEMMA FetchingSame ==
    ASSUME TypeOK, NEW f \in Fetch,
           \/ FetchBegins(f) \/ HedgeTimer(f) \/ Receive(f) \/ Deadline(f)
           \/ \E c \in Client : Report(f, c)
    PROVE  SameClients /\ UNCHANGED <<swap, reserved, keeper>>
  <1>1. UNCHANGED slot => SameClients
    BY DEF SameClients, States
  <1>2. ASSUME NEW F, LaunchNext(f, F) PROVE SameClients
    BY <1>2, BorrowingSame DEF LaunchNext, Eligible, Available
  <1>3. CASE FetchBegins(f)
    BY <1>3, BorrowingSame DEF FetchBegins, Eligible, Available
  <1>4. CASE HedgeTimer(f)
    BY <1>1, <1>2, <1>4 DEF HedgeTimer
  <1>5. CASE Receive(f)
    BY <1>1, <1>2, <1>5 DEF Receive
  <1>6. CASE Deadline(f)
    BY <1>1, <1>6 DEF Deadline, pool
  <1>7. ASSUME NEW c \in Client, ReportIgnored(f, c)
        PROVE  SameClients /\ UNCHANGED <<swap, reserved, keeper>>
    <2>1. \A s \in Slot : slot'[s] = IF s \in Find(c) THEN Returned(s) ELSE slot[s]
      BY <1>7 DEF ReportIgnored
    <2>2. SameClients
      BY <2>1, ReturnedSame DEF SameClients, States, Find
    <2> QED BY <1>7, <2>2 DEF ReportIgnored
  <1>8. ASSUME NEW s \in States, NEW n, Returned(s) # None,
               slot' = [slot EXCEPT ![s] = [Returned(s) EXCEPT !.failures = n]]
        PROVE  SameClients
    <2>1. \A t \in Slot : slot'[t] = IF t = s THEN [Returned(s) EXCEPT !.failures = n] ELSE slot[t]
      BY <1>8 DEF TypeOK, States
    <2>2. /\ Returned(s) \in State
          /\ Returned(s).client = slot[s].client
          /\ Returned(s).replacing = slot[s].replacing
          /\ Returned(s).retiring = slot[s].retiring
      BY <1>8, ReturnedSame
    <2>3. /\ slot'[s].client = slot[s].client
          /\ slot'[s].replacing = slot[s].replacing
          /\ slot'[s].retiring = slot[s].retiring
      BY <2>1, <2>2 DEF State, States
    <2> QED BY <2>1, <2>3 DEF SameClients, States
  <1>9. ASSUME NEW c \in Client, ReportSuccess(f, c)
        PROVE  SameClients /\ UNCHANGED <<swap, reserved, keeper>>
    BY <1>8, <1>9 DEF ReportSuccess, Find
  <1>10. ASSUME NEW c \in Client, ReportFailure(f, c)
         PROVE  SameClients /\ UNCHANGED <<swap, reserved, keeper>>
    BY <1>8, <1>10 DEF ReportFailure, Find
  <1> QED
    BY <1>3, <1>4, <1>5, <1>6, <1>7, <1>9, <1>10
    DEF Report, FetchBegins, HedgeTimer, Receive, Deadline, pool

LEMMA InitTracked == Init => ReplacementTracked /\ ExitsHeldOnce
  <1> SUFFICES ASSUME Init PROVE ReplacementTracked /\ ExitsHeldOnce
    OBVIOUS
  <1>1. ReplacementTracked
    BY DEF Init, ReplacementTracked, States, NewState
  <1>2. \A p \in Proxy : Connecting(p) = {}
    BY PoolAssumption DEF Init, Connecting, Idle, PoolAssumption
  <1> QED BY <1>1, <1>2 DEF ExitsHeldOnce, Init

\* Every step keeps the marks and the goroutines of the slots together.
LEMMA NextTracked == TypeOK /\ ReplacementTracked /\ [Next]_vars => ReplacementTracked'
  <1> SUFFICES ASSUME TypeOK, ReplacementTracked, [Next]_vars PROVE ReplacementTracked'
    OBVIOUS
  <1> USE DEF ReplacementTracked
  <1>1. SameClients /\ UNCHANGED swap => ReplacementTracked'
    BY DEF SameClients
  <1>2. UNCHANGED slot => SameClients
    BY DEF SameClients, States
  <1>3. CASE Reconcile
    <2>1. PICK snapshot : \A s \in Slot : slot'[s] = Reconciled(s, snapshot)
      BY <1>3 DEF Reconcile
    <2>2. ASSUME NEW s \in States'
          PROVE  /\ s \in States
                 /\ \/ slot'[s] = slot[s]
                    \/ slot'[s].retiring = TRUE /\ slot'[s].replacing = FALSE
      <3>1. s \in Slot /\ slot'[s] = Reconciled(s, snapshot) /\ slot'[s] # None
        BY <2>1 DEF States
      <3>2. s \in States
        BY <3>1 DEF Reconciled, States
      <3>3. slot[s] \in State
        BY <3>2, Held
      <3> QED BY <3>1, <3>2, <3>3 DEF Reconciled, State
    <2> QED BY <1>3, <2>2 DEF Reconcile
  <1>4. ASSUME NEW s \in Slot, SwapReserves(s) PROVE ReplacementTracked'
    <2>1. PICK p \in Proxy : swap' = [swap EXCEPT ![s] = p]
      BY <1>4 DEF SwapReserves, NextExcluding
    <2>2. p # None /\ UNCHANGED slot /\ swap[s] = "reserving"
      BY <1>4, PoolAssumption DEF SwapReserves, PoolAssumption
    <2> QED BY <2>1, <2>2, PoolAssumption DEF States, TypeOK, PoolAssumption
  <1>5. ASSUME NEW s \in Slot, slot' = [slot EXCEPT ![s] = Unmarked(s)],
               swap' = [swap EXCEPT ![s] = None]
        PROVE  ReplacementTracked'
    <2>1. \A t \in Slot : /\ slot'[t] = IF t = s THEN Unmarked(s) ELSE slot[t]
                          /\ swap'[t] = IF t = s THEN None ELSE swap[t]
      BY <1>5 DEF TypeOK
    <2>2. s \in States' => slot'[s].replacing = FALSE
      BY <2>1, Held DEF Unmarked, States, State
    <2> QED BY <2>1, <2>2 DEF States
  <1>6. ASSUME NEW s \in Slot, SwapFindsNone(s) PROVE ReplacementTracked'
    BY <1>5, <1>6 DEF SwapFindsNone
  <1>7. ASSUME NEW s \in Slot, SwapEnds(s) PROVE ReplacementTracked'
    <2>1. ASSUME s \in States, NEW c, slot' = [slot EXCEPT ![s] = Installed(s, c)]
          PROVE  ReplacementTracked'
      <3>1. \A t \in Slot : /\ slot'[t] = IF t = s THEN Installed(s, c) ELSE slot[t]
                            /\ swap'[t] = IF t = s THEN None ELSE swap[t]
        BY <1>7, <2>1 DEF SwapEnds, TypeOK
      <3>2. slot'[s].replacing = FALSE
        <4>1. slot[s] \in State
          BY <2>1, Held
        <4>2. Installed(s, c).replacing = FALSE
          BY <4>1 DEF Installed, State
        <4> QED BY <3>1, <4>2
      <3> QED BY <3>1, <3>2 DEF States
    <2> QED BY <1>5, <1>7, <2>1 DEF SwapEnds, States
  <1>8. ASSUME NEW p \in Proxy, QuarantineEnds(p) PROVE ReplacementTracked'
    BY <1>1, <1>2, <1>8 DEF QuarantineEnds
  <1>9. ASSUME NEW k \in Keeper,
               EnsureSizeBegins(k) \/ EnsureSizeReserves(k) \/ EnsureSizeEnds(k)
        PROVE  ReplacementTracked'
    BY <1>1, <1>2, <1>9 DEF EnsureSizeBegins, EnsureSizeReserves, EnsureSizeEnds
  <1>10. ASSUME NEW k \in Keeper, EnsureSizeAdds(k) PROVE ReplacementTracked'
    <2>1. ASSUME NEW s \in Slot \ States, NEW c, swap[s] = None,
                 slot' = [slot EXCEPT ![s] = NewState(c)]
          PROVE  ReplacementTracked'
      <3>1. \A t \in Slot : slot'[t] = IF t = s THEN NewState(c) ELSE slot[t]
        BY <2>1 DEF TypeOK
      <3>2. UNCHANGED swap
        BY <1>10 DEF EnsureSizeAdds
      <3> QED BY <2>1, <3>1, <3>2 DEF States, NewState
    <2> QED BY <1>1, <1>2, <1>10, <2>1 DEF EnsureSizeAdds
  <1>11. ASSUME NEW f \in Fetch, NEW c \in Client, Replace(f, c) PROVE ReplacementTracked'
    <2>1. \A s \in Slot :
            \/ slot'[s] = slot[s] /\ swap'[s] = swap[s]
            \/ /\ s \in States /\ slot'[s] = [slot[s] EXCEPT !.replacing = TRUE]
               /\ swap'[s] = "reserving"
      BY <1>11 DEF Replace, Find
    <2>2. \A s \in States' : s \in States /\
            (\/ slot'[s] = slot[s] /\ swap'[s] = swap[s]
             \/ slot'[s].replacing = TRUE /\ swap'[s] = "reserving")
      BY <2>1, Held DEF States, State
    <2> QED BY <2>2, PoolAssumption DEF PoolAssumption
  <1>12. ASSUME NEW f \in Fetch,
                \/ FetchBegins(f) \/ HedgeTimer(f) \/ Receive(f) \/ Deadline(f)
                \/ \E c \in Client : Report(f, c)
         PROVE  ReplacementTracked'
    BY <1>1, <1>12, FetchingSame
  <1>13. CASE UNCHANGED vars
    BY <1>1, <1>2, <1>13 DEF vars, pool
  <1> QED
    BY <1>3, <1>4, <1>6, <1>7, <1>8, <1>9, <1>10, <1>11, <1>12, <1>13
    DEF Next, FetchStep, KeeperStep

\* ReplacementTracked, always: a client that is marked as being replaced has
\* the goroutine that will unmark it, whatever retires it or fails meanwhile.
THEOREM ReplacementsTracked == Spec => []ReplacementTracked
  BY InitTypeOK, NextTypeOK, InitTracked, NextTracked, PTL DEF Spec

\* A step that puts no client into the pool.
KeepsClients ==
    \A s \in States' : s \in States /\ slot'[s].client = slot[s].client

\* A step that neither begins nor ends a connection.
SameConnecting ==
    /\ UNCHANGED reserved
    /\ \A p \in Proxy : Connecting(p)' = Connecting(p)
    /\ \A s \in Slot : swap[s] \in Proxy => swap'[s] = swap[s]

LEMMA ExitsUntouched ==
    ASSUME ExitsHeldOnce, KeepsClients, SameConnecting
    PROVE  ExitsHeldOnce'
  <1> SUFFICES ASSUME NEW p \in Proxy
               PROVE  /\ p \in reserved' <=> Connecting(p)' # {}
                      /\ \A x, y \in Connecting(p)' : x = y
                      /\ p \in reserved' => \A s \in States' :
                            Exit(slot'[s].client) = p => swap'[s] = p
    BY DEF ExitsHeldOnce
  <1>1. /\ p \in reserved <=> Connecting(p) # {}
        /\ \A x, y \in Connecting(p) : x = y
        /\ p \in reserved => \A s \in States :
              Exit(slot[s].client) = p => swap[s] = p
    BY DEF ExitsHeldOnce
  <1>2. reserved' = reserved /\ Connecting(p)' = Connecting(p)
    BY DEF SameConnecting
  <1>3. \A s \in States' : Exit(slot'[s].client) = p /\ p \in reserved => swap'[s] = p
    BY <1>1 DEF KeepsClients, SameConnecting, States
  <1> QED BY <1>1, <1>2, <1>3

LEMMA NextExits ==
    TypeOK /\ ReplacementTracked /\ ExitsHeldOnce /\ [Next]_vars => ExitsHeldOnce'
  <1> SUFFICES ASSUME TypeOK, ReplacementTracked, ExitsHeldOnce, [Next]_vars
               PROVE  ExitsHeldOnce'
    OBVIOUS
  <1>1. SameClients => KeepsClients
    BY DEF SameClients, KeepsClients
  <1>2. UNCHANGED slot => KeepsClients
    BY DEF KeepsClients, States
  <1>3. UNCHANGED <<swap, reserved, keeper>> => SameConnecting
    BY DEF SameConnecting, Connecting
  <1>4. ASSUME NEW s \in Slot, slot' = [slot EXCEPT ![s] = Unmarked(s)] PROVE KeepsClients
    <2>1. \A t \in Slot : slot'[t] = IF t = s THEN Unmarked(s) ELSE slot[t]
      BY <1>4 DEF TypeOK
    <2>2. s \in States' => s \in States
      BY <2>1 DEF Unmarked, States
    <2>3. s \in States => slot[s] \in State
      BY Held
    <2>4. s \in States' => slot'[s].client = slot[s].client
      BY <2>1, <2>2, <2>3 DEF Unmarked, State
    <2> QED BY <2>1, <2>2, <2>4 DEF KeepsClients, States
  <1>5. CASE Reconcile
    <2>1. PICK snapshot : \A s \in Slot : slot'[s] = Reconciled(s, snapshot)
      BY <1>5 DEF Reconcile
    <2>2. ASSUME NEW s \in States' PROVE s \in States /\ slot'[s].client = slot[s].client
      <3>1. s \in Slot /\ slot'[s] = Reconciled(s, snapshot) /\ slot'[s] # None
        BY <2>1 DEF States
      <3>2. s \in States
        BY <3>1 DEF Reconciled, States
      <3>3. slot[s] \in State
        BY <3>2, Held
      <3> QED BY <3>1, <3>2, <3>3 DEF Reconciled, State
    <2>3. KeepsClients
      BY <2>2 DEF KeepsClients
    <2>4. SameConnecting
      BY <1>3, <1>5 DEF Reconcile
    <2> QED BY <2>3, <2>4, ExitsUntouched
  <1>6. ASSUME NEW s \in Slot, SwapReserves(s) PROVE ExitsHeldOnce'
    <2>1. PICK p \in Proxy : /\ p \notin Unusable(s)
                             /\ reserved' = reserved \cup {p}
                             /\ swap' = [swap EXCEPT ![s] = p]
      BY <1>6 DEF SwapReserves, NextExcluding
    <2>2. \A t \in Slot : swap'[t] = IF t = s THEN p ELSE swap[t]
      BY <2>1 DEF TypeOK
    <2>3. /\ p \notin reserved
          /\ \A t \in States : Exit(slot[t].client) = p => t = s
      BY <2>1 DEF Unusable, ExitsOf
    <2>4. Connecting(p) = {}
      BY <2>3 DEF ExitsHeldOnce
    <2>5. UNCHANGED <<slot, keeper>> /\ swap[s] = "reserving"
      BY <1>6 DEF SwapReserves
    <2>6. Connecting(p)' = {s}
      BY <2>2, <2>4, <2>5 DEF Connecting
    <2>7. \A q \in Proxy \ {p} : Connecting(q)' = Connecting(q)
      BY <2>2, <2>5, PoolAssumption DEF Connecting, PoolAssumption
    <2>8. UNCHANGED States
      BY <2>5 DEF States
    <2>9. ASSUME NEW q \in Proxy
          PROVE  /\ q \in reserved' <=> Connecting(q)' # {}
                 /\ \A x, y \in Connecting(q)' : x = y
                 /\ q \in reserved' => \A t \in States' :
                       Exit(slot'[t].client) = q => swap'[t] = q
      <3>1. CASE q = p
        BY <2>1, <2>2, <2>3, <2>5, <2>6, <2>8, <3>1 DEF States
      <3>2. CASE q # p
        <4>1. /\ q \in reserved <=> Connecting(q) # {}
              /\ \A x, y \in Connecting(q) : x = y
              /\ q \in reserved => \A t \in States :
                    Exit(slot[t].client) = q => swap[t] = q
          BY DEF ExitsHeldOnce
        <4>2. swap[s] # q
          BY <2>5, PoolAssumption DEF PoolAssumption
        <4> QED BY <2>1, <2>2, <2>5, <2>7, <2>8, <3>2, <4>1, <4>2 DEF States
      <3> QED BY <3>1, <3>2
    <2> QED BY <2>9 DEF ExitsHeldOnce
  <1>7. ASSUME NEW s \in Slot, SwapFindsNone(s) PROVE ExitsHeldOnce'
    <2>1. KeepsClients
      BY <1>4, <1>7 DEF SwapFindsNone
    <2>2. /\ \A t \in Slot : swap'[t] = IF t = s THEN None ELSE swap[t]
          /\ swap[s] = "reserving" /\ UNCHANGED <<reserved, keeper>>
      BY <1>7 DEF SwapFindsNone, TypeOK
    <2>3. SameConnecting
      BY <2>2, PoolAssumption DEF SameConnecting, Connecting, PoolAssumption
    <2> QED BY <2>1, <2>3, ExitsUntouched
  <1>8. ASSUME NEW s \in Slot, SwapEnds(s) PROVE ExitsHeldOnce'
    <2>a. PICK p \in Proxy : p = swap[s]
      BY <1>8 DEF SwapEnds
    <2>1. /\ p \in Proxy /\ reserved' = reserved \ {p}
          /\ \A t \in Slot : swap'[t] = IF t = s THEN None ELSE swap[t]
          /\ UNCHANGED keeper
      BY <1>8, <2>a DEF SwapEnds, TypeOK
    <2>2. s \in Connecting(p)
      BY <2>1, <2>a DEF Connecting
    <2>3. p \in reserved /\ \A x \in Connecting(p) : x = s
      BY <2>1, <2>2 DEF ExitsHeldOnce
    <2>4. Connecting(p)' = {}
      BY <2>1, <2>2, <2>3, PoolAssumption DEF Connecting, PoolAssumption
    <2>5. \A q \in Proxy \ {p} : Connecting(q)' = Connecting(q)
      BY <2>1, <2>a, PoolAssumption DEF Connecting, PoolAssumption
    <2>6. \A t \in States' : /\ t \in States
                             /\ \/ slot'[t].client = slot[t].client
                                \/ t = s /\ Exit(slot'[t].client) = p
      <3>1. CASE slot' = [slot EXCEPT ![s] = Unmarked(s)]
        BY <1>4, <3>1 DEF KeepsClients
      <3>2. ASSUME s \in States, NEW c \in NewClient(p), slot' = [slot EXCEPT ![s] = Installed(s, c)]
            PROVE  \A t \in States' : /\ t \in States
                                      /\ \/ slot'[t].client = slot[t].client
                                         \/ t = s /\ Exit(slot'[t].client) = p
        <4>1. slot[s] \in State
          BY <3>2, Held
        <4>2. Installed(s, c).client = c
          BY <4>1 DEF Installed, State
        <4>3. Exit(c) = p
          BY DEF NewClient, Exit
        <4>4. \A t \in Slot : slot'[t] = IF t = s THEN Installed(s, c) ELSE slot[t]
          BY <3>2 DEF TypeOK
        <4> QED BY <3>2, <4>2, <4>3, <4>4 DEF States
      <3> QED BY <1>8, <2>a, <3>1, <3>2 DEF SwapEnds, States
    <2>7. ASSUME NEW q \in Proxy
          PROVE  /\ q \in reserved' <=> Connecting(q)' # {}
                 /\ \A x, y \in Connecting(q)' : x = y
                 /\ q \in reserved' => \A t \in States' :
                       Exit(slot'[t].client) = q => swap'[t] = q
      <3>1. CASE q = p
        BY <2>1, <2>4, <3>1
      <3>2. CASE q # p
        <4>1. /\ q \in reserved <=> Connecting(q) # {}
              /\ \A x, y \in Connecting(q) : x = y
              /\ q \in reserved => \A t \in States :
                    Exit(slot[t].client) = q => swap[t] = q
          BY DEF ExitsHeldOnce
        <4>2. swap[s] # q
          BY <2>a, <3>2
        <4> QED BY <2>1, <2>5, <2>6, <3>2, <4>1, <4>2 DEF States
      <3> QED BY <3>1, <3>2
    <2> QED BY <2>7 DEF ExitsHeldOnce
  <1>9. ASSUME NEW p \in Proxy, QuarantineEnds(p) PROVE ExitsHeldOnce'
    BY <1>2, <1>3, <1>9, ExitsUntouched DEF QuarantineEnds
  <1>10. ASSUME NEW k \in Keeper, EnsureSizeBegins(k) \/ EnsureSizeEnds(k)
         PROVE  ExitsHeldOnce'
    <2>1. /\ UNCHANGED <<slot, swap, reserved>> /\ keeper[k].at # "making"
          /\ \A j \in Keeper : j # k => keeper'[j] = keeper[j]
          /\ keeper'[k].at # "making"
      BY <1>10 DEF EnsureSizeBegins, EnsureSizeEnds, TypeOK, KeeperState, Idle
    <2>2. SameConnecting
      BY <2>1 DEF SameConnecting, Connecting
    <2> QED BY <1>2, <2>1, <2>2, ExitsUntouched
  <1>11. ASSUME NEW k \in Keeper, EnsureSizeReserves(k) PROVE ExitsHeldOnce'
    <2>1. PICK p \in Proxy : /\ p \notin ExitsOf(States) \cup reserved
                             /\ reserved' = reserved \cup {p}
                             /\ keeper' = [keeper EXCEPT ![k].at = "making", ![k].proxy = p]
      BY <1>11 DEF EnsureSizeReserves, Addable, NextExcluding
    <2>2. /\ \A j \in Keeper : j # k => keeper'[j] = keeper[j]
          /\ keeper'[k].at = "making" /\ keeper'[k].proxy = p
          /\ keeper[k].at # "making" /\ UNCHANGED <<slot, swap>>
      BY <1>11, <2>1 DEF EnsureSizeReserves, TypeOK, KeeperState
    <2>3. p \notin reserved /\ \A t \in States : Exit(slot[t].client) # p
      BY <2>1 DEF ExitsOf
    <2>4. Connecting(p) = {}
      BY <2>3 DEF ExitsHeldOnce
    <2>5. Connecting(p)' = {k}
      BY <2>2, <2>4 DEF Connecting
    <2>6. \A q \in Proxy \ {p} : Connecting(q)' = Connecting(q)
      BY <2>2 DEF Connecting
    <2>7. UNCHANGED States
      BY <2>2 DEF States
    <2>8. ASSUME NEW q \in Proxy
          PROVE  /\ q \in reserved' <=> Connecting(q)' # {}
                 /\ \A x, y \in Connecting(q)' : x = y
                 /\ q \in reserved' => \A t \in States' :
                       Exit(slot'[t].client) = q => swap'[t] = q
      <3>1. CASE q = p
        BY <2>1, <2>2, <2>3, <2>5, <2>7, <3>1
      <3>2. CASE q # p
        <4>1. /\ q \in reserved <=> Connecting(q) # {}
              /\ \A x, y \in Connecting(q) : x = y
              /\ q \in reserved => \A t \in States :
                    Exit(slot[t].client) = q => swap[t] = q
          BY DEF ExitsHeldOnce
        <4> QED BY <2>1, <2>2, <2>6, <2>7, <3>2, <4>1
      <3> QED BY <3>1, <3>2
    <2> QED BY <2>8 DEF ExitsHeldOnce
  <1>12. ASSUME NEW k \in Keeper, EnsureSizeAdds(k) PROVE ExitsHeldOnce'
    <2>a. PICK p \in Proxy : p = keeper[k].proxy
      BY <1>12 DEF EnsureSizeAdds, TypeOK, KeeperState
    <2>1. /\ keeper[k].at = "making" /\ p \in Proxy /\ reserved' = reserved \ {p}
          /\ UNCHANGED swap
      BY <1>12, <2>a DEF EnsureSizeAdds, Released
    <2>2. /\ \A j \in Keeper : j # k => keeper'[j] = keeper[j]
          /\ keeper'[k].at = "growing"
      BY <1>12 DEF EnsureSizeAdds, TypeOK, KeeperState
    <2>3. k \in Connecting(p)
      BY <2>1, <2>a DEF Connecting
    <2>4. p \in reserved /\ \A x \in Connecting(p) : x = k
      BY <2>1, <2>3 DEF ExitsHeldOnce
    <2>5. \A t \in Slot : swap[t] # p
      BY <2>4, PoolAssumption DEF Connecting, PoolAssumption
    <2>6. Connecting(p)' = {}
      BY <2>1, <2>2, <2>4, <2>5 DEF Connecting
    <2>7. \A q \in Proxy \ {p} : Connecting(q)' = Connecting(q)
      BY <2>1, <2>2, <2>a DEF Connecting
    <2>8. \A t \in States' : \/ t \in States /\ slot'[t] = slot[t]
                             \/ Exit(slot'[t].client) = p
      <3>1. ASSUME NEW s \in Slot \ States, NEW c \in NewClient(p),
                   slot' = [slot EXCEPT ![s] = NewState(c)]
            PROVE  \A t \in States' : \/ t \in States /\ slot'[t] = slot[t]
                                      \/ Exit(slot'[t].client) = p
        <4>1. Exit(c) = p
          BY DEF NewClient, Exit
        <4>2. \A t \in Slot : slot'[t] = IF t = s THEN NewState(c) ELSE slot[t]
          BY <3>1 DEF TypeOK
        <4> QED BY <4>1, <4>2 DEF States, NewState
      <3> QED BY <1>12, <2>a, <3>1 DEF EnsureSizeAdds, States
    <2>9. ASSUME NEW q \in Proxy
          PROVE  /\ q \in reserved' <=> Connecting(q)' # {}
                 /\ \A x, y \in Connecting(q)' : x = y
                 /\ q \in reserved' => \A t \in States' :
                       Exit(slot'[t].client) = q => swap'[t] = q
      <3>1. CASE q = p
        BY <2>1, <2>6, <3>1
      <3>2. CASE q # p
        <4>1. /\ q \in reserved <=> Connecting(q) # {}
              /\ \A x, y \in Connecting(q) : x = y
              /\ q \in reserved => \A t \in States :
                    Exit(slot[t].client) = q => swap[t] = q
          BY DEF ExitsHeldOnce
        <4> QED BY <2>1, <2>7, <2>8, <3>2, <4>1
      <3> QED BY <3>1, <3>2
    <2> QED BY <2>9 DEF ExitsHeldOnce
  <1>13. ASSUME NEW f \in Fetch, NEW c \in Client, Replace(f, c) PROVE ExitsHeldOnce'
    <2>1. \A s \in Slot :
            \/ slot'[s] = slot[s] /\ swap'[s] = swap[s]
            \/ /\ s \in States /\ Replaceable(s)
               /\ slot'[s] = [slot[s] EXCEPT !.replacing = TRUE]
               /\ swap'[s] = "reserving"
      BY <1>13 DEF Replace, Find
    <2>2. \A s \in States : Replaceable(s) => swap[s] = None
      BY DEF ReplacementTracked, Replaceable
    <2>3. KeepsClients
      BY <2>1, Held DEF KeepsClients, States, State
    <2>4. /\ UNCHANGED <<reserved, keeper>>
          /\ \A s \in Slot, p \in Proxy : swap'[s] = p <=> swap[s] = p
      BY <1>13, <2>1, <2>2, PoolAssumption DEF Replace, PoolAssumption
    <2>5. SameConnecting
      BY <2>4 DEF SameConnecting, Connecting
    <2> QED BY <2>3, <2>5, ExitsUntouched
  <1>14. ASSUME NEW f \in Fetch,
                \/ FetchBegins(f) \/ HedgeTimer(f) \/ Receive(f) \/ Deadline(f)
                \/ \E c \in Client : Report(f, c)
         PROVE  ExitsHeldOnce'
    BY <1>1, <1>3, <1>14, FetchingSame, ExitsUntouched
  <1>15. CASE UNCHANGED vars
    BY <1>2, <1>3, <1>15, ExitsUntouched DEF vars, pool
  <1> QED
    BY <1>5, <1>6, <1>7, <1>8, <1>9, <1>10, <1>11, <1>12, <1>13, <1>14, <1>15
    DEF Next, FetchStep, KeeperStep

\* ExitsHeldOnce, always: however many replacements and calls of EnsureSize
\* overlap, each reservation has one owner who gives it back, and keeps every
\* other client from the proxy.
THEOREM ExitsAreHeldOnce == Spec => []ExitsHeldOnce
  BY InitTypeOK, NextTypeOK, InitTracked, NextTracked, NextExits, PTL DEF Spec

-----------------------------------------------------------------------------
(* The requests of the fetches *)

\* A fetch that sends a request to c.
Sent(F, G, c) == /\ G.sent = F.sent \cup {c} /\ G.condemned = F.condemned
                 /\ G.running /\ G.attempted = F.attempted \cup {c}
                 /\ G.results = F.results

LEMMA Launches ==
    ASSUME TypeOK, NEW f \in Fetch, NEW F \in FetchState, F.running, LaunchNext(f, F)
    PROVE  \E s \in States :
             /\ Acquire(s) /\ slot[s].client \notin F.attempted
             /\ \A g \in Fetch \ {f} : fetch'[g] = fetch[g]
             /\ Sent(F, fetch'[f], slot[s].client)
  <1>1. PICK s \in Eligible(F.attempted) :
          /\ Acquire(s)
          /\ fetch' = [fetch EXCEPT ![f] =
               [Attempt(F, slot[s].client) EXCEPT
                  !.armed = F.armed \/ Armed(Attempt(F, slot[s].client))]]
    BY DEF LaunchNext
  <1>2. s \in States /\ slot[s].client \notin F.attempted
    BY <1>1 DEF Eligible, Available
  <1>3. Attempt(F, slot[s].client) \in FetchState
    BY <1>2, Held, FetchesType
  <1>4. Sent(F, Attempt(F, slot[s].client), slot[s].client)
    BY DEF Sent, Attempt, FetchState
  <1>5. fetch'[f] = [Attempt(F, slot[s].client) EXCEPT
                       !.armed = F.armed \/ Armed(Attempt(F, slot[s].client))]
    BY <1>1 DEF TypeOK
  <1>6. Sent(F, fetch'[f], slot[s].client)
    BY <1>3, <1>4, <1>5 DEF Sent, FetchState
  <1>7. \A g \in Fetch \ {f} : fetch'[g] = fetch[g]
    BY <1>1 DEF TypeOK
  <1> QED BY <1>1, <1>2, <1>6, <1>7

\* What a fetch becomes in a step of its own.
LEMMA FetchEffects ==
    ASSUME TypeOK, NEW f \in Fetch
    PROVE  /\ FetchBegins(f) => \E s \in States :
                /\ Acquire(s) /\ fetch[f].sent = {} /\ fetch[f].condemned = {}
                /\ \A g \in Fetch \ {f} : fetch'[g] = fetch[g]
                /\ Sent(NoFetch, fetch'[f], slot[s].client)
           /\ HedgeTimer(f) =>
                \/ /\ UNCHANGED slot /\ \A g \in Fetch \ {f} : fetch'[g] = fetch[g]
                   /\ fetch'[f].sent = fetch[f].sent
                   /\ fetch'[f].condemned = fetch[f].condemned
                   /\ fetch'[f].results = fetch[f].results
                   /\ fetch'[f].running = fetch[f].running
                   /\ fetch'[f].attempted = fetch[f].attempted
                \/ \E s \in States :
                     /\ Acquire(s) /\ slot[s].client \notin fetch[f].attempted
                     /\ \A g \in Fetch \ {f} : fetch'[g] = fetch[g]
                     /\ Sent(fetch[f], fetch'[f], slot[s].client)
                     /\ fetch[f].running
           /\ Receive(f) =>
                \/ /\ UNCHANGED slot /\ \A g \in Fetch \ {f} : fetch'[g] = fetch[g]
                   /\ fetch'[f].sent = fetch[f].sent
                   /\ fetch'[f].condemned = fetch[f].condemned
                   /\ \/ ~fetch'[f].running
                      \/ /\ fetch'[f].running = fetch[f].running
                         /\ fetch'[f].attempted = fetch[f].attempted
                         /\ ~Finished(fetch'[f], FALSE)
                \/ \E s \in States :
                     /\ Acquire(s) /\ slot[s].client \notin fetch[f].attempted
                     /\ \A g \in Fetch \ {f} : fetch'[g] = fetch[g]
                     /\ fetch'[f].sent = fetch[f].sent \cup {slot[s].client}
                     /\ fetch'[f].attempted = fetch[f].attempted \cup {slot[s].client}
                     /\ fetch[f].running
           /\ Deadline(f) =>
                /\ UNCHANGED slot /\ \A g \in Fetch \ {f} : fetch'[g] = fetch[g]
                /\ fetch'[f].sent = fetch[f].sent
                /\ ~fetch'[f].running
  <1>1. \A F \in FetchState : ~Over(F).running /\ Over(F).sent = F.sent
                              /\ Over(F).condemned = F.condemned
    BY DEF Over, NoFetch, FetchState
  <1>2. fetch[f] \in FetchState
    BY DEF TypeOK
  <1>3. ASSUME FetchBegins(f)
        PROVE  \E s \in States :
                 /\ Acquire(s) /\ fetch[f].sent = {} /\ fetch[f].condemned = {}
                 /\ \A g \in Fetch \ {f} : fetch'[g] = fetch[g]
                 /\ Sent(NoFetch, fetch'[f], slot[s].client)
    <2>1. PICK s \in States :
            /\ Acquire(s)
            /\ fetch' = [fetch EXCEPT ![f] =
                 Attempt([NoFetch EXCEPT !.running = TRUE, !.armed = TRUE], slot[s].client)]
      BY <1>3 DEF FetchBegins, Eligible, Available
    <2>2. fetch'[f] = Attempt([NoFetch EXCEPT !.running = TRUE, !.armed = TRUE], slot[s].client)
      BY <2>1 DEF TypeOK
    <2>3. Sent(NoFetch, fetch'[f], slot[s].client)
      BY <2>2 DEF Sent, Attempt, NoFetch
    <2> QED BY <1>3, <2>1, <2>3 DEF FetchBegins, TypeOK
  <1>4. ASSUME HedgeTimer(f)
        PROVE  \/ /\ UNCHANGED slot /\ \A g \in Fetch \ {f} : fetch'[g] = fetch[g]
                  /\ fetch'[f].sent = fetch[f].sent
                  /\ fetch'[f].condemned = fetch[f].condemned
                  /\ fetch'[f].results = fetch[f].results
                  /\ fetch'[f].running = fetch[f].running
                  /\ fetch'[f].attempted = fetch[f].attempted
               \/ \E s \in States :
                    /\ Acquire(s) /\ slot[s].client \notin fetch[f].attempted
                    /\ \A g \in Fetch \ {f} : fetch'[g] = fetch[g]
                    /\ Sent(fetch[f], fetch'[f], slot[s].client)
                    /\ fetch[f].running
    <2> DEFINE F == [fetch[f] EXCEPT !.armed = FALSE]
    <2>1. /\ F \in FetchState /\ F.running = fetch[f].running
          /\ F.sent = fetch[f].sent /\ F.condemned = fetch[f].condemned
          /\ F.results = fetch[f].results /\ F.attempted = fetch[f].attempted
      BY <1>2 DEF FetchState
    <2>2. fetch[f].running
      BY <1>4 DEF HedgeTimer
    <2>3. CASE UNCHANGED slot /\ fetch' = [fetch EXCEPT ![f].armed = FALSE]
      BY <1>2, <2>3 DEF TypeOK, FetchState
    <2>4. CASE LaunchNext(f, F)
      <3> HIDE DEF F
      <3>1. PICK s \in States :
              /\ Acquire(s) /\ slot[s].client \notin F.attempted
              /\ \A g \in Fetch \ {f} : fetch'[g] = fetch[g]
              /\ Sent(F, fetch'[f], slot[s].client)
        BY <2>1, <2>2, <2>4, Launches
      <3> QED BY <2>1, <2>2, <3>1 DEF Sent
    <2> QED BY <1>4, <2>3, <2>4 DEF HedgeTimer
  <1>5. ASSUME Receive(f)
        PROVE  \/ /\ UNCHANGED slot /\ \A g \in Fetch \ {f} : fetch'[g] = fetch[g]
                  /\ fetch'[f].sent = fetch[f].sent
                  /\ fetch'[f].condemned = fetch[f].condemned
                  /\ \/ ~fetch'[f].running
                     \/ /\ fetch'[f].running = fetch[f].running
                        /\ fetch'[f].attempted = fetch[f].attempted
                        /\ ~Finished(fetch'[f], FALSE)
               \/ \E s \in States :
                    /\ Acquire(s) /\ slot[s].client \notin fetch[f].attempted
                    /\ \A g \in Fetch \ {f} : fetch'[g] = fetch[g]
                    /\ fetch'[f].sent = fetch[f].sent \cup {slot[s].client}
                    /\ fetch'[f].attempted = fetch[f].attempted \cup {slot[s].client}
                    /\ fetch[f].running
    <2> DEFINE F == [fetch[f] EXCEPT !.results = Tail(@)]
               ok == Head(fetch[f].results)
    <2>1. /\ F \in FetchState /\ F.running = fetch[f].running
          /\ F.sent = fetch[f].sent /\ F.condemned = fetch[f].condemned
          /\ F.attempted = fetch[f].attempted
      <3>1. F \in FetchState
        BY <1>2, <1>5, TailType DEF Receive
      <3> QED BY <1>2, <3>1 DEF FetchState
    <2>2. fetch[f].running
      BY <1>5 DEF Receive
    <2>3. CASE /\ fetch' = [fetch EXCEPT ![f] = IF Finished(F, ok) THEN Over(F) ELSE F]
               /\ UNCHANGED slot
      <3> HIDE DEF F, ok
      <3>1. fetch'[f] = IF Finished(F, ok) THEN Over(F) ELSE F
        BY <2>3 DEF TypeOK
      <3>2. \A g \in Fetch \ {f} : fetch'[g] = fetch[g]
        BY <2>3 DEF TypeOK
      <3>3. CASE Finished(F, ok)
        BY <1>1, <2>1, <2>3, <3>1, <3>2, <3>3
      <3>4. CASE ~Finished(F, ok)
        <4>1. fetch'[f] = F /\ ~Finished(F, FALSE)
          BY <3>1, <3>4 DEF Finished
        <4> QED BY <2>1, <2>3, <3>2, <4>1
      <3> QED BY <3>3, <3>4
    <2>4. CASE LaunchNext(f, F)
      <3> HIDE DEF F
      <3>1. PICK s \in States :
              /\ Acquire(s) /\ slot[s].client \notin F.attempted
              /\ \A g \in Fetch \ {f} : fetch'[g] = fetch[g]
              /\ Sent(F, fetch'[f], slot[s].client)
        BY <2>1, <2>2, <2>4, Launches
      <3> QED BY <2>1, <2>2, <3>1 DEF Sent
    <2> QED BY <1>5, <2>3, <2>4 DEF Receive
  <1>6. ASSUME Deadline(f)
        PROVE  /\ UNCHANGED slot /\ \A g \in Fetch \ {f} : fetch'[g] = fetch[g]
               /\ fetch'[f].sent = fetch[f].sent
               /\ ~fetch'[f].running
    <2>1. fetch'[f] = Over(fetch[f])
      BY <1>6 DEF Deadline, TypeOK
    <2> QED BY <1>1, <1>2, <1>6, <2>1 DEF Deadline, TypeOK, pool
  <1> QED BY <1>3, <1>4, <1>5, <1>6

\* A result is sent: it is there to be read if anybody listens.
LEMMA SendsEffect ==
    ASSUME NEW F \in FetchState, NEW ok \in BOOLEAN
    PROVE  /\ Sends(F, ok).sent = F.sent /\ Sends(F, ok).condemned = F.condemned
           /\ Sends(F, ok).running = F.running
           /\ Sends(F, ok).attempted = F.attempted
           /\ F.running => Sends(F, ok).results # <<>>
  <1>1. Append(F.results, ok) # <<>>
    BY AppendProperties DEF FetchState
  <1> QED BY <1>1 DEF Sends, FetchState

\* What a fetch becomes when the pool has dealt with one of its requests.
LEMMA ReportEffects ==
    ASSUME TypeOK, NEW f \in Fetch, NEW c \in Client, Report(f, c) \/ Replace(f, c)
    PROVE  /\ \A g \in Fetch \ {f} : fetch'[g] = fetch[g]
           /\ fetch'[f].running = fetch[f].running
           /\ fetch'[f].attempted = fetch[f].attempted
           /\ Report(f, c) => c \in fetch[f].sent /\ fetch'[f].sent = fetch[f].sent \ {c}
           /\ Replace(f, c) => fetch'[f].sent = fetch[f].sent
           /\ fetch'[f].running => \/ fetch'[f].results # <<>>
                                   \/ fetch'[f].condemned # {}
  <1> DEFINE Effect ==
        /\ \A g \in Fetch \ {f} : fetch'[g] = fetch[g]
        /\ fetch'[f].running = fetch[f].running
        /\ fetch'[f].attempted = fetch[f].attempted
        /\ fetch'[f].running => \/ fetch'[f].results # <<>>
                                \/ fetch'[f].condemned # {}
  <1>1. fetch[f] \in FetchState
    BY DEF TypeOK
  <1>2. ASSUME NEW ok \in BOOLEAN, Answered(f, c, ok)
        PROVE  Effect /\ fetch'[f].sent = fetch[f].sent \ {c}
    <2> DEFINE F == [fetch[f] EXCEPT !.sent = @ \ {c}]
    <2>1. /\ F \in FetchState /\ F.sent = fetch[f].sent \ {c}
          /\ F.running = fetch[f].running /\ F.attempted = fetch[f].attempted
      BY <1>1, FetchesType DEF FetchState
    <2>2. fetch'[f] = Sends(F, ok) /\ \A g \in Fetch \ {f} : fetch'[g] = fetch[g]
      BY <1>2 DEF Answered, TypeOK
    <2> HIDE DEF F
    <2> QED BY <2>1, <2>2, SendsEffect
  <1>3. ASSUME Report(f, c)
        PROVE  Effect /\ c \in fetch[f].sent /\ fetch'[f].sent = fetch[f].sent \ {c}
    <2>1. CASE \E ok \in BOOLEAN : Answered(f, c, ok)
      BY <1>2, <1>3, <2>1 DEF Report, ReportIgnored, ReportSuccess, ReportFailure
    <2>2. CASE fetch' = [fetch EXCEPT ![f].sent = @ \ {c}, ![f].condemned = @ \cup {c}]
      <3>1. /\ fetch'[f] = [fetch[f] EXCEPT !.sent = @ \ {c}, !.condemned = @ \cup {c}]
            /\ \A g \in Fetch \ {f} : fetch'[g] = fetch[g]
        BY <2>2 DEF TypeOK
      <3>2. /\ fetch'[f].sent = fetch[f].sent \ {c}
            /\ fetch'[f].condemned = fetch[f].condemned \cup {c}
            /\ fetch'[f].running = fetch[f].running
            /\ fetch'[f].attempted = fetch[f].attempted
        BY <1>1, <3>1 DEF FetchState
      <3> QED BY <1>3, <3>1, <3>2 DEF Report, ReportIgnored, ReportSuccess, ReportFailure
    <2> QED BY <1>3, <2>1, <2>2 DEF Report, ReportIgnored, ReportSuccess, ReportFailure
  <1>4. ASSUME Replace(f, c) PROVE Effect /\ fetch'[f].sent = fetch[f].sent
    <2> DEFINE F == [fetch[f] EXCEPT !.condemned = @ \ {c}]
    <2>1. /\ F \in FetchState /\ F.sent = fetch[f].sent
          /\ F.running = fetch[f].running /\ F.attempted = fetch[f].attempted
      BY <1>1, FetchesType DEF FetchState
    <2>2. fetch'[f] = Sends(F, FALSE) /\ \A g \in Fetch \ {f} : fetch'[g] = fetch[g]
      BY <1>4 DEF Replace, TypeOK
    <2> HIDE DEF F
    <2> QED BY <2>1, <2>2, SendsEffect
  <1> QED BY <1>3, <1>4

\* Steps of others leave the fetches alone.
LEMMA FetchesAlone ==
    ASSUME \/ Reconcile \/ UNCHANGED vars
           \/ \E s \in Slot : SwapReserves(s) \/ SwapFindsNone(s) \/ SwapEnds(s)
           \/ \E p \in Proxy : QuarantineEnds(p)
           \/ \E k \in Keeper : KeeperStep(k)
    PROVE  UNCHANGED fetch
  BY DEF Reconcile, SwapReserves, SwapFindsNone, SwapEnds, QuarantineEnds, KeeperStep,
         EnsureSizeBegins, EnsureSizeReserves, EnsureSizeAdds, EnsureSizeEnds, vars

LEMMA ClientsFinite == IsFiniteSet(Client)
  <1>1. IsFiniteSet(1..Generations)
    BY FS_Interval, PoolAssumption DEF PoolAssumption
  <1> QED BY <1>1, FS_Product, PoolAssumption DEF Client, PoolAssumption

\* When all answers were read, the loop has ended.
LEMMA AllRead ==
    ASSUME NEW F \in FetchState, F.sent = {}, F.condemned = {}, F.results = <<>>
    PROVE  Finished(F, FALSE)
  <1>1. IsFiniteSet(F.attempted)
    BY ClientsFinite, FS_Subset DEF FetchState
  <1>2. Cardinality(F.attempted) \in Nat
    BY <1>1, FS_CardinalityType
  <1>3. F.attempted \ (F.sent \cup F.condemned) = F.attempted
    OBVIOUS
  <1>4. Len(F.results) = 0
    OBVIOUS
  <1> QED BY <1>2, <1>3, <1>4 DEF Finished, Completed

\* Every step leaves a running fetch something to wait for.
LEMMA NextOwed == TypeOK /\ AnswerOwed /\ [Next]_vars => AnswerOwed'
  <1> SUFFICES ASSUME TypeOK, AnswerOwed, [Next]_vars PROVE AnswerOwed'
    OBVIOUS
  <1> USE DEF AnswerOwed
  <1>1. UNCHANGED fetch => AnswerOwed'
    OBVIOUS
  <1>2. ASSUME NEW f \in Fetch, NEW c \in Client, Report(f, c) \/ Replace(f, c)
        PROVE  AnswerOwed'
    BY <1>2, ReportEffects
  <1>3. ASSUME NEW f \in Fetch, FetchBegins(f) PROVE AnswerOwed'
    <2>1. /\ \A g \in Fetch \ {f} : fetch'[g] = fetch[g]
          /\ \E s \in States : Sent(NoFetch, fetch'[f], slot[s].client)
      BY <1>3, FetchEffects
    <2>2. fetch'[f].sent # {}
      BY <2>1 DEF Sent
    <2> QED BY <2>1, <2>2
  <1>4. ASSUME NEW f \in Fetch, HedgeTimer(f) PROVE AnswerOwed'
    <2>1. \A g \in Fetch \ {f} : fetch'[g] = fetch[g]
      BY <1>4, FetchEffects
    <2>2. CASE \E s \in States : Sent(fetch[f], fetch'[f], slot[s].client)
      <3>1. fetch'[f].sent # {}
        BY <2>2 DEF Sent
      <3> QED BY <2>1, <3>1
    <2>3. CASE /\ fetch'[f].sent = fetch[f].sent
               /\ fetch'[f].condemned = fetch[f].condemned
               /\ fetch'[f].results = fetch[f].results
               /\ fetch'[f].running = fetch[f].running
      BY <2>1, <2>3
    <2> QED BY <1>4, <2>2, <2>3, FetchEffects
  <1>5. ASSUME NEW f \in Fetch, Deadline(f) PROVE AnswerOwed'
    BY <1>5, FetchEffects
  <1>6. ASSUME NEW f \in Fetch, Receive(f) PROVE AnswerOwed'
    <2>1. fetch'[f] \in FetchState
      BY NextTypeOK DEF TypeOK
    <2>2. CASE fetch'[f].sent \cup fetch'[f].condemned = {} /\ fetch'[f].results = <<>>
      <3>1. Finished(fetch'[f], FALSE)
        BY <2>1, <2>2, AllRead
      <3> QED BY <1>6, <2>2, <3>1, FetchEffects
    <2>3. CASE fetch'[f].sent \cup fetch'[f].condemned # {} \/ fetch'[f].results # <<>>
      BY <1>6, <2>3, FetchEffects
    <2> QED BY <2>2, <2>3
  <1> QED BY <1>1, <1>2, <1>3, <1>4, <1>5, <1>6, FetchesAlone DEF Next, FetchStep

\* AnswerOwed, always: whatever the order of results, timers and failures, the
\* loop of a fetch ends with the last of its requests at the latest.
THEOREM AnswersOwed == Spec => []AnswerOwed
  <1>1. Init => AnswerOwed
    BY DEF Init, AnswerOwed, NoFetch
  <1> QED BY <1>1, InitTypeOK, NextTypeOK, NextOwed, PTL DEF Spec

-----------------------------------------------------------------------------
(* The counts of requests under way *)

\* A pointer leads to one slot, and a running fetch has tried whom it asks.
Distinct == \A s, t \in States : slot[s].client = slot[t].client => s = t
Tried    == \A f \in Fetch : fetch[f].running => fetch[f].sent \subseteq fetch[f].attempted

Asking(c) == {f \in Fetch : c \in fetch[f].sent}

LEMMA InitCounted == Init => RequestsAccounted /\ Distinct /\ Tried
  <1> SUFFICES ASSUME Init PROVE RequestsAccounted /\ Distinct /\ Tried
    OBVIOUS
  <1>1. \A c : {f \in Fetch : c \in fetch[f].sent} = {}
    BY DEF Init, NoFetch
  <1>2. \A s \in States : \E c \in Client : slot[s] = NewState(c)
    BY DEF Init, States
  <1>3. RequestsAccounted
    <2> SUFFICES ASSUME NEW s \in States
                 PROVE  slot[s].inFlight =
                          Cardinality({f \in Fetch : slot[s].client \in fetch[f].sent})
      BY DEF RequestsAccounted
    <2>1. slot[s].inFlight = 0
      <3>1. PICK c \in Client : slot[s] = NewState(c)
        BY <1>2
      <3> QED BY <3>1 DEF NewState
    <2>2. Cardinality({f \in Fetch : slot[s].client \in fetch[f].sent}) = 0
      BY <1>1, FS_EmptySet
    <2> QED BY <2>1, <2>2
  <1>4. Distinct
    <2> SUFFICES ASSUME NEW s \in States, NEW t \in States,
                        slot[s].client = slot[t].client
                 PROVE  s = t
      BY DEF Distinct
    <2>1. PICK c \in Client : slot[s] = NewState(c)
      BY <1>2
    <2>2. PICK d \in Client : slot[t] = NewState(d)
      BY <1>2
    <2>3. slot[s].client = c /\ slot[t].client = d
      BY <2>1, <2>2 DEF NewState
    <2>4. slot[s] = slot[t]
      BY <2>1, <2>2, <2>3
    <2> QED BY <2>4 DEF Init
  <1>5. Tried
    BY DEF Init, Tried, NoFetch
  <1> QED BY <1>3, <1>4, <1>5

\* The fetches that ask a client: one more, or one fewer.
LEMMA Counting ==
    ASSUME NEW f \in Fetch, NEW c
    PROVE  /\ Cardinality(Asking(c)) \in Nat
           /\ (\A g \in Fetch : c \in fetch'[g].sent <=> c \in fetch[g].sent)
                => Cardinality(Asking(c)') = Cardinality(Asking(c))
           /\ c \notin fetch[f].sent /\ c \in fetch'[f].sent
              /\ (\A g \in Fetch \ {f} : fetch'[g] = fetch[g])
                => Cardinality(Asking(c)') = Cardinality(Asking(c)) + 1
           /\ c \in fetch[f].sent /\ c \notin fetch'[f].sent
              /\ (\A g \in Fetch \ {f} : fetch'[g] = fetch[g])
                => /\ Cardinality(Asking(c)') = Cardinality(Asking(c)) - 1
                   /\ Cardinality(Asking(c)) > 0
  <1>1. IsFiniteSet(Fetch)
    BY PoolAssumption DEF PoolAssumption
  <1>2. IsFiniteSet(Asking(c)) /\ IsFiniteSet(Asking(c)')
    BY <1>1, FS_Subset DEF Asking
  <1>3. Cardinality(Asking(c)) \in Nat /\ Cardinality(Asking(c)') \in Nat
    BY <1>2, FS_CardinalityType
  <1>4. ASSUME \A g \in Fetch : c \in fetch'[g].sent <=> c \in fetch[g].sent
        PROVE  Asking(c)' = Asking(c)
    BY <1>4 DEF Asking
  <1>5. ASSUME c \notin fetch[f].sent, c \in fetch'[f].sent,
               \A g \in Fetch \ {f} : fetch'[g] = fetch[g]
        PROVE  Cardinality(Asking(c)') = Cardinality(Asking(c)) + 1
    <2>1. Asking(c)' = Asking(c) \cup {f} /\ f \notin Asking(c)
      BY <1>5 DEF Asking
    <2> QED BY <1>2, <2>1, FS_AddElement
  <1>6. ASSUME c \in fetch[f].sent, c \notin fetch'[f].sent,
               \A g \in Fetch \ {f} : fetch'[g] = fetch[g]
        PROVE  Cardinality(Asking(c)) = Cardinality(Asking(c)') + 1
    <2>1. Asking(c) = Asking(c)' \cup {f} /\ f \notin Asking(c)'
      BY <1>6 DEF Asking
    <2> QED BY <1>2, <2>1, FS_AddElement
  <1> QED BY <1>3, <1>4, <1>5, <1>6


\* A step that changes neither the clients nor who asks them.
LEMMA SameCounts ==
    ASSUME RequestsAccounted, Distinct, KeepsClients,
           \A s \in States' : slot'[s].inFlight = slot[s].inFlight,
           \A g \in Fetch : fetch'[g].sent = fetch[g].sent
    PROVE  RequestsAccounted' /\ Distinct'
  <1>1. ASSUME NEW s \in States'
        PROVE  slot'[s].inFlight = Cardinality({g \in Fetch : slot'[s].client \in fetch'[g].sent})
    <2>1. {g \in Fetch : slot'[s].client \in fetch'[g].sent}
            = {g \in Fetch : slot[s].client \in fetch[g].sent}
      BY DEF KeepsClients
    <2> QED BY <2>1 DEF RequestsAccounted, KeepsClients
  <1>2. Distinct'
    BY DEF Distinct, KeepsClients
  <1> QED BY <1>1, <1>2 DEF RequestsAccounted

\* A step that lends a client to a fetch.
LEMMA BorrowCounts ==
    ASSUME TypeOK, RequestsAccounted, Distinct,
           NEW f \in Fetch, NEW s \in States, Acquire(s),
           slot[s].client \notin fetch[f].sent,
           fetch'[f].sent = fetch[f].sent \cup {slot[s].client},
           \A g \in Fetch \ {f} : fetch'[g] = fetch[g]
    PROVE  RequestsAccounted' /\ Distinct'
  <1>1. \A t \in Slot : slot'[t] = IF t = s THEN [slot[s] EXCEPT !.inFlight = @ + 1] ELSE slot[t]
    BY DEF Acquire, TypeOK, States
  <1>2. slot[s] \in State /\ slot[s].inFlight \in Nat
    BY Held
  <1>3. SameClients
    BY BorrowingSame
  <1>4. slot'[s].inFlight = slot[s].inFlight + 1
    BY <1>1, <1>2 DEF State, States
  <1>5. ASSUME NEW t \in States'
        PROVE  slot'[t].inFlight = Cardinality({g \in Fetch : slot'[t].client \in fetch'[g].sent})
    <2>1. t \in States /\ slot'[t].client = slot[t].client
      BY <1>3 DEF SameClients
    <2>2. PICK c : c = slot[t].client
      OBVIOUS
    <2>3. slot[t].inFlight = Cardinality(Asking(c))
      BY <2>1, <2>2 DEF RequestsAccounted, Asking
    <2>4. slot'[t].inFlight = Cardinality(Asking(c)')
      <3>1. CASE t = s
        BY <1>4, <2>2, <2>3, <3>1, Counting
      <3>2. CASE t # s
        <4>1. c # slot[s].client
          BY <2>1, <2>2, <3>2 DEF Distinct
        <4>2. \A g \in Fetch : c \in fetch'[g].sent <=> c \in fetch[g].sent
          BY <4>1
        <4>3. slot'[t] = slot[t]
          BY <1>1, <2>1, <3>2 DEF States
        <4> QED BY <2>3, <4>2, <4>3, Counting
      <3> QED BY <3>1, <3>2
    <2> QED BY <2>1, <2>2, <2>4 DEF Asking
  <1>6. Distinct'
    BY <1>3 DEF Distinct, SameClients
  <1> QED BY <1>5, <1>6 DEF RequestsAccounted

\* A step that puts a client into a slot which nobody has asked yet.
LEMMA InstallCounts ==
    ASSUME TypeOK, RequestsAccounted, Distinct, UNCHANGED fetch,
           NEW p, NEW c \in NewClient(p), NEW s \in Slot,
           slot'[s].client = c, slot'[s].inFlight = 0,
           \A t \in Slot \ {s} : slot'[t] = slot[t]
    PROVE  RequestsAccounted' /\ Distinct'
  <1>1. /\ \A t \in States : slot[t].client # c
        /\ {g \in Fetch : c \in fetch[g].sent} = {}
    BY DEF NewClient, Known, Find
  <1>2. ASSUME NEW t \in States'
        PROVE  slot'[t].inFlight = Cardinality({g \in Fetch : slot'[t].client \in fetch'[g].sent})
    <2>1. CASE t = s
      BY <1>1, <2>1, FS_EmptySet
    <2>2. CASE t # s
      <3>1. t \in States /\ slot'[t] = slot[t]
        BY <2>2 DEF States
      <3> QED BY <3>1 DEF RequestsAccounted
    <2> QED BY <2>1, <2>2
  <1>3. Distinct'
    BY <1>1 DEF Distinct, States
  <1> QED BY <1>2, <1>3 DEF RequestsAccounted

\* A step that ends a request.
LEMMA ReturnCounts ==
    ASSUME TypeOK, RequestsAccounted, Distinct,
           NEW f \in Fetch, NEW c \in Client, Report(f, c)
    PROVE  RequestsAccounted' /\ Distinct'
  <1>1. /\ c \in fetch[f].sent /\ fetch'[f].sent = fetch[f].sent \ {c}
        /\ \A g \in Fetch \ {f} : fetch'[g] = fetch[g]
    BY ReportEffects
  <1>2. SameClients
    BY FetchingSame
  <1>3. ASSUME NEW s \in States'
        PROVE  slot'[s].inFlight = IF slot[s].client # c THEN slot[s].inFlight
                                   ELSE IF slot[s].inFlight > 0 THEN slot[s].inFlight - 1 ELSE 0
    <2>1. s \in States /\ s \in Slot /\ slot[s] \in State /\ slot'[s] # None
      BY <1>2, Held DEF SameClients, States
    <2>2. CASE ReportIgnored(f, c)
      <3>1. slot'[s] = IF s \in Find(c) THEN Returned(s) ELSE slot[s]
        BY <2>1, <2>2 DEF ReportIgnored
      <3> QED BY <2>1, <3>1, ReturnedSame DEF Find
    <2>3. ASSUME NEW t \in Find(c), NEW n, Returned(t) # None,
                 slot' = [slot EXCEPT ![t] = [Returned(t) EXCEPT !.failures = n]]
          PROVE  slot'[s].inFlight = IF slot[s].client # c THEN slot[s].inFlight
                                     ELSE IF slot[s].inFlight > 0 THEN slot[s].inFlight - 1 ELSE 0
      <3>1. t \in States /\ slot[t].client = c
        BY DEF Find
      <3>2. CASE s = t
        <4>1. slot'[s] = [Returned(s) EXCEPT !.failures = n]
          BY <2>1, <2>3, <3>2 DEF TypeOK
        <4>2. /\ Returned(s) \in State
              /\ Returned(s).inFlight = IF slot[s].inFlight > 0 THEN slot[s].inFlight - 1 ELSE 0
          BY <2>1, <2>3, <3>2, ReturnedSame
        <4>3. slot'[s].inFlight = Returned(s).inFlight
          BY <4>1, <4>2 DEF State
        <4> QED BY <3>1, <3>2, <4>2, <4>3
      <3>3. CASE s # t
        BY <2>1, <2>3, <3>1, <3>3 DEF TypeOK, Distinct
      <3> QED BY <3>2, <3>3
    <2>4. CASE ReportSuccess(f, c)
      BY <2>3, <2>4 DEF ReportSuccess
    <2>5. CASE ReportFailure(f, c)
      BY <2>3, <2>5 DEF ReportFailure
    <2> QED BY <2>2, <2>4, <2>5 DEF Report
  <1>4. ASSUME NEW s \in States'
        PROVE  slot'[s].inFlight = Cardinality({g \in Fetch : slot'[s].client \in fetch'[g].sent})
    <2>1. s \in States /\ slot'[s].client = slot[s].client
      BY <1>2 DEF SameClients
    <2>2. PICK d : d = slot[s].client
      OBVIOUS
    <2>3. slot[s].inFlight = Cardinality(Asking(d))
      BY <2>1, <2>2 DEF RequestsAccounted, Asking
    <2>4. slot'[s].inFlight = Cardinality(Asking(d)')
      <3>1. CASE d = c
        <4>1. Cardinality(Asking(d)') = Cardinality(Asking(d)) - 1 /\ Cardinality(Asking(d)) > 0
          BY <1>1, <3>1, Counting
        <4> QED BY <1>3, <2>2, <2>3, <3>1, <4>1
      <3>2. CASE d # c
        <4>1. \A g \in Fetch : d \in fetch'[g].sent <=> d \in fetch[g].sent
          BY <1>1, <3>2
        <4>2. Cardinality(Asking(d)') = Cardinality(Asking(d))
          BY <4>1, Counting
        <4> QED BY <1>3, <2>2, <2>3, <3>2, <4>2
      <3> QED BY <3>1, <3>2
    <2> QED BY <2>1, <2>2, <2>4 DEF Asking
  <1>5. Distinct'
    BY <1>2 DEF Distinct, SameClients
  <1> QED BY <1>4, <1>5 DEF RequestsAccounted

\* Every step keeps the counts, the pointers and the memory of the fetches.
LEMMA NextCounted ==
    TypeOK /\ RequestsAccounted /\ Distinct /\ Tried /\ [Next]_vars
      => RequestsAccounted' /\ Distinct' /\ Tried'
  <1> SUFFICES ASSUME TypeOK, RequestsAccounted, Distinct, Tried, [Next]_vars
               PROVE  RequestsAccounted' /\ Distinct' /\ Tried'
    OBVIOUS
  <1>1. UNCHANGED fetch => Tried'
    BY DEF Tried
  <1>2. UNCHANGED slot => KeepsClients /\ \A s \in States' : slot'[s].inFlight = slot[s].inFlight
    BY DEF KeepsClients, States
  <1>3. CASE Reconcile
    <2>1. PICK snapshot : \A s \in Slot : slot'[s] = Reconciled(s, snapshot)
      BY <1>3 DEF Reconcile
    <2>2. ASSUME NEW s \in States'
          PROVE  /\ s \in States /\ slot'[s].client = slot[s].client
                 /\ slot'[s].inFlight = slot[s].inFlight
      <3>1. s \in Slot /\ slot'[s] = Reconciled(s, snapshot) /\ slot'[s] # None
        BY <2>1 DEF States
      <3>2. s \in States
        BY <3>1 DEF Reconciled, States
      <3>3. slot[s] \in State
        BY <3>2, Held
      <3> QED BY <3>1, <3>2, <3>3 DEF Reconciled, State
    <2> QED BY <1>1, <1>3, <2>2, SameCounts DEF Reconcile, KeepsClients
  <1>4. ASSUME NEW s \in Slot, slot' = [slot EXCEPT ![s] = Unmarked(s)], UNCHANGED fetch
        PROVE  RequestsAccounted' /\ Distinct'
    <2>1. \A t \in Slot : slot'[t] = IF t = s THEN Unmarked(s) ELSE slot[t]
      BY <1>4 DEF TypeOK
    <2>2. ASSUME NEW t \in States'
          PROVE  /\ t \in States /\ slot'[t].client = slot[t].client
                 /\ slot'[t].inFlight = slot[t].inFlight
      <3>1. t \in States
        BY <2>1 DEF Unmarked, States
      <3>2. slot[t] \in State
        BY <3>1, Held
      <3> QED BY <2>1, <3>1, <3>2 DEF Unmarked, State, States
    <2> QED BY <1>4, <2>2, SameCounts DEF KeepsClients
  <1>5. ASSUME NEW s \in Slot, SwapReserves(s) \/ SwapFindsNone(s) \/ SwapEnds(s)
        PROVE  RequestsAccounted' /\ Distinct' /\ Tried'
    <2>1. UNCHANGED fetch
      BY <1>5, FetchesAlone
    <2>2. CASE SwapReserves(s)
      BY <1>1, <1>2, <2>1, <2>2, SameCounts DEF SwapReserves
    <2>3. CASE slot' = [slot EXCEPT ![s] = Unmarked(s)]
      BY <1>1, <1>4, <2>1, <2>3
    <2>4. ASSUME s \in States, NEW c \in NewClient(swap[s]),
                 slot' = [slot EXCEPT ![s] = Installed(s, c)]
          PROVE  RequestsAccounted' /\ Distinct'
      <3>1. slot[s] \in State
        BY <2>4, Held
      <3>2. slot'[s].client = c /\ slot'[s].inFlight = 0
        BY <2>4, <3>1 DEF Installed, State, TypeOK
      <3>3. \A t \in Slot \ {s} : slot'[t] = slot[t]
        BY <2>4 DEF TypeOK
      <3>4. PICK p : p = swap[s]
        OBVIOUS
      <3>5. c \in NewClient(p)
        BY <3>4
      <3> QED BY <2>1, <3>2, <3>3, <3>5, InstallCounts
    <2> QED BY <1>1, <1>5, <2>1, <2>2, <2>3, <2>4 DEF SwapFindsNone, SwapEnds, States
  <1>6. ASSUME NEW k \in Keeper, KeeperStep(k)
        PROVE  RequestsAccounted' /\ Distinct' /\ Tried'
    <2>1. UNCHANGED fetch
      BY <1>6, FetchesAlone
    <2>2. CASE UNCHANGED slot
      BY <1>1, <1>2, <2>1, <2>2, SameCounts
    <2>3. ASSUME NEW s \in Slot \ States, NEW c \in NewClient(keeper[k].proxy),
                 slot' = [slot EXCEPT ![s] = NewState(c)]
          PROVE  RequestsAccounted' /\ Distinct'
      <3>1. slot'[s] = NewState(c) /\ \A t \in Slot \ {s} : slot'[t] = slot[t]
        BY <2>3 DEF TypeOK
      <3>2. slot'[s].client = c /\ slot'[s].inFlight = 0
        BY <3>1 DEF NewState
      <3>3. PICK p : p = keeper[k].proxy
        OBVIOUS
      <3>4. c \in NewClient(p)
        BY <3>3
      <3> QED BY <2>1, <3>1, <3>2, <3>4, InstallCounts
    <2> QED
      BY <1>1, <1>6, <2>1, <2>2, <2>3
      DEF KeeperStep, EnsureSizeBegins, EnsureSizeReserves, EnsureSizeAdds, EnsureSizeEnds
  <1>7. ASSUME NEW p \in Proxy, QuarantineEnds(p)
        PROVE  RequestsAccounted' /\ Distinct' /\ Tried'
    BY <1>1, <1>2, <1>7, SameCounts DEF QuarantineEnds
  <1>8. ASSUME NEW f \in Fetch, NEW c \in Client, Report(f, c)
        PROVE  RequestsAccounted' /\ Distinct' /\ Tried'
    BY <1>8, ReturnCounts, ReportEffects DEF Tried
  <1>9. ASSUME NEW f \in Fetch, NEW c \in Client, Replace(f, c)
        PROVE  RequestsAccounted' /\ Distinct' /\ Tried'
    <2>1. \A s \in Slot : \/ slot'[s] = slot[s]
                          \/ s \in States /\ slot'[s] = [slot[s] EXCEPT !.replacing = TRUE]
      BY <1>9 DEF Replace, Find
    <2>2. \A s \in States' : /\ s \in States /\ slot'[s].client = slot[s].client
                             /\ slot'[s].inFlight = slot[s].inFlight
      BY <2>1, Held DEF States, State
    <2>3. \A g \in Fetch : fetch'[g].sent = fetch[g].sent
      BY <1>9, ReportEffects
    <2>4. Tried'
      BY <1>9, ReportEffects DEF Tried
    <2> QED BY <2>2, <2>3, <2>4, SameCounts DEF KeepsClients
  <1>10. ASSUME NEW f \in Fetch, UNCHANGED slot, fetch'[f].sent = fetch[f].sent,
                \A g \in Fetch \ {f} : fetch'[g] = fetch[g]
         PROVE  RequestsAccounted' /\ Distinct'
    <2>1. \A g \in Fetch : fetch'[g].sent = fetch[g].sent
      BY <1>10
    <2> QED BY <1>2, <1>10, <2>1, SameCounts
  <1>11. ASSUME NEW f \in Fetch, NEW s \in States, Acquire(s), fetch[f].running,
                slot[s].client \notin fetch[f].attempted,
                \A g \in Fetch \ {f} : fetch'[g] = fetch[g],
                fetch'[f].sent = fetch[f].sent \cup {slot[s].client},
                fetch'[f].attempted = fetch[f].attempted \cup {slot[s].client}
         PROVE  RequestsAccounted' /\ Distinct' /\ Tried'
    <2>1. slot[s].client \notin fetch[f].sent
      BY <1>11 DEF Tried
    <2>2. Tried'
      BY <1>11 DEF Tried
    <2> QED BY <1>11, <2>1, <2>2, BorrowCounts
  <1>12. ASSUME NEW f \in Fetch, FetchBegins(f)
         PROVE  RequestsAccounted' /\ Distinct' /\ Tried'
    <2>1. PICK s \in States :
            /\ Acquire(s) /\ fetch[f].sent = {}
            /\ \A g \in Fetch \ {f} : fetch'[g] = fetch[g]
            /\ Sent(NoFetch, fetch'[f], slot[s].client)
      BY <1>12, FetchEffects
    <2>2. /\ fetch'[f].sent = fetch[f].sent \cup {slot[s].client}
          /\ fetch'[f].attempted = {slot[s].client}
      BY <2>1 DEF Sent, NoFetch
    <2>3. Tried'
      BY <2>1, <2>2 DEF Tried
    <2> QED BY <2>1, <2>2, <2>3, BorrowCounts
  <1>13. ASSUME NEW f \in Fetch, HedgeTimer(f)
         PROVE  RequestsAccounted' /\ Distinct' /\ Tried'
    <2>1. CASE /\ UNCHANGED slot /\ \A g \in Fetch \ {f} : fetch'[g] = fetch[g]
               /\ fetch'[f].sent = fetch[f].sent
               /\ fetch'[f].running = fetch[f].running
               /\ fetch'[f].attempted = fetch[f].attempted
      <3>1. Tried'
        BY <2>1 DEF Tried
      <3> QED BY <1>10, <2>1, <3>1
    <2>2. CASE \E s \in States :
                 /\ Acquire(s) /\ slot[s].client \notin fetch[f].attempted
                 /\ \A g \in Fetch \ {f} : fetch'[g] = fetch[g]
                 /\ Sent(fetch[f], fetch'[f], slot[s].client)
                 /\ fetch[f].running
      BY <1>11, <2>2 DEF Sent
    <2> QED BY <1>13, <2>1, <2>2, FetchEffects
  <1>14. ASSUME NEW f \in Fetch, Receive(f)
         PROVE  RequestsAccounted' /\ Distinct' /\ Tried'
    <2>1. CASE /\ UNCHANGED slot /\ \A g \in Fetch \ {f} : fetch'[g] = fetch[g]
               /\ fetch'[f].sent = fetch[f].sent
               /\ \/ ~fetch'[f].running
                  \/ /\ fetch'[f].running = fetch[f].running
                     /\ fetch'[f].attempted = fetch[f].attempted
      <3>1. Tried'
        BY <2>1 DEF Tried
      <3> QED BY <1>10, <2>1, <3>1
    <2>2. CASE \E s \in States :
                 /\ Acquire(s) /\ slot[s].client \notin fetch[f].attempted
                 /\ \A g \in Fetch \ {f} : fetch'[g] = fetch[g]
                 /\ fetch'[f].sent = fetch[f].sent \cup {slot[s].client}
                 /\ fetch'[f].attempted = fetch[f].attempted \cup {slot[s].client}
                 /\ fetch[f].running
      BY <1>11, <2>2
    <2> QED BY <1>14, <2>1, <2>2, FetchEffects
  <1>15. ASSUME NEW f \in Fetch, Deadline(f)
         PROVE  RequestsAccounted' /\ Distinct' /\ Tried'
    <2>1. /\ UNCHANGED slot /\ \A g \in Fetch \ {f} : fetch'[g] = fetch[g]
          /\ fetch'[f].sent = fetch[f].sent
          /\ ~fetch'[f].running
      BY <1>15, FetchEffects
    <2>2. Tried'
      BY <2>1 DEF Tried
    <2> QED BY <1>10, <2>1, <2>2
  <1>16. CASE UNCHANGED vars
    BY <1>1, <1>2, <1>16, SameCounts DEF vars, pool
  <1> QED
    BY <1>3, <1>5, <1>6, <1>7, <1>8, <1>9, <1>12, <1>13, <1>14, <1>15, <1>16
    DEF Next, FetchStep

\* RequestsAccounted, always: through replacements, late answers, retirement
\* and hedging, a client's count is the number of fetches that wait for it.
THEOREM RequestsAreAccounted == Spec => []RequestsAccounted
  BY InitTypeOK, NextTypeOK, InitCounted, NextCounted, PTL DEF Spec
================================================================================
