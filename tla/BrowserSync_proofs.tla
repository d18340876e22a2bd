-------------------------- MODULE BrowserSync_proofs --------------------------
(***************************************************************************)
(* Theorems about BrowserSync for every set of contexts, every length of   *)
(* the waits and every number of links and sessions.                       *)
(***************************************************************************)
EXTENDS BrowserSync, FiniteSetTheorems, SequenceTheorems, TLAPS

-----------------------------------------------------------------------------
(* Receipts *)

\* A receipt is not ahead of what the server accepted last, and neither is
\* ahead of the link and the cookie there are.  A pending request is not behind
\* the receipt it will replace.
ReceiptInv ==
    /\ \A c \in Context :
          /\ accepted[c][1] <= links /\ accepted[c][2] <= cookie[c].v
          /\ receipts[c] # None =>
                /\ receipts[c].token # 0
                /\ receipts[c].token <= accepted[c][1]
                /\ receipts[c].v <= accepted[c][2]
    /\ Running("post") =>
          /\ life.token # 0 /\ life.token <= links
          /\ life.v # 0 /\ life.v <= cookie[life.at].v
          /\ receipts[life.at] # None =>
                /\ receipts[life.at].token <= life.token
                /\ receipts[life.at].v <= life.v

-----------------------------------------------------------------------------
(* Types *)

\* The backoff doubles: 2 ^ n is the number of sets of n elements.
LEMMA PowerType == \A n \in Nat : 2 ^ n \in Nat
  <1> TAKE n \in Nat
  <1>1. IsFiniteSet(1..n) /\ Cardinality(1..n) = n
    BY FS_Interval
  <1>2. IsFiniteSet(SUBSET (1..n)) /\ Cardinality(SUBSET (1..n)) = 2 ^ n
    BY <1>1, FS_SUBSET
  <1> QED BY <1>2, FS_CardinalityType

LEMMA Sizes ==
    /\ RetryTicks \in Nat /\ MaxRetryTicks \in Nat /\ ActionTicks \in Nat
    /\ ReceiptTicks \in Nat /\ FailureCap \in Nat /\ FailureCap >= 1
    /\ MaxCookies \in Nat /\ MaxCookies >= 1 /\ MaxTokens \in Nat
    /\ RetryAfter \subseteq Nat
    /\ Context # {} /\ "alarm" \notin Context /\ "click" \notin Context
    /\ None \notin Entry
  BY BrowserSyncAssumption DEF BrowserSyncAssumption, Entry

LEMMA QueuedType ==
    ASSUME TypeOK, NEW j \in Job
    PROVE  Queued(j) \in Seq(Job) /\ Queued(j) # <<>>
  <1>1. CASE j \in ToSet(queue)
    <2>1. queue # <<>>
      BY <1>1 DEF ToSet
    <2> QED BY <1>1, <2>1 DEF Queued, TypeOK
  <1>2. CASE j \notin ToSet(queue)
    <2>1. queue \in Seq(Job)
      BY DEF TypeOK
    <2>2. Append(queue, j) \in Seq(Job) /\ Append(queue, j) # <<>>
      BY <2>1, AppendProperties
    <2> QED BY <1>2, <2>2 DEF Queued
  <1> QED BY <1>1, <1>2

\* A pass begins with its contexts and no request.
LEMMA StartType ==
    ASSUME TypeOK, NEW j \in Job, NEW n \in {1, 2}, StartPass(j, n)
    PROVE  life' \in Life /\ life'.pc = "sync"
  <1> DEFINE pass(cs, need) ==
          [pc |-> "sync", pass |-> n, todo |-> cs, need |-> need, done |-> {},
           at |-> CHOOSE c \in Context : TRUE, token |-> 0, v |-> 0,
           state |-> [c \in Context |-> None]]
  <1>1. (CHOOSE c \in Context : TRUE) \in Context
    BY Sizes
  <1>2. \A cs, need \in SUBSET Context : pass(cs, need) \in Life /\ pass(cs, need).pc = "sync"
    BY <1>1, Sizes DEF Life
  <1>3. CASE j = "alarm"
    <2>1. life' = pass(IF saved # {} THEN saved
                       ELSE {c \in Context : cookie[c].st # "none"}, {})
      BY <1>3 DEF StartPass
    <2>2. (IF saved # {} THEN saved ELSE {c \in Context : cookie[c].st # "none"})
             \in SUBSET Context
      BY DEF TypeOK
    <2> HIDE DEF pass
    <2> QED BY <1>2, <2>1, <2>2
  <1>4. CASE j = "click"
    <2>1. \E c \in Context : life' \in {pass({c}, {}), pass({}, {c}), pass({}, {})}
      BY <1>4 DEF StartPass
    <2> HIDE DEF pass
    <2> QED BY <1>2, <2>1
  <1>5. CASE j \in Context
    <2>1. life' = pass({j}, {})
      BY <1>5, Sizes DEF StartPass
    <2> HIDE DEF pass
    <2> QED BY <1>2, <1>5, <2>1
  <1> QED BY <1>3, <1>4, <1>5 DEF Job

\* The parts of the running lifecycle.
LEMMA LifeRow ==
    ASSUME TypeOK, life # None
    PROVE  /\ life \in Life /\ life.at \in Context
           /\ life.token \in 0..MaxTokens /\ life.v \in 0..MaxCookies
           /\ life.todo \subseteq Context /\ life.need \subseteq Context
           /\ life.done \subseteq Context
           /\ life.state \in [Context -> Entry \cup {None}]
           /\ queue \in Seq(Job) /\ queue # <<>>
           /\ Head(queue) \in Job /\ Tail(queue) \in Seq(Job)
  <1>1. life \in Life /\ queue \in Seq(Job) /\ queue # <<>>
    BY DEF TypeOK
  <1>2. Head(queue) \in Job /\ Tail(queue) \in Seq(Job)
    BY <1>1
  <1> QED BY <1>1, <1>2 DEF Life

LEMMA LeastType ==
    \A a, b \in Nat : Least(a, b) \in Nat /\ Most(a, b) \in Nat
                      /\ Least(a, b) <= a /\ Least(a, b) <= b
                      /\ Most(a, b) >= a /\ Most(a, b) >= b
  BY DEF Least, Most

LEMMA SoonerType ==
    /\ \A e \in Entry \cup {None} : Sooner(e) \in Entry \cup {None}
    /\ \A f \in [Context -> Entry \cup {None}] :
          SoonerAll(f) \in [Context -> Entry \cup {None}]
    /\ \A f \in [Context -> Receipt \cup {None}] :
          SoonerAll(f) \in [Context -> Receipt \cup {None}]
    /\ \A f \in [Context -> Nat] : CountDown(f) \in [Context -> Nat]
  <1>1. \A e \in Entry \cup {None} : Sooner(e) \in Entry \cup {None}
    BY DEF Sooner, Entry, Most
  <1>2. \A e \in Receipt \cup {None} : Sooner(e) \in Receipt \cup {None}
    BY Sizes DEF Sooner, Receipt, Most
  <1>3. \A n \in Nat : Most(n - 1, 0) \in Nat
    BY DEF Most
  <1> QED BY <1>1, <1>2, <1>3 DEF SoonerAll, CountDown

LEMMA InitType == Init => TypeOK
  <1> SUFFICES ASSUME Init PROVE TypeOK
    OBVIOUS
  <1>1. cookie \in [Context -> Cookie]
    BY Sizes DEF Init, Cookie
  <1>2. accepted \in [Context -> (0..MaxTokens) \X (0..MaxCookies)]
    BY Sizes DEF Init
  <1>3. links \in 0..MaxTokens /\ token \in {0, links}
    BY Sizes DEF Init
  <1>4. /\ receipts \in [Context -> Receipt \cup {None}]
        /\ refreshes \in [Context -> Entry \cup {None}]
        /\ limited \in [Context -> Nat] /\ interrupted \in [Context -> Nat]
    BY DEF Init
  <1>5. queue \in Seq(Job) /\ life = None /\ saved \subseteq Context
    BY DEF Init
  <1> QED BY <1>1, <1>2, <1>3, <1>4, <1>5 DEF TypeOK

\* An entry of the running lifecycle, or one without failures.
LEMMA PreviousType ==
    ASSUME TypeOK, life # None, NEW c \in Context
    PROVE  /\ Previous(c) \in Entry
           /\ Previous(c).left \in Nat /\ Previous(c).limit \in BOOLEAN
           /\ Failures(c) \in 0..FailureCap /\ Failures(c) - 1 \in Nat
  <1>1. life.state[c] \in Entry \cup {None}
    BY LifeRow
  <1>2. [failures |-> 0, left |-> 0, limit |-> FALSE] \in Entry
    BY Sizes DEF Entry
  <1>3. Previous(c) \in Entry
    BY <1>1, <1>2 DEF Previous
  <1>4. /\ Previous(c).failures \in 0..FailureCap
        /\ Previous(c).left \in Nat /\ Previous(c).limit \in BOOLEAN
    BY <1>3 DEF Entry
  <1>5. Failures(c) \in 0..FailureCap /\ Failures(c) - 1 \in Nat
    BY <1>4, Sizes DEF Failures, Least
  <1> QED BY <1>3, <1>4, <1>5

LEMMA RotateType ==
    ASSUME TypeOK, NEW c \in Context, Rotate(c)
    PROVE  /\ cookie' \in [Context -> Cookie]
           /\ cookie'[c].v = cookie[c].v + 1
           /\ \A d \in Context : cookie'[d].v >= cookie[d].v
  <1>1. cookie[c] \in Cookie /\ cookie[c].v \in 1..MaxCookies /\ cookie[c].v < MaxCookies
    BY DEF Rotate, TypeOK, Cookie
  <1> DEFINE k == [v |-> cookie[c].v + 1, st |-> "fresh"]
  <1>2. k \in Cookie /\ k.v = cookie[c].v + 1
    BY <1>1, Sizes DEF Cookie
  <1>3. cookie' = [cookie EXCEPT ![c] = k]
    BY DEF Rotate
  <1> HIDE DEF k
  <1>4. /\ cookie' \in [Context -> Cookie] /\ cookie'[c] = k
        /\ \A d \in Context : d # c => cookie'[d] = cookie[d]
    BY <1>2, <1>3 DEF TypeOK
  <1>5. \A d \in Context : cookie[d].v \in Nat
    BY Sizes DEF TypeOK, Cookie
  <1> QED BY <1>2, <1>4, <1>5

\* The answer to a refresh is stored, for its context.
LEMMA AnswerType ==
    ASSUME TypeOK, life # None, NEW e \in Entry \cup {None}, NEW ok \in BOOLEAN,
           Answer(e, ok)
    PROVE  /\ refreshes' = [life.state EXCEPT ![life.at] = e]
           /\ refreshes' \in [Context -> Entry \cup {None}]
           /\ interrupted' \in [Context -> Nat]
           /\ life' \in Life /\ life'.pc = "refresh" /\ life'.state = refreshes'
  <1>1. PICK s : s = [life.state EXCEPT ![life.at] = e]
    OBVIOUS
  <1>2. s \in [Context -> Entry \cup {None}]
    BY <1>1, LifeRow
  <1>3. refreshes' = s
    BY <1>1 DEF Answer
  <1>4. interrupted' = [interrupted EXCEPT ![life.at] = 0]
    BY DEF Answer
  <1>5. interrupted' \in [Context -> Nat]
    BY <1>4 DEF TypeOK
  <1>6. life' = [life EXCEPT !.pc = "refresh", !.state = s,
                             !.done = IF ok THEN @ \cup {life.at} ELSE @]
    BY <1>1 DEF Answer
  <1>7. life' \in Life /\ life'.pc = "refresh" /\ life'.state = s
    BY <1>2, <1>6, LifeRow DEF Life
  <1> QED BY <1>1, <1>2, <1>3, <1>5, <1>7

\* The wait after a failure.
LEMMA FailedEntry ==
    ASSUME TypeOK, Running("ask"), NEW kind \in {"action", "other", "limit"},
           NEW after \in Nat, RefreshFailed(kind, after)
    PROVE  \E e \in Entry : /\ Answer(e, FALSE)
                            /\ e.limit = (kind = "limit")
                            /\ kind = "limit" => e.left >= after
  <1>1. PICK c \in Context : c = life.at
    BY LifeRow DEF Running
  <1>2. PICK n : n = 2 ^ (Failures(c) - 1)
    OBVIOUS
  <1>3. Failures(c) \in 0..FailureCap /\ n \in Nat
    BY <1>2, PreviousType, PowerType DEF Running
  <1>4. PICK b : b = Least(RetryTicks * n, MaxRetryTicks)
    OBVIOUS
  <1>5. RetryTicks * n \in Nat
    BY <1>3, Sizes
  <1>6. b \in Nat
    BY <1>4, <1>5, LeastType, Sizes
  <1>7. PICK d : d = IF kind = "action" THEN ActionTicks ELSE Most(b, after)
    OBVIOUS
  <1>8. d \in Nat /\ (kind = "limit" => d >= after)
    BY <1>6, <1>7, LeastType, Sizes
  <1> DEFINE e == [failures |-> Failures(c), left |-> d, limit |-> kind = "limit"]
  <1>9. e \in Entry /\ e.limit = (kind = "limit") /\ e.left = d
    BY <1>3, <1>8 DEF Entry
  <1>10. Answer(e, FALSE)
    BY <1>1, <1>2, <1>4, <1>7 DEF RefreshFailed
  <1> HIDE DEF e
  <1> QED BY <1>8, <1>9, <1>10

\* A receipt is of a session: what is posted is not the absent one.
LEMMA StepType == TypeOK /\ ReceiptInv /\ Next => TypeOK'
  <1> SUFFICES ASSUME TypeOK, ReceiptInv, Next PROVE TypeOK'
    OBVIOUS
  <1> USE DEF storage, history
  <1>1. ASSUME Trigger PROVE TypeOK'
    <2>1. PICK j \in Job : queue' = Queued(j)
      BY <1>1 DEF Trigger, Alarm, Connect, ManualSync, ScheduleSync, Job
    <2>2. queue' \in Seq(Job) /\ queue' # <<>>
      BY <2>1, QueuedType
    <2>3. links' \in 0..MaxTokens /\ token' \in {0, links'}
      BY <1>1, Sizes DEF Trigger, Alarm, Connect, ManualSync, ScheduleSync, TypeOK
    <2>4. UNCHANGED <<saved, receipts, refreshes, cookie, life, history>>
      BY <1>1 DEF Trigger, Alarm, Connect, ManualSync, ScheduleSync
    <2> QED BY <2>2, <2>3, <2>4 DEF TypeOK
  <1>2. ASSUME ClearLocalExtensionState PROVE TypeOK'
    BY <1>2 DEF ClearLocalExtensionState, TypeOK
  <1>3. ASSUME WorkerStops PROVE TypeOK'
    BY <1>3 DEF WorkerStops, TypeOK
  <1>4. ASSUME Tick PROVE TypeOK'
    <2>1. /\ receipts' \in [Context -> Receipt \cup {None}]
          /\ refreshes' \in [Context -> Entry \cup {None}]
          /\ limited' \in [Context -> Nat] /\ interrupted' \in [Context -> Nat]
      BY <1>4, SoonerType DEF Tick, TypeOK
    <2>2. life' \in Life \cup {None} /\ (life' # None => life # None)
      <3>1. CASE life = None
        BY <1>4, <3>1 DEF Tick
      <3>2. CASE life # None
        <4>1. PICK s : s = SoonerAll(life.state)
          OBVIOUS
        <4>2. s \in [Context -> Entry \cup {None}]
          BY <3>2, <4>1, LifeRow, SoonerType
        <4>3. life' = [life EXCEPT !.state = s]
          BY <1>4, <3>2, <4>1 DEF Tick
        <4> QED BY <3>2, <4>2, <4>3, LifeRow DEF Life
      <3> QED BY <3>1, <3>2
    <2> QED BY <1>4, <2>1, <2>2 DEF Tick, TypeOK
  <1>5. ASSUME NEW c \in Context, SignIn(c) PROVE TypeOK'
    BY <1>5, RotateType DEF SignIn, TypeOK
  <1>6. ASSUME NEW c \in Context, NEW st \in {"expiring", "none"}, SessionEnds(c, st)
        PROVE TypeOK'
    <2>1. [cookie[c] EXCEPT !.st = st] \in Cookie
      BY DEF TypeOK, Cookie
    <2>2. cookie' \in [Context -> Cookie]
      BY <1>6, <2>1 DEF SessionEnds, TypeOK
    <2> QED BY <1>6, <2>2 DEF SessionEnds, TypeOK
  <1>7. ASSUME Begin PROVE TypeOK'
    <2>1. queue \in Seq(Job) /\ Head(queue) \in Job /\ Tail(queue) \in Seq(Job)
      BY <1>7 DEF Begin, TypeOK
    <2>2. CASE queue' = Tail(queue) /\ UNCHANGED life
      BY <1>7, <2>1, <2>2 DEF Begin, TypeOK
    <2>3. CASE StartPass(Head(queue), 1) /\ UNCHANGED queue
      <3>1. life' \in Life
        BY <2>1, <2>3, StartType
      <3> QED BY <1>7, <2>3, <3>1 DEF Begin, TypeOK
    <2> QED BY <1>7, <2>2, <2>3 DEF Begin
  <1>8. ASSUME NEW c \in Context, SyncContext(c) PROVE TypeOK'
    <2>1. life # None /\ life \in Life
      BY <1>8, LifeRow DEF SyncContext, Running
    <2>2. token \in 0..MaxTokens /\ cookie[c].v \in 0..MaxCookies
      BY Sizes DEF TypeOK, Cookie
    <2>3. [life EXCEPT !.todo = @ \ {c}] \in Life
      BY <2>1 DEF Life
    <2>4. life' \in Life
      BY <1>8, <2>1, <2>2, <2>3 DEF SyncContext, Life
    <2> QED BY <1>8, <2>1, <2>4 DEF SyncContext, TypeOK
  <1>9. ASSUME SyncCompleted PROVE TypeOK'
    <2>1. PICK c \in Context : c = life.at
      BY <1>9, LifeRow DEF SyncCompleted, Running
    <2>2. /\ life # None /\ life \in Life /\ queue # <<>>
          /\ life.token \in 0..MaxTokens /\ life.v \in 0..MaxCookies /\ life.v # 0
      BY <1>9, LifeRow DEF SyncCompleted, Running, ReceiptInv
    <2>3. [token |-> life.token, v |-> life.v, left |-> ReceiptTicks] \in Receipt
      BY <2>2, Sizes DEF Receipt
    <2>4. receipts' \in [Context -> Receipt \cup {None}]
      BY <1>9, <2>3 DEF SyncCompleted, TypeOK
    <2>5. refreshes' \in [Context -> Entry \cup {None}]
      BY <1>9 DEF SyncCompleted, TypeOK
    <2>6. <<life.token, life.v>> \in (0..MaxTokens) \X (0..MaxCookies)
      BY <2>2
    <2>7. accepted' \in [Context -> (0..MaxTokens) \X (0..MaxCookies)]
      BY <1>9, <2>6 DEF SyncCompleted, TypeOK
    <2>8. interrupted' \in [Context -> Nat]
      BY <1>9 DEF SyncCompleted, TypeOK
    <2>9. life' \in Life
      BY <1>9, <2>1, <2>2 DEF SyncCompleted, Life
    <2> QED BY <1>9, <2>2, <2>4, <2>5, <2>7, <2>8, <2>9 DEF SyncCompleted, TypeOK
  <1>10. ASSUME SyncFailed PROVE TypeOK'
    <2>1. PICK c \in Context : c = life.at
      BY <1>10, LifeRow DEF SyncFailed, Running
    <2>2. /\ life # None /\ life \in Life /\ queue # <<>>
          /\ life.token \in 0..MaxTokens /\ life.v \in 0..MaxCookies
      BY <1>10, LifeRow DEF SyncFailed, Running
    <2>3. <<life.token, life.v>> \in (0..MaxTokens) \X (0..MaxCookies)
      BY <2>2
    <2>4. accepted' \in [Context -> (0..MaxTokens) \X (0..MaxCookies)]
      BY <1>10, <2>3 DEF SyncFailed, TypeOK
    <2>5. /\ [life EXCEPT !.pc = "sync", !.need = @ \cup {c}] \in Life
          /\ [life EXCEPT !.pc = "sync"] \in Life
      BY <2>2 DEF Life
    <2>6. life' \in Life
      BY <1>10, <2>1, <2>5 DEF SyncFailed
    <2> QED BY <1>10, <2>2, <2>4, <2>6 DEF SyncFailed, TypeOK
  <1>11. ASSUME NEW done \in SUBSET Context, Persist(done), life # None
         PROVE  saved' \subseteq Context /\ queue' \in Seq(Job) /\ life' = None
    BY <1>11, LifeRow DEF Persist, TypeOK
  <1>12. ASSUME PassEnds PROVE TypeOK'
    <2>1. life # None /\ life \in Life /\ queue # <<>> /\ life.done \subseteq Context
      BY <1>12, LifeRow DEF PassEnds, Running
    <2>2. CASE /\ life' = [life EXCEPT !.pc = "refresh", !.state = refreshes,
                                       !.todo = life.need]
               /\ UNCHANGED <<saved, queue>>
      <3>1. refreshes \in [Context -> Entry \cup {None}] /\ life.need \subseteq Context
        BY <2>1, LifeRow DEF TypeOK
      <3>2. life' \in Life
        BY <2>1, <2>2, <3>1 DEF Life
      <3> QED BY <1>12, <2>1, <2>2, <3>2 DEF PassEnds, TypeOK
    <2>3. CASE Persist(life.done)
      <3>1. saved' \subseteq Context /\ queue' \in Seq(Job) /\ life' = None
        BY <1>11, <2>1, <2>3
      <3> QED BY <1>12, <3>1 DEF PassEnds, TypeOK
    <2> QED BY <1>12, <2>2, <2>3 DEF PassEnds
  <1>13. ASSUME NEW c \in Context, RefreshContext(c) PROVE TypeOK'
    <2>1. life # None /\ life \in Life /\ queue # <<>>
      BY <1>13, LifeRow DEF RefreshContext, Running
    <2>2. CASE /\ life' = [life EXCEPT !.todo = @ \ {c}]
               /\ UNCHANGED <<refreshes, interrupted>>
      <3>1. life' \in Life
        BY <2>1, <2>2 DEF Life
      <3> QED BY <1>13, <2>1, <2>2, <3>1 DEF RefreshContext, TypeOK
    <2>3. CASE ~Cooling(c)
      <3>1. PICK e : e = [Previous(c) EXCEPT !.left = RetryTicks]
        OBVIOUS
      <3>2. e \in Entry
        BY <2>1, <3>1, PreviousType, Sizes DEF Entry
      <3>3. PICK s : s = [life.state EXCEPT ![c] = e]
        OBVIOUS
      <3>4. s \in [Context -> Entry \cup {None}]
        BY <2>1, <3>2, <3>3, LifeRow
      <3>5. /\ life' = [life EXCEPT !.todo = @ \ {c}, !.pc = "ask", !.at = c, !.state = s]
            /\ refreshes' = s
            /\ interrupted' = [interrupted EXCEPT ![c] = RetryTicks]
        BY <1>13, <2>3, <3>1, <3>3 DEF RefreshContext, Leased
      <3>6. life' \in Life
        BY <2>1, <3>4, <3>5 DEF Life
      <3>7. interrupted' \in [Context -> Nat]
        BY <3>5, Sizes DEF TypeOK
      <3> QED BY <1>13, <2>1, <3>4, <3>5, <3>6, <3>7 DEF RefreshContext, TypeOK
    <2> QED BY <1>13, <2>2, <2>3 DEF RefreshContext
  <1>14. ASSUME Refreshed PROVE TypeOK'
    <2>1. life # None /\ life.at \in Context /\ queue # <<>>
      BY <1>14, LifeRow DEF Refreshed, Running
    <2>2. cookie' \in [Context -> Cookie]
      BY <1>14, <2>1, RotateType DEF Refreshed
    <2>3. Answer(None, TRUE)
      BY <1>14 DEF Refreshed
    <2>4. /\ refreshes' \in [Context -> Entry \cup {None}]
          /\ interrupted' \in [Context -> Nat] /\ life' \in Life
      BY <2>1, <2>3, AnswerType
    <2>5. UNCHANGED <<links, token, saved, receipts, queue, accepted, limited>>
      BY <1>14 DEF Refreshed, Answer
    <2> QED BY <2>1, <2>2, <2>4, <2>5 DEF TypeOK
  <1>15. ASSUME NEW kind \in {"action", "other", "limit"}, NEW after \in Nat,
                RefreshFailed(kind, after)
         PROVE  TypeOK'
    <2>1. /\ life # None /\ life.at \in Context /\ queue # <<>> /\ Running("ask")
      BY <1>15, LifeRow DEF RefreshFailed, Running
    <2>2. cookie' \in [Context -> Cookie]
      BY <1>15, <2>1, RotateType DEF RefreshFailed, TypeOK
    <2>3. PICK e \in Entry : Answer(e, FALSE)
      BY <1>15, <2>1, FailedEntry
    <2>4. /\ refreshes' \in [Context -> Entry \cup {None}]
          /\ interrupted' \in [Context -> Nat] /\ life' \in Life
      BY <2>1, <2>3, AnswerType
    <2>5. UNCHANGED <<links, token, saved, receipts, queue, accepted>>
      BY <2>3 DEF Answer
    <2>6. limited' \in [Context -> Nat]
      BY <1>15 DEF RefreshFailed, TypeOK
    <2> QED BY <2>1, <2>2, <2>4, <2>5, <2>6 DEF TypeOK
  <1>16. ASSUME RefreshEnds PROVE TypeOK'
    <2>1. life # None /\ queue # <<>> /\ Head(queue) \in Job
      BY <1>16, LifeRow DEF RefreshEnds, Running
    <2>2. CASE StartPass(Head(queue), 2) /\ UNCHANGED <<saved, queue>>
      <3>1. life' \in Life
        BY <2>1, <2>2, StartType
      <3> QED BY <1>16, <2>1, <2>2, <3>1 DEF RefreshEnds, TypeOK
    <2>3. CASE Persist({})
      <3>1. saved' \subseteq Context /\ queue' \in Seq(Job) /\ life' = None
        BY <1>11, <2>1, <2>3
      <3> QED BY <1>16, <3>1 DEF RefreshEnds, TypeOK
    <2> QED BY <1>16, <2>2, <2>3 DEF RefreshEnds
  <1>17. ASSUME Lifecycle PROVE TypeOK'
    <2>1. 0 \in Nat /\ RetryAfter \subseteq Nat
      BY Sizes
    <2> QED BY <1>7, <1>8, <1>9, <1>10, <1>12, <1>13, <1>14, <1>15, <1>16, <1>17, <2>1
            DEF Lifecycle
  <1>18. ASSUME Surroundings PROVE TypeOK'
    BY <1>2, <1>3, <1>4, <1>5, <1>6, <1>18 DEF Surroundings
  <1> QED BY <1>1, <1>17, <1>18 DEF Next

\* What the comparisons are of.
LEMMA Numbers ==
    ASSUME TypeOK
    PROVE  /\ links \in Nat
           /\ \A c \in Context :
                 /\ cookie[c].v \in Nat /\ cookie[c].v >= 1
                 /\ accepted[c] = <<accepted[c][1], accepted[c][2]>>
                 /\ accepted[c][1] \in Nat /\ accepted[c][2] \in Nat
                 /\ receipts[c] # None => receipts[c].token \in Nat /\ receipts[c].v \in Nat
           /\ life # None => life.token \in Nat /\ life.v \in Nat
  <1>1. \A c \in Context : cookie[c] \in Cookie /\ receipts[c] \in Receipt \cup {None}
    BY DEF TypeOK
  <1>2. \A c \in Context : accepted[c] \in (0..MaxTokens) \X (0..MaxCookies)
    BY DEF TypeOK
  <1>3. life # None => life.token \in Nat /\ life.v \in Nat
    BY LifeRow, Sizes
  <1> QED BY <1>1, <1>2, <1>3, Sizes DEF Cookie, Receipt, TypeOK

\* Steps that accept nothing: links, cookies and receipts only go on, and no
\* request is begun.
Passes ==
    /\ links <= links' /\ accepted' = accepted
    /\ \A c \in Context :
          /\ cookie[c].v <= cookie'[c].v
          /\ receipts'[c] # None =>
                /\ receipts[c] # None
                /\ receipts'[c].token = receipts[c].token
                /\ receipts'[c].v = receipts[c].v
    /\ Running("post")' => /\ Running("post") /\ life'.at = life.at
                           /\ life'.token = life.token /\ life'.v = life.v

LEMMA PassesKeeps ==
    ASSUME TypeOK, TypeOK', ReceiptInv, Passes PROVE ReceiptInv'
  <1>1. /\ links \in Nat /\ links' \in Nat
        /\ \A c \in Context : cookie[c].v \in Nat /\ cookie'[c].v \in Nat
        /\ \A c \in Context : accepted[c][1] \in Nat /\ accepted[c][2] \in Nat
    <2>1. links' \in 0..MaxTokens /\ cookie' \in [Context -> Cookie]
      BY DEF TypeOK
    <2>2. \A c \in Context : cookie'[c].v \in Nat
      BY <2>1, Sizes DEF Cookie
    <2>3. links' \in Nat
      BY <2>1, Sizes
    <2> QED BY <2>2, <2>3, Numbers
  <1>2. \A c \in Context :
          /\ accepted'[c][1] <= links' /\ accepted'[c][2] <= cookie'[c].v
          /\ receipts'[c] # None =>
                /\ receipts'[c].token # 0
                /\ receipts'[c].token <= accepted'[c][1]
                /\ receipts'[c].v <= accepted'[c][2]
    BY <1>1 DEF ReceiptInv, Passes
  <1>3. ASSUME Running("post")'
        PROVE  /\ life'.token # 0 /\ life'.token <= links'
               /\ life'.v # 0 /\ life'.v <= cookie'[life'.at].v
               /\ receipts'[life'.at] # None =>
                     /\ receipts'[life'.at].token <= life'.token
                     /\ receipts'[life'.at].v <= life'.v
    <2>1. /\ Running("post") /\ life'.at = life.at /\ life # None
          /\ life'.token = life.token /\ life'.v = life.v
      BY <1>3 DEF Passes, Running
    <2>2. life.at \in Context /\ life.token \in Nat /\ life.v \in Nat
      BY <2>1, LifeRow, Numbers
    <2> QED BY <1>1, <2>1, <2>2 DEF ReceiptInv, Passes
  <1> QED BY <1>2, <1>3 DEF ReceiptInv

LEMMA InitReceipts == Init => ReceiptInv
  BY Sizes DEF Init, ReceiptInv, Running

LEMMA StepReceipts == TypeOK /\ TypeOK' /\ ReceiptInv /\ Next => ReceiptInv'
  <1> SUFFICES ASSUME TypeOK, TypeOK', ReceiptInv, Next PROVE ReceiptInv'
    OBVIOUS
  <1> USE DEF storage, history
  <1>0. /\ links \in Nat /\ links' \in Nat
        /\ \A c \in Context : cookie[c].v \in Nat /\ cookie[c].v >= 1
    <2>1. links' \in 0..MaxTokens
      BY DEF TypeOK
    <2>2. links' \in Nat
      BY <2>1, Sizes
    <2> QED BY <2>2, Numbers
  <1>1. ASSUME Trigger \/ ClearLocalExtensionState \/ WorkerStops PROVE Passes
    <2>1. links <= links'
      BY <1>0, <1>1 DEF Trigger, Alarm, Connect, ManualSync, ScheduleSync,
                         ClearLocalExtensionState, WorkerStops
    <2>2. UNCHANGED <<cookie, accepted>> /\ (UNCHANGED life \/ life' = None)
      BY <1>1 DEF Trigger, Alarm, Connect, ManualSync, ScheduleSync,
                         ClearLocalExtensionState, WorkerStops
    <2>3. UNCHANGED receipts \/ receipts' = [c \in Context |-> None]
      BY <1>1 DEF Trigger, Alarm, Connect, ManualSync, ScheduleSync,
                         ClearLocalExtensionState, WorkerStops
    <2> QED BY <1>0, <2>1, <2>2, <2>3 DEF Passes, Running
  <1>2. ASSUME Tick PROVE Passes
    <2>1. \A c \in Context : receipts'[c] # None =>
             /\ receipts[c] # None
             /\ receipts'[c].token = receipts[c].token
             /\ receipts'[c].v = receipts[c].v
      <3>1. \A c \in Context : receipts[c] \in Receipt \cup {None}
        BY DEF TypeOK
      <3> QED BY <1>2, <3>1 DEF Tick, SoonerAll, Sooner, Receipt
    <2>2. Running("post")' => /\ Running("post") /\ life'.at = life.at
                              /\ life'.token = life.token /\ life'.v = life.v
      BY <1>2, LifeRow DEF Tick, Running, Life
    <2> QED BY <1>0, <1>2, <2>1, <2>2 DEF Tick, Passes
  <1>3. ASSUME NEW c \in Context, SignIn(c) \/ \E st \in {"expiring", "none"} : SessionEnds(c, st)
        PROVE  Passes
    <2>1. UNCHANGED <<links, receipts, life, accepted>>
      BY <1>3 DEF SignIn, SessionEnds
    <2>2. \A d \in Context : cookie[d].v <= cookie'[d].v
      <3>1. CASE SignIn(c)
        BY <1>0, <3>1, RotateType DEF SignIn
      <3>2. CASE \E st \in {"expiring", "none"} : SessionEnds(c, st)
        <4>1. \A d \in Context : cookie'[d].v = cookie[d].v
          BY <3>2 DEF SessionEnds, TypeOK, Cookie
        <4> QED BY <1>0, <4>1
      <3> QED BY <1>3, <3>1, <3>2
    <2> QED BY <1>0, <2>1, <2>2 DEF Passes, Running
  <1>4. ASSUME Begin \/ RefreshEnds PROVE Passes
    <2>1. UNCHANGED <<links, receipts, cookie, accepted>>
      BY <1>4 DEF Begin, RefreshEnds
    <2>2. \/ UNCHANGED life \/ life' = None
          \/ \E n \in {1, 2} : StartPass(Head(queue), n)
      BY <1>4 DEF Begin, RefreshEnds, Persist
    <2>3. Head(queue) \in Job
      BY <1>4 DEF Begin, RefreshEnds, Running, TypeOK
    <2>4. Running("post")' => Running("post") /\ life' = life
      BY <2>2, <2>3, StartType DEF Running
    <2> QED BY <1>0, <2>1, <2>4 DEF Passes
  <1>5. ASSUME PassEnds PROVE Passes
    <2>1. UNCHANGED <<links, receipts, cookie, accepted>>
      BY <1>5 DEF PassEnds
    <2>2. ~Running("post")'
      BY <1>5, LifeRow DEF PassEnds, Persist, Running, Life
    <2> QED BY <1>0, <2>1, <2>2 DEF Passes
  <1>6. ASSUME NEW c \in Context, RefreshContext(c) PROVE Passes
    <2>1. UNCHANGED <<links, receipts, cookie, accepted>>
      BY <1>6 DEF RefreshContext
    <2>2. ~Running("post")'
      BY <1>6, LifeRow DEF RefreshContext, Running, Life
    <2> QED BY <1>0, <2>1, <2>2 DEF Passes
  <1>7. ASSUME NEW e \in Entry \cup {None}, NEW ok \in BOOLEAN, Answer(e, ok), Running("ask"),
               UNCHANGED cookie \/ Rotate(life.at)
        PROVE  Passes
    <2>1. UNCHANGED <<links, receipts, accepted>>
      BY <1>7 DEF Answer
    <2>2. life # None /\ life.at \in Context
      BY <1>7, LifeRow DEF Running
    <2>3. \A d \in Context : cookie[d].v <= cookie'[d].v
      BY <1>0, <1>7, <2>2, RotateType
    <2>4. ~Running("post")'
      BY <1>7, <2>2, AnswerType DEF Running
    <2> QED BY <1>0, <2>1, <2>3, <2>4 DEF Passes
  <1>8. ASSUME Refreshed PROVE Passes
    BY <1>7, <1>8 DEF Refreshed
  <1>9. ASSUME NEW kind \in {"action", "other", "limit"}, NEW after \in Nat,
               RefreshFailed(kind, after)
        PROVE  Passes
    <2>1. PICK e \in Entry : Answer(e, FALSE)
      BY <1>9, FailedEntry DEF RefreshFailed
    <2>2. Running("ask") /\ (UNCHANGED cookie \/ Rotate(life.at))
      BY <1>9 DEF RefreshFailed
    <2> QED BY <1>7, <2>1, <2>2
  <1>10. ASSUME NEW c \in Context, SyncContext(c) PROVE ReceiptInv'
    <2>1. UNCHANGED <<links, receipts, cookie, accepted>>
      BY <1>10 DEF SyncContext
    <2>2. life # None /\ life \in Life /\ life.pc = "sync"
      BY <1>10, LifeRow DEF SyncContext, Running
    <2>3. CASE life'.pc # "post"
      <3>1. Passes
        BY <1>0, <2>1, <2>3 DEF Passes, Running
      <3> QED BY <3>1, PassesKeeps
    <2>4. CASE life'.pc = "post"
      <3>1. token # 0 /\ life'.at = c /\ life'.token = token /\ life'.v = cookie[c].v
        BY <1>10, <2>2, <2>4 DEF SyncContext, Life
      <3>2. token = links
        BY <3>1 DEF TypeOK
      <3>3. receipts[c] # None => receipts[c].token <= links /\ receipts[c].v <= cookie[c].v
        BY <1>0, Numbers DEF ReceiptInv
      <3> QED BY <1>0, <2>1, <2>4, <3>1, <3>2, <3>3 DEF ReceiptInv
    <2> QED BY <2>3, <2>4
  <1>11. ASSUME SyncCompleted PROVE ReceiptInv'
    <2>1. PICK c \in Context : c = life.at
      BY <1>11, LifeRow DEF SyncCompleted, Running
    <2>2. life # None /\ life \in Life /\ Running("post")
      BY <1>11, LifeRow DEF SyncCompleted, Running
    <2>3. UNCHANGED <<links, cookie>> /\ ~Running("post")'
      BY <1>11, <2>2 DEF SyncCompleted, Running, Life
    <2>4. accepted' = [accepted EXCEPT ![c] = <<life.token, life.v>>]
      BY <1>11, <2>1 DEF SyncCompleted
    <2>5. /\ accepted'[c] = <<life.token, life.v>>
          /\ \A d \in Context : d # c => accepted'[d] = accepted[d]
      BY <2>4 DEF TypeOK
    <2>6. PICK x : x = [token |-> life.token, v |-> life.v, left |-> ReceiptTicks]
      OBVIOUS
    <2>7. x.token = life.token /\ x.v = life.v
      BY <2>6
    <2>8. /\ receipts'[c] = x
          /\ \A d \in Context : d # c => receipts'[d] = None \/ receipts'[d] = receipts[d]
      BY <1>11, <2>1, <2>6 DEF SyncCompleted
    <2>9. life.token \in Nat /\ life.v \in Nat
      BY <2>2, Numbers
    <2>10. life.token # 0 /\ life.token <= links /\ life.v <= cookie[c].v
      BY <2>1, <2>2 DEF ReceiptInv
    <2>11. \A d \in Context :
             /\ accepted'[d][1] <= links /\ accepted'[d][2] <= cookie[d].v
             /\ receipts'[d] # None =>
                   /\ receipts'[d].token # 0
                   /\ receipts'[d].token <= accepted'[d][1]
                   /\ receipts'[d].v <= accepted'[d][2]
      BY <2>5, <2>7, <2>8, <2>9, <2>10 DEF ReceiptInv
    <2> QED BY <2>3, <2>11 DEF ReceiptInv
  <1>12. ASSUME SyncFailed PROVE ReceiptInv'
    <2>1. PICK c \in Context : c = life.at
      BY <1>12, LifeRow DEF SyncFailed, Running
    <2>2. life # None /\ life \in Life /\ Running("post")
      BY <1>12, LifeRow DEF SyncFailed, Running
    <2>3. UNCHANGED <<links, cookie, receipts>> /\ ~Running("post")'
      BY <1>12, <2>2 DEF SyncFailed, Running, Life
    <2>4. \/ accepted' = accepted
          \/ accepted' = [accepted EXCEPT ![c] = <<life.token, life.v>>]
      BY <1>12, <2>1 DEF SyncFailed
    <2>5. /\ accepted'[c] = accepted[c] \/ accepted'[c] = <<life.token, life.v>>
          /\ \A d \in Context : d # c => accepted'[d] = accepted[d]
      BY <2>4 DEF TypeOK
    <2>6. life.token \in Nat /\ life.v \in Nat
      BY <2>2, Numbers
    <2>7. /\ life.token <= links /\ life.v <= cookie[c].v
          /\ receipts[c] # None => receipts[c].token <= life.token /\ receipts[c].v <= life.v
      BY <2>1, <2>2 DEF ReceiptInv
    <2>8. \A d \in Context :
             /\ accepted'[d][1] <= links /\ accepted'[d][2] <= cookie[d].v
             /\ receipts[d] # None =>
                   /\ receipts[d].token # 0
                   /\ receipts[d].token <= accepted'[d][1]
                   /\ receipts[d].v <= accepted'[d][2]
      BY <2>5, <2>6, <2>7 DEF ReceiptInv
    <2> QED BY <2>3, <2>8 DEF ReceiptInv
  <1>13. ASSUME Lifecycle PROVE ReceiptInv'
    <2>1. 0 \in Nat /\ RetryAfter \subseteq Nat
      BY Sizes
    <2> QED BY <1>4, <1>5, <1>6, <1>8, <1>9, <1>10, <1>11, <1>12, <1>13, <2>1, PassesKeeps
            DEF Lifecycle
  <1>14. ASSUME Surroundings PROVE ReceiptInv'
    BY <1>1, <1>2, <1>3, <1>14, PassesKeeps DEF Surroundings
  <1> QED BY <1>1, <1>13, <1>14, PassesKeeps DEF Next

\* Every variable keeps its type.
THEOREM BrowserTypes == Spec => []TypeOK
  <1> USE DEF storage, history
  <1>1. TypeOK /\ UNCHANGED vars => TypeOK'
    BY DEF TypeOK, vars
  <1>2. ReceiptInv /\ UNCHANGED vars => ReceiptInv'
    BY DEF ReceiptInv, vars, Running
  <1>3. TypeOK /\ ReceiptInv /\ [Next]_vars => TypeOK' /\ ReceiptInv'
    BY <1>1, <1>2, StepType, StepReceipts
  <1> QED BY <1>3, InitType, InitReceipts, PTL DEF Spec

THEOREM BrowserReceipts == Spec => []ReceiptInv
  <1> USE DEF storage, history
  <1>1. ReceiptInv /\ UNCHANGED vars => ReceiptInv'
    BY DEF ReceiptInv, vars, Running
  <1>2. TypeOK /\ TypeOK' /\ ReceiptInv /\ [Next]_vars => ReceiptInv'
    BY <1>1, StepReceipts
  <1> QED BY <1>2, BrowserTypes, InitReceipts, PTL DEF Spec

\* A sync that is answered from a receipt would repeat the last one the server
\* accepted for that context.
THEOREM CachedWasAcceptedHolds == Spec => []CachedWasAccepted
  <1>1. TypeOK /\ ReceiptInv => CachedWasAccepted
    <2> SUFFICES ASSUME TypeOK, ReceiptInv, NEW c \in Context, Receipted(c)
                 PROVE  accepted[c] = <<token, cookie[c].v>>
      BY DEF CachedWasAccepted
    <2>1. receipts[c] # None /\ receipts[c].token = token /\ receipts[c].v = cookie[c].v
      BY DEF Receipted
    <2>2. token = links
      BY <2>1 DEF ReceiptInv, TypeOK
    <2>3. accepted[c][1] <= links /\ links <= accepted[c][1]
      BY <2>1, <2>2 DEF ReceiptInv
    <2>4. accepted[c][2] <= cookie[c].v /\ cookie[c].v <= accepted[c][2]
      BY <2>1 DEF ReceiptInv
    <2>5. accepted[c][1] = links /\ accepted[c][2] = cookie[c].v
      BY <2>3, <2>4, Numbers
    <2> QED BY <2>2, <2>5, Numbers
  <1> QED BY <1>1, BrowserTypes, BrowserReceipts, PTL

-----------------------------------------------------------------------------
(* Refreshes *)

\* The entries of f wait at least as long as each context is limited, and as
\* long as the lease of a request that was not answered.
Waits(f) ==
    \A c \in Context :
      /\ limited[c] > 0 => f[c] # None /\ f[c].limit /\ limited[c] <= f[c].left
      /\ interrupted[c] > 0 => f[c] # None /\ interrupted[c] <= f[c].left

\* Both the entries in storage and the copy a lifecycle refreshes by.
RefreshInv ==
    /\ Waits(refreshes)
    /\ life # None /\ life.pc \in {"refresh", "ask"} => Waits(life.state)
    /\ Running("ask") => limited[life.at] = 0

\* What the waits are of.
LEMMA Ticks ==
    ASSUME TypeOK
    PROVE  /\ \A c \in Context : limited[c] \in Nat /\ interrupted[c] \in Nat
           /\ \A c \in Context : refreshes[c] \in Entry \cup {None}
           /\ \A e \in Entry : e.left \in Nat /\ e # None
  BY Sizes DEF TypeOK, Entry

\* Steps that refresh nothing.
Rests ==
    /\ refreshes' = refreshes
    /\ \A c \in Context : /\ limited'[c] = limited[c] \/ limited'[c] = 0
                          /\ interrupted'[c] = interrupted[c] \/ interrupted'[c] = 0
    /\ life' # None /\ life'.pc \in {"refresh", "ask"} =>
          /\ life # None /\ life.pc = life'.pc /\ life.state = life'.state
          /\ life.at = life'.at

LEMMA RestsKeeps ==
    ASSUME TypeOK, RefreshInv, Rests PROVE RefreshInv'
  <1>1. Waits(refreshes)'
    BY DEF Rests, RefreshInv, Waits
  <1>2. life' # None /\ life'.pc \in {"refresh", "ask"} => Waits(life.state)'
    BY DEF Rests, RefreshInv, Waits
  <1>3. Running("ask")' => limited'[life'.at] = 0
    BY LifeRow DEF Rests, RefreshInv, Running
  <1> QED BY <1>1, <1>2, <1>3 DEF RefreshInv

LEMMA InitRefreshes == Init => RefreshInv
  BY DEF Init, RefreshInv, Waits, Running

\* One context is refreshed: its entry outlasts its waits, and it is stored.
LEMMA EntryWaits ==
    ASSUME TypeOK, RefreshInv, life # None, life.pc \in {"refresh", "ask"},
           NEW c \in Context, NEW e \in Entry \cup {None},
           refreshes' = [life.state EXCEPT ![c] = e], life'.state = refreshes',
           \A d \in Context : d # c => /\ limited'[d] = limited[d]
                                       /\ interrupted'[d] = interrupted[d],
           limited'[c] > 0 => e # None /\ e.limit /\ limited'[c] <= e.left,
           interrupted'[c] > 0 => e # None /\ interrupted'[c] <= e.left
    PROVE  Waits(refreshes)' /\ Waits(life.state)'
  <1>1. Waits(life.state)
    BY DEF RefreshInv
  <1>2. /\ refreshes'[c] = e
        /\ \A d \in Context : d # c => refreshes'[d] = life.state[d]
    BY LifeRow
  <1>3. \A d \in Context :
          /\ limited'[d] > 0 => /\ refreshes'[d] # None /\ refreshes'[d].limit
                                /\ limited'[d] <= refreshes'[d].left
          /\ interrupted'[d] > 0 => /\ refreshes'[d] # None
                                    /\ interrupted'[d] <= refreshes'[d].left
    BY <1>1, <1>2 DEF Waits
  <1> QED BY <1>3 DEF Waits

\* A context that is not cooling is not limited, and only a click can find it
\* leased.
LEMMA NotCooling ==
    ASSUME TypeOK, RefreshInv, Running("refresh"), NEW c \in Context, ~Cooling(c)
    PROVE  limited[c] = 0 /\ (~Clicked => interrupted[c] = 0)
  <1>1. Waits(life.state) /\ life # None
    BY DEF RefreshInv, Running
  <1>2. ~(Previous(c).left > 0) \/ (Clicked /\ ~Previous(c).limit)
    BY DEF Cooling
  <1>3. Previous(c).left \in Nat
    BY <1>1, PreviousType
  <1>4. limited[c] \in Nat /\ interrupted[c] \in Nat
    BY Ticks
  <1>5. limited[c] > 0 => Previous(c).limit /\ limited[c] <= Previous(c).left
    BY <1>1 DEF Waits, Previous
  <1>6. interrupted[c] > 0 => interrupted[c] <= Previous(c).left
    BY <1>1 DEF Waits, Previous
  <1> QED BY <1>2, <1>3, <1>4, <1>5, <1>6

LEMMA TickRefreshes ==
    ASSUME TypeOK, RefreshInv, Tick PROVE RefreshInv'
  <1>1. \A c \in Context : /\ limited[c] \in Nat /\ interrupted[c] \in Nat
                           /\ limited'[c] = Most(limited[c] - 1, 0)
                           /\ interrupted'[c] = Most(interrupted[c] - 1, 0)
    BY Ticks DEF Tick, CountDown
  <1>2. ASSUME NEW f \in [Context -> Entry \cup {None}], Waits(f), NEW c \in Context
        PROVE  /\ limited'[c] > 0 => /\ SoonerAll(f)[c] # None /\ SoonerAll(f)[c].limit
                                     /\ limited'[c] <= SoonerAll(f)[c].left
               /\ interrupted'[c] > 0 => /\ SoonerAll(f)[c] # None
                                         /\ interrupted'[c] <= SoonerAll(f)[c].left
    <2>1. SoonerAll(f)[c] = Sooner(f[c])
      BY DEF SoonerAll
    <2>2. CASE f[c] = None
      BY <1>1, <1>2, <2>2 DEF Waits, Most
    <2>3. CASE f[c] \in Entry
      <3>1. /\ Sooner(f[c]) \in Entry /\ Sooner(f[c]).limit = f[c].limit
            /\ f[c].left \in Nat
            /\ Sooner(f[c]).left = Most(f[c].left - 1, 0)
        BY <2>3, Sizes DEF Sooner, Entry, Most
      <3>2. Sooner(f[c]) # None
        BY <3>1, Sizes
      <3> QED BY <1>1, <1>2, <2>1, <3>1, <3>2 DEF Waits, Most
    <2> QED BY <1>2, <2>2, <2>3
  <1>3. Waits(refreshes)'
    <2>1. refreshes \in [Context -> Entry \cup {None}] /\ Waits(refreshes)
      BY DEF TypeOK, RefreshInv
    <2>2. refreshes' = SoonerAll(refreshes)
      BY DEF Tick
    <2> QED BY <1>2, <2>1, <2>2 DEF Waits
  <1>4. life' # None => /\ life # None /\ life'.pc = life.pc /\ life'.at = life.at
                        /\ life'.state = SoonerAll(life.state)
    BY LifeRow DEF Tick, Life
  <1>5. life' # None /\ life'.pc \in {"refresh", "ask"} => Waits(life.state)'
    <2>1. life # None => life.state \in [Context -> Entry \cup {None}]
      BY LifeRow
    <2> QED BY <1>2, <1>4, <2>1 DEF Waits, RefreshInv
  <1>6. Running("ask")' => limited'[life'.at] = 0
    <2> SUFFICES ASSUME Running("ask")' PROVE limited'[life'.at] = 0
      OBVIOUS
    <2>1. Running("ask") /\ life'.at = life.at /\ life.at \in Context
      BY <1>4, LifeRow DEF Running
    <2>2. limited[life.at] = 0
      BY <2>1 DEF RefreshInv
    <2> QED BY <1>1, <2>1, <2>2 DEF Most
  <1> QED BY <1>3, <1>5, <1>6 DEF RefreshInv

\* An answer ends the lease of its context, which was not limited.
LEMMA AnswerRefreshes ==
    ASSUME TypeOK, RefreshInv, Running("ask"), NEW e \in Entry \cup {None},
           NEW ok \in BOOLEAN, Answer(e, ok),
           \/ limited' = limited
           \/ \E n \in Nat : /\ limited' = [limited EXCEPT ![life.at] = n]
                             /\ e # None /\ e.limit /\ n <= e.left
    PROVE  RefreshInv'
  <1>1. PICK c \in Context : c = life.at
    BY LifeRow DEF Running
  <1>2. life # None /\ life.pc = "ask" /\ limited[c] = 0
    BY <1>1 DEF Running, RefreshInv
  <1>3. /\ refreshes' = [life.state EXCEPT ![c] = e] /\ life'.state = refreshes'
        /\ life'.pc = "refresh"
    BY <1>1, <1>2, AnswerType
  <1>4. interrupted' = [interrupted EXCEPT ![c] = 0]
    BY <1>1 DEF Answer
  <1>5. interrupted'[c] = 0 /\ \A d \in Context : d # c => interrupted'[d] = interrupted[d]
    BY <1>4 DEF TypeOK
  <1>6. /\ \A d \in Context : d # c => limited'[d] = limited[d]
        /\ limited'[c] > 0 => e # None /\ e.limit /\ limited'[c] <= e.left
    BY <1>1, <1>2 DEF TypeOK
  <1>7. Waits(refreshes)' /\ Waits(life.state)'
    BY <1>2, <1>3, <1>5, <1>6, EntryWaits
  <1> QED BY <1>3, <1>7 DEF RefreshInv, Running

LEMMA StepRefreshes == TypeOK /\ RefreshInv /\ Next => RefreshInv'
  <1> SUFFICES ASSUME TypeOK, RefreshInv, Next PROVE RefreshInv'
    OBVIOUS
  <1> USE DEF storage, history
  <1>1. ASSUME Trigger \/ WorkerStops PROVE RefreshInv'
    <2>1. /\ UNCHANGED <<refreshes, limited, interrupted>>
          /\ UNCHANGED life \/ life' = None
      BY <1>1 DEF Trigger, Alarm, Connect, ManualSync, ScheduleSync, WorkerStops
    <2>2. Rests
      BY <2>1 DEF Rests
    <2> QED BY <2>2, RestsKeeps
  <1>2. ASSUME ClearLocalExtensionState PROVE RefreshInv'
    <2>1. \A c \in Context : limited'[c] = 0 /\ interrupted'[c] = 0
      BY <1>2 DEF ClearLocalExtensionState
    <2>2. Running("ask")' => life'.at \in Context
      BY <1>2, LifeRow DEF ClearLocalExtensionState, Running
    <2> QED BY <2>1, <2>2 DEF RefreshInv, Waits
  <1>3. ASSUME NEW c \in Context, SignIn(c) \/ \E st \in {"expiring", "none"} : SessionEnds(c, st)
        PROVE  RefreshInv'
    <2>1. Rests
      BY <1>3 DEF SignIn, SessionEnds, Rests
    <2> QED BY <2>1, RestsKeeps
  <1>4. ASSUME Begin \/ RefreshEnds PROVE RefreshInv'
    <2>1. UNCHANGED <<refreshes, limited, interrupted>>
      BY <1>4 DEF Begin, RefreshEnds
    <2>2. \/ UNCHANGED life \/ life' = None
          \/ \E n \in {1, 2} : StartPass(Head(queue), n)
      BY <1>4 DEF Begin, RefreshEnds, Persist
    <2>3. Head(queue) \in Job
      BY <1>4 DEF Begin, RefreshEnds, Running, TypeOK
    <2>4. Rests
      BY <2>1, <2>2, <2>3, StartType DEF Rests
    <2> QED BY <2>4, RestsKeeps
  <1>5. ASSUME NEW c \in Context, SyncContext(c) PROVE RefreshInv'
    <2>1. life'.pc \in {"sync", "post"}
      BY <1>5, LifeRow DEF SyncContext, Running, Life
    <2>2. Rests
      BY <1>5, <2>1 DEF SyncContext, Rests
    <2> QED BY <2>2, RestsKeeps
  <1>6. ASSUME SyncFailed PROVE RefreshInv'
    <2>1. life'.pc = "sync"
      BY <1>6, LifeRow DEF SyncFailed, Running, Life
    <2>2. Rests
      BY <1>6, <2>1 DEF SyncFailed, Rests
    <2> QED BY <2>2, RestsKeeps
  <1>7. ASSUME SyncCompleted PROVE RefreshInv'
    <2>1. PICK c \in Context : c = life.at
      BY <1>7, LifeRow DEF SyncCompleted, Running
    <2>2. life'.pc = "sync" /\ UNCHANGED limited
      BY <1>7, LifeRow DEF SyncCompleted, Running, Life
    <2>3. interrupted' = [interrupted EXCEPT ![c] = 0]
      BY <1>7, <2>1 DEF SyncCompleted
    <2>4. interrupted'[c] = 0 /\ \A d \in Context : d # c => interrupted'[d] = interrupted[d]
      BY <2>3 DEF TypeOK
    <2>5. \/ UNCHANGED refreshes
          \/ /\ refreshes' = [refreshes EXCEPT ![c] = None]
             /\ refreshes[c] # None /\ ~refreshes[c].limit
      BY <1>7, <2>1 DEF SyncCompleted, Recovers
    <2>6. /\ \A d \in Context : d # c => refreshes'[d] = refreshes[d]
          /\ \/ refreshes'[c] = refreshes[c]
             \/ refreshes[c] # None /\ ~refreshes[c].limit
      BY <2>5 DEF TypeOK
    <2>7. Waits(refreshes)'
      <3> SUFFICES ASSUME NEW d \in Context
                   PROVE  /\ limited'[d] > 0 => /\ refreshes'[d] # None /\ refreshes'[d].limit
                                                /\ limited'[d] <= refreshes'[d].left
                          /\ interrupted'[d] > 0 => /\ refreshes'[d] # None
                                                    /\ interrupted'[d] <= refreshes'[d].left
        BY DEF Waits
      <3>1. CASE d # c
        BY <2>2, <2>4, <2>6, <3>1 DEF RefreshInv, Waits
      <3>2. CASE d = c
        BY <2>2, <2>4, <2>6, <3>2 DEF RefreshInv, Waits
      <3> QED BY <3>1, <3>2
    <2> QED BY <2>2, <2>7 DEF RefreshInv, Running
  <1>8. ASSUME PassEnds PROVE RefreshInv'
    <2>1. UNCHANGED <<refreshes, limited, interrupted>>
      BY <1>8 DEF PassEnds
    <2>2. \/ life' = None
          \/ life'.pc = "refresh" /\ life'.state = refreshes
      BY <1>8, LifeRow DEF PassEnds, Persist, Running, Life
    <2> QED BY <2>1, <2>2 DEF RefreshInv, Waits, Running
  <1>9. ASSUME NEW c \in Context, RefreshContext(c) PROVE RefreshInv'
    <2>1. life # None /\ life \in Life /\ life.pc = "refresh" /\ Running("refresh")
      BY <1>9, LifeRow DEF RefreshContext, Running
    <2>2. CASE Cooling(c)
      <3>1. life' = [life EXCEPT !.todo = @ \ {c}]
        BY <1>9, <2>2 DEF RefreshContext
      <3>2. life'.pc = life.pc /\ life'.state = life.state /\ life'.at = life.at
        BY <2>1, <3>1 DEF Life
      <3>3. Rests
        BY <1>9, <2>1, <2>2, <3>2 DEF RefreshContext, Rests
      <3> QED BY <3>3, RestsKeeps
    <2>3. CASE ~Cooling(c)
      <3>1. PICK e : e = [Previous(c) EXCEPT !.left = RetryTicks]
        OBVIOUS
      <3>2. e \in Entry /\ e.left = RetryTicks
        BY <2>1, <3>1, PreviousType, Sizes DEF Entry
      <3>3. PICK s : s = [life.state EXCEPT ![c] = e]
        OBVIOUS
      <3>4. /\ life' = [life EXCEPT !.todo = @ \ {c}, !.pc = "ask", !.at = c, !.state = s]
            /\ refreshes' = s
            /\ interrupted' = [interrupted EXCEPT ![c] = RetryTicks]
        BY <1>9, <2>3, <3>1, <3>3 DEF RefreshContext, Leased
      <3>5. life'.pc = "ask" /\ life'.at = c /\ life'.state = s
        BY <2>1, <3>4 DEF Life
      <3>6. /\ interrupted'[c] = RetryTicks
            /\ \A d \in Context : d # c => interrupted'[d] = interrupted[d]
        BY <3>4 DEF TypeOK
      <3>7. limited' = limited /\ limited[c] = 0
        BY <1>9, <2>1, <2>3, NotCooling DEF RefreshContext
      <3>8. e # None /\ interrupted'[c] <= e.left
        BY <3>2, <3>6, Sizes
      <3>9. refreshes' = [life.state EXCEPT ![c] = e] /\ life'.state = refreshes'
        BY <3>3, <3>4, <3>5
      <3>10. Waits(refreshes)' /\ Waits(life.state)'
        BY <2>1, <3>2, <3>6, <3>7, <3>8, <3>9, EntryWaits
      <3> QED BY <3>5, <3>7, <3>10 DEF RefreshInv, Running
    <2> QED BY <2>2, <2>3
  <1>10. ASSUME Refreshed PROVE RefreshInv'
    BY <1>10, AnswerRefreshes DEF Refreshed
  <1>11. ASSUME NEW kind \in {"action", "other", "limit"}, NEW after \in Nat,
                RefreshFailed(kind, after)
         PROVE  RefreshInv'
    <2>1. Running("ask")
      BY <1>11 DEF RefreshFailed
    <2>2. PICK e \in Entry : /\ Answer(e, FALSE) /\ e.limit = (kind = "limit")
                             /\ kind = "limit" => e.left >= after
      BY <1>11, <2>1, FailedEntry
    <2>3. \/ limited' = limited
          \/ limited' = [limited EXCEPT ![life.at] = after] /\ kind = "limit"
      BY <1>11 DEF RefreshFailed
    <2>4. e # None /\ e.left \in Nat
      BY Ticks
    <2> QED BY <2>1, <2>2, <2>3, <2>4, AnswerRefreshes
  <1>12. ASSUME Lifecycle PROVE RefreshInv'
    <2>1. 0 \in Nat /\ RetryAfter \subseteq Nat
      BY Sizes
    <2> QED BY <1>4, <1>5, <1>6, <1>7, <1>8, <1>9, <1>10, <1>11, <1>12, <2>1 DEF Lifecycle
  <1>13. ASSUME Surroundings PROVE RefreshInv'
    BY <1>1, <1>2, <1>3, <1>13, TickRefreshes DEF Surroundings
  <1> QED BY <1>1, <1>12, <1>13 DEF Next

THEOREM BrowserRefreshes == Spec => []RefreshInv
  <1> USE DEF storage, history
  <1>1. RefreshInv /\ UNCHANGED vars => RefreshInv'
    BY DEF RefreshInv, vars, Waits, Running
  <1>2. TypeOK /\ RefreshInv /\ [Next]_vars => RefreshInv'
    BY <1>1, StepRefreshes
  <1> QED BY <1>2, BrowserTypes, InitRefreshes, PTL DEF Spec

\* A refresh is sent by one step only, and not while its context is cooling.
LEMMA SentByRefresh ==
    ASSUME TypeOK, Next, NEW c \in Context, RefreshSent(c)
    PROVE  Running("refresh") /\ ~Cooling(c)
  <1> USE DEF storage, history
  <1>1. /\ Running("refresh") /\ life # None /\ life \in Life /\ life.pc = "refresh"
        /\ life'.pc = "ask" /\ life'.at = c /\ life' # None
    BY LifeRow DEF RefreshSent, Running
  <1>2. ~Trigger
    BY <1>1 DEF Trigger, Alarm, Connect, ManualSync, ScheduleSync
  <1>3. ~Surroundings
    <2>1. Tick => life'.pc = life.pc
      BY <1>1 DEF Tick, Life
    <2> QED BY <1>1, <2>1 DEF Surroundings, ClearLocalExtensionState, WorkerStops,
                                SignIn, SessionEnds
  <1>4. ~Begin /\ ~SyncCompleted /\ ~SyncFailed /\ ~PassEnds /\ ~Refreshed
    BY <1>1 DEF Begin, SyncCompleted, SyncFailed, PassEnds, Refreshed, Running
  <1>5. \A kind, after : ~RefreshFailed(kind, after)
    BY <1>1 DEF RefreshFailed, Running
  <1>6. \A d \in Context : ~SyncContext(d)
    BY <1>1 DEF SyncContext, Running
  <1>7. ~RefreshEnds
    <2>1. Head(queue) \in Job
      BY <1>1, LifeRow
    <2>2. RefreshEnds => life'.pc = "sync" \/ life' = None
      BY <2>1, StartType DEF RefreshEnds, Persist
    <2> QED BY <1>1, <2>2
  <1>8. PICK d \in Context : RefreshContext(d)
    BY <1>2, <1>3, <1>4, <1>5, <1>6, <1>7 DEF Next, Lifecycle
  <1>9. d = c /\ ~Cooling(d)
    BY <1>1, <1>8 DEF RefreshContext, Life
  <1> QED BY <1>1, <1>9

\* A rate limit of Vinted is waited out by every refresh of that context.
THEOREM RateLimitHolds == Spec => RateLimitRespected
  <1>1. TypeOK /\ RefreshInv /\ [Next]_vars
        => [\A c \in Context : RefreshSent(c) => limited[c] = 0]_vars
    BY SentByRefresh, NotCooling
  <1> QED BY <1>1, BrowserTypes, BrowserRefreshes, PTL DEF Spec, RateLimitRespected

\* A refresh left unanswered is not repeated before its lease has run out.
THEOREM InterruptedHolds == Spec => InterruptedRefreshWaits
  <1>1. TypeOK /\ RefreshInv /\ [Next]_vars
        => [\A c \in Context : RefreshSent(c) /\ ~Clicked => interrupted[c] = 0]_vars
    BY SentByRefresh, NotCooling
  <1> QED BY <1>1, BrowserTypes, BrowserRefreshes, PTL DEF Spec, InterruptedRefreshWaits
=============================================================================
