------------------------ MODULE AlertPipeline_proofs ------------------------
(***************************************************************************)
(* Theorems about AlertPipeline for every set of items, sellers and strict *)
(* items, every capacity of the alert channel and every deadline and list  *)
(* of retry delays.                                                        *)
(***************************************************************************)
EXTENDS AlertPipeline, FiniteSetTheorems, TLAPS

-----------------------------------------------------------------------------
(* Types *)

\* A job is only there once its item was found.
Begun == \A j \in Job : job[j].stage # "none" => age[j[1]] >= 0

\* The attempt after the last delay is the one at the deadline.
LastChance ==
    \A j \in Job : job[j].attempt = Len(RetryDelay) + 1 => job[j].readyAt = AlertTicks

TypeInv == TypeOK /\ Begun /\ LastChance

\* The items and their jobs are finite, and the first delay exists.
LEMMA Facts ==
    /\ IsFiniteSet(Copy)
    /\ RetryDelay[1] \in Nat
    /\ Len(RetryDelay) \in Nat \ {0}
    /\ \A n \in 0..(Len(RetryDelay) - 1) : RetryDelay[n + 1] \in Nat
    /\ \A i \in Item : SellerOf[i] \in Seller /\ SellerOf[i] \in Result
    /\ AlertTicks \in Nat /\ EnrichTicks \in Nat /\ EnrichTicks < AlertTicks
    /\ \A j \in Job : j[1] \in Item
  <1>1. IsFiniteSet({"timer", "main"})
    <2>1. IsFiniteSet({"timer"}) BY FS_Singleton
    <2>2. IsFiniteSet({"timer"} \cup {"main"}) BY <2>1, FS_AddElement
    <2>3. {"timer"} \cup {"main"} = {"timer", "main"} OBVIOUS
    <2> QED BY <2>2, <2>3
  <1>2. IsFiniteSet(Copy)
    BY <1>1, PipelineAssumption, FS_Product DEF PipelineAssumption, Copy
  <1>3. /\ RetryDelay \in Seq(Nat) /\ RetryDelay # <<>>
        /\ Len(RetryDelay) \in Nat
    BY PipelineAssumption DEF PipelineAssumption
  <1>4. Len(RetryDelay) # 0
    BY <1>3
  <1>5. \A n \in 1..Len(RetryDelay) : RetryDelay[n] \in Nat
    BY <1>3
  <1> QED BY <1>2, <1>3, <1>4, <1>5, PipelineAssumption
         DEF PipelineAssumption, Job, Result

\* The rows of jobs that are made anew.
LEMMA FreshRow ==
    ASSUME NEW s \in Stages PROVE Fresh(s) \in JobRow
  BY Facts DEF Fresh, JobRow, Result, Stages

\* Nothing is found yet.
LEMMA InitType == Init => TypeInv
  <1> SUFFICES ASSUME Init PROVE TypeInv
    OBVIOUS
  <1>1. {c \in Copy : alert[c] = "queued"} = {}
    BY DEF Init
  <1>2. Cardinality({c \in Copy : alert[c] = "queued"}) <= AlertCap
    <2>1. Cardinality({c \in Copy : alert[c] = "queued"}) = 0
      BY <1>1, FS_EmptySet
    <2>2. AlertCap \in Nat
      BY PipelineAssumption DEF PipelineAssumption
    <2> QED BY <2>1, <2>2
  <1>3. job \in [Job -> JobRow]
    BY FreshRow DEF Init, Stages
  <1>4. Begun /\ LastChance
    BY Facts DEF Begun, LastChance, Init, Fresh
  <1> QED BY <1>2, <1>3, <1>4, Facts DEF Init, TypeInv, TypeOK

\* A place of the channel is given up, kept or taken while there is room.
LEMMA QueueStays ==
    ASSUME TypeOK, \A c \in Copy : alert'[c] = "queued" => alert[c] = "queued"
    PROVE  Cardinality({c \in Copy : alert'[c] = "queued"}) <= AlertCap
  <1> DEFINE Q == {c \in Copy : alert[c] = "queued"}
             R == {c \in Copy : alert'[c] = "queued"}
  <1>1. IsFiniteSet(Q) /\ Cardinality(Q) \in Nat /\ Cardinality(Q) <= AlertCap
    BY Facts, FS_Subset, FS_CardinalityType DEF TypeOK
  <1>2. R \in SUBSET Q
    OBVIOUS
  <1>3. IsFiniteSet(R) /\ Cardinality(R) <= Cardinality(Q)
    BY <1>1, <1>2, FS_Subset
  <1> QED BY <1>1, <1>3, FS_CardinalityType, PipelineAssumption DEF PipelineAssumption

LEMMA QueueGrows ==
    ASSUME TypeOK, Room, NEW d \in Copy,
           \A c \in Copy : alert'[c] = "queued" => c = d \/ alert[c] = "queued"
    PROVE  Cardinality({c \in Copy : alert'[c] = "queued"}) <= AlertCap
  <1> DEFINE Q == {c \in Copy : alert[c] = "queued"}
             R == {c \in Copy : alert'[c] = "queued"}
  <1>1. IsFiniteSet(Q) /\ Cardinality(Q) \in Nat /\ Cardinality(Q) < AlertCap
    BY Facts, FS_Subset, FS_CardinalityType DEF Room
  <1>2. IsFiniteSet(Q \cup {d}) /\ Cardinality(Q \cup {d}) <= Cardinality(Q) + 1
    BY <1>1, FS_AddElement
  <1>3. R \in SUBSET (Q \cup {d})
    OBVIOUS
  <1>4. IsFiniteSet(R) /\ Cardinality(R) <= Cardinality(Q \cup {d})
    BY <1>2, <1>3, FS_Subset
  <1>5. Cardinality(R) \in Nat /\ Cardinality(Q \cup {d}) \in Nat
    BY <1>2, <1>4, FS_CardinalityType
  <1> QED BY <1>1, <1>2, <1>4, <1>5, PipelineAssumption DEF PipelineAssumption
\* The retries keep the types of the jobs, and the last chance at its time.
LEMMA RetryType ==
    ASSUME TypeInv, NEW j \in Job, job[j].stage = "answered",
           ScheduleStrictSellerRetry(j)
    PROVE  job' \in [Job -> JobRow] /\ decided' \subseteq Item /\ LastChance'
  <1> DEFINE n == job[j].attempt
             i == j[1]
  <1>1. /\ i \in Item /\ age[i] \in 0..AlertTicks
        /\ n \in 0..(Len(RetryDelay) + 1) /\ job[j].readyAt \in 0..AlertTicks
    BY Facts DEF TypeInv, TypeOK, Begun, JobRow
  <1>2. ASSUME GiveUp(j) PROVE job' \in [Job -> JobRow] /\ decided' \subseteq Item /\ LastChance'
    <2>1. Fresh("done") \in JobRow
      BY FreshRow DEF Stages
    <2>2. job' = [job EXCEPT ![j] = Fresh("done")]
      BY <1>2 DEF GiveUp
    <2>3. decided' \subseteq Item
      BY <1>2, <1>1 DEF GiveUp, Decide, TypeInv, TypeOK
    <2>4. Fresh("done").attempt = 0 /\ Len(RetryDelay) + 1 # 0
      BY Facts DEF Fresh
    <2>5. job' \in [Job -> JobRow]
      BY <2>1, <2>2 DEF TypeInv, TypeOK
    <2>6. LastChance'
      BY <2>2, <2>4 DEF TypeInv, TypeOK, LastChance
    <2> QED BY <2>3, <2>5, <2>6
  <1>3. ASSUME NEW at \in 0..AlertTicks, Again(j, at), n <= Len(RetryDelay),
               n = Len(RetryDelay) => at = AlertTicks
        PROVE  job' \in [Job -> JobRow] /\ decided' \subseteq Item /\ LastChance'
    <2> DEFINE row == [Fresh("queued") EXCEPT !.attempt = n + 1, !.readyAt = at]
    <2>1. Fresh("queued") \in JobRow
      BY FreshRow DEF Stages
    <2>2. job' = [job EXCEPT ![j] = row] /\ decided' = decided
      BY <1>3 DEF Again
    <2>3. n + 1 \in 0..(Len(RetryDelay) + 1)
      BY <1>1, <1>3, Facts
    <2> HIDE DEF n
    <2>4. row \in JobRow /\ row.attempt = n + 1 /\ row.readyAt = at
      BY <2>1, <2>3, <1>3 DEF JobRow
    <2> HIDE DEF row
    <2>5. job' \in [Job -> JobRow]
      BY <2>2, <2>4 DEF TypeInv, TypeOK
    <2>6. n + 1 = Len(RetryDelay) + 1 => at = AlertTicks
      BY <1>1, <1>3, Facts
    <2>7. LastChance'
      BY <2>2, <2>4, <2>6 DEF TypeInv, TypeOK, LastChance
    <2> QED BY <2>2, <2>5, <2>7 DEF TypeInv, TypeOK
  <1>4. CASE n >= Len(RetryDelay)
    <2>1. CASE job[j].readyAt >= AlertTicks
      BY <1>2, <1>4, <2>1 DEF ScheduleStrictSellerRetry
    <2>2. CASE ~(job[j].readyAt >= AlertTicks)
      <3>1. Again(j, AlertTicks)
        BY <1>4, <2>2 DEF ScheduleStrictSellerRetry
      <3>2. n = Len(RetryDelay)
        BY <1>1, <1>4, <2>2, Facts DEF TypeInv, LastChance
      <3>3. AlertTicks \in 0..AlertTicks
        BY Facts
      <3> QED BY <1>3, <3>1, <3>2, <3>3, Facts
    <2> QED BY <2>1, <2>2
  <1>5. CASE ~(n >= Len(RetryDelay))
    <2>1. n \in 0..(Len(RetryDelay) - 1) /\ RetryDelay[n + 1] \in Nat
      BY <1>1, <1>5, Facts
    <2> DEFINE next == age[i] + RetryDelay[n + 1]
    <2>2. CASE next >= AlertTicks
      BY <1>2, <1>5, <2>2 DEF ScheduleStrictSellerRetry
    <2>3. CASE ~(next >= AlertTicks)
      <3>1. Again(j, next)
        BY <1>5, <2>3 DEF ScheduleStrictSellerRetry
      <3>2. next \in 0..AlertTicks
        BY <1>1, <2>1, <2>3, Facts
      <3> QED BY <1>3, <3>1, <3>2, <2>1, Facts
    <2> QED BY <2>2, <2>3
  <1> QED BY <1>4, <1>5
\* A job that is made anew has its type and no attempts behind it.
LEMMA FreshFacts ==
    /\ \A s \in Stages : Fresh(s) \in JobRow /\ Fresh(s).stage = s
                         /\ Fresh(s).attempt = 0
    /\ {"fast", "cache", "queued", "done"} \subseteq Stages
    /\ Len(RetryDelay) + 1 # 0
  BY FreshRow, Facts DEF Fresh, Stages

\* A stale entry makes two jobs, a fresh one the job of the item.
LEMMA CachedType ==
    ASSUME TypeOK, LastChance, NEW i \in Item, DispatchCached(i)
    PROVE  job' \in [Job -> JobRow] /\ refreshing' \subseteq Seller /\ LastChance'
  <1>1. Fresh("fast") \in JobRow /\ Fresh("queued") \in JobRow
        /\ Fresh("fast").attempt = 0 /\ Fresh("queued").attempt = 0
        /\ Len(RetryDelay) + 1 # 0
    BY FreshFacts
  <1>2. <<i, "main">> \in Job /\ <<i, "refresh">> \in Job /\ SellerOf[i] \in Seller
    BY Facts DEF Job
  <1> QED BY <1>1, <1>2 DEF DispatchCached, RefreshJob, TypeOK, LastChance

\* A job that is under way may move on, keeping its attempt and its time.
LEMMA MoveType ==
    ASSUME TypeInv, UNCHANGED age, job' \in [Job -> JobRow],
           \A j \in Job : /\ job'[j].attempt = job[j].attempt
                          /\ job'[j].readyAt = job[j].readyAt
                          /\ job'[j].stage # "none" => job[j].stage # "none"
    PROVE  Begun' /\ LastChance'
  BY DEF TypeInv, Begun, LastChance

\* What an answer or a step does to one job.
LEMMA StepType ==
    ASSUME TypeInv, NEW j \in Job, NEW s \in Stages, NEW r \in Result,
           NEW b \in 0..AlertTicks,
           job' = [job EXCEPT ![j].stage = s, ![j].by = b, ![j].result = r]
    PROVE  /\ job' \in [Job -> JobRow]
           /\ \A k \in Job : /\ job'[k].attempt = job[k].attempt
                             /\ job'[k].readyAt = job[k].readyAt
           /\ \A k \in Job \ {j} : job'[k] = job[k]
  <1>1. job' = [job EXCEPT ![j] = [job[j] EXCEPT !.stage = s, !.by = b, !.result = r]]
    BY DEF TypeInv, TypeOK, JobRow
  <1>2. [job[j] EXCEPT !.stage = s, !.by = b, !.result = r] \in JobRow
    BY DEF TypeInv, TypeOK, JobRow
  <1> QED BY <1>1, <1>2 DEF TypeInv, TypeOK, JobRow

\* Every step of the pipeline keeps the types.
LEMMA NextType == TypeInv /\ [Next]_vars => TypeInv'
  <1> SUFFICES ASSUME TypeInv, [Next]_vars PROVE TypeInv'
    OBVIOUS
  <1>1. ASSUME NEW i \in Item, EnqueueItem(i) PROVE TypeInv'
    <2>1. <<i, "main">> \in Job /\ <<i, "timer">> \in Copy
      BY DEF Job, Copy
    <2>2. age' \in [Item -> (-1)..AlertTicks] /\ age'[i] = 0
          /\ \A k \in Item \ {i} : age'[k] = age[k]
      BY <1>1, Facts DEF EnqueueItem, TypeInv, TypeOK
    <2>3. job' \in [Job -> JobRow] /\ refreshing' \subseteq Seller /\ LastChance'
      <3>1. CASE DispatchCached(i)
        BY <3>1, CachedType DEF TypeInv
      <3>2. CASE job' = [job EXCEPT ![<<i, "main">>] = Fresh("cache")] /\ UNCHANGED refreshing
        BY <3>2, <2>1, FreshFacts DEF TypeInv, TypeOK, LastChance
      <3> QED BY <1>1, <3>1, <3>2 DEF EnqueueItem
    <2>4. \A j \in Job : j[1] = i \/ job'[j] = job[j]
      BY <1>1 DEF EnqueueItem, DispatchCached, RefreshJob, Job, TypeInv, TypeOK
    <2>5. Begun'
      <3> SUFFICES ASSUME NEW j \in Job, job'[j].stage # "none" PROVE age'[j[1]] >= 0
        BY DEF Begun
      <3>1. j[1] \in Item
        BY Facts
      <3>2. CASE j[1] = i
        BY <3>2, <2>2
      <3>3. CASE j[1] # i
        BY <3>1, <3>3, <2>2, <2>4 DEF Begun, TypeInv
      <3> QED BY <3>2, <3>3
    <2>6. \A c \in Copy : alert'[c] = "queued" => alert[c] = "queued"
      BY <1>1, <2>1 DEF EnqueueItem, Armed, TypeInv, TypeOK
    <2>7. alert' \in [Copy -> {"none", "armed", "sending", "queued", "delivering", "over"}]
      BY <1>1, <2>1 DEF EnqueueItem, Armed, TypeInv, TypeOK
    <2>8. Cardinality({c \in Copy : alert'[c] = "queued"}) <= AlertCap
      BY <2>6, QueueStays DEF TypeInv
    <2> QED BY <1>1, <2>2, <2>3, <2>5, <2>7, <2>8 DEF EnqueueItem, TypeInv, TypeOK
  <1>2. ASSUME NEW i \in Item, PrepareEnrichment(i) PROVE TypeInv'
    <2>1. <<i, "main">> \in Job /\ age[i] >= 0
      BY <1>2, Facts DEF Job, PrepareEnrichment, TypeInv, Begun
    <2>3. job' \in [Job -> JobRow] /\ refreshing' \subseteq Seller /\ LastChance'
      <3>1. CASE DispatchCached(i)
        BY <3>1, CachedType DEF TypeInv
      <3>2. CASE job' = [job EXCEPT ![<<i, "main">>] = Fresh("queued")] /\ UNCHANGED refreshing
        BY <3>2, <2>1, FreshFacts DEF TypeInv, TypeOK, LastChance
      <3> QED BY <1>2, <3>1, <3>2 DEF PrepareEnrichment
    <2>4. \A j \in Job : j[1] = i \/ job'[j] = job[j]
      BY <1>2 DEF PrepareEnrichment, DispatchCached, RefreshJob, Job, TypeInv, TypeOK
    <2>5. Begun'
      BY <1>2, <2>1, <2>4, Facts DEF Begun, PrepareEnrichment, TypeInv, TypeOK
    <2> QED BY <1>2, <2>3, <2>5 DEF PrepareEnrichment, TypeInv, TypeOK
  <1>3. ASSUME NEW j \in Job, TakeJob(j) PROVE TypeInv'
    <2> DEFINE i == j[1]
    <2>1. i \in Item /\ age[i] \in 0..AlertTicks /\ SellerOf[i] \in Seller
          /\ SellerOf[i] \in Result /\ "incomplete" \in Result
      BY <1>3, Facts DEF TakeJob, TypeInv, TypeOK, Begun, Result
    <2>2. job' \in [Job -> JobRow] /\ LastChance' /\ decided' \subseteq Item
          /\ refreshing' \subseteq Seller /\ Begun'
      <3>1. CASE Expired(i)
        <4>1. /\ job' = [job EXCEPT ![j] = Fresh("done")]
              /\ refreshing' = Released(j)
              /\ decided' \in {decided, decided \cup {i}}
          BY <1>3, <3>1 DEF TakeJob, GiveUp, Decide
        <4> QED BY <1>3, <4>1, <2>1, FreshFacts
              DEF TypeInv, TypeOK, LastChance, Begun, Released, TakeJob
      <3>2. CASE ~Expired(i)
        <4>1. UNCHANGED <<decided, refreshing, age>>
          BY <1>3, <3>2 DEF TakeJob
        <4>2. FetchBy(j) \in 0..AlertTicks
          BY <2>1, Facts DEF FetchBy, Earlier
        <4>3. PICK s \in Stages, b \in 0..AlertTicks, r \in Result :
                 job' = [job EXCEPT ![j].stage = s, ![j].by = b, ![j].result = r]
          <5>1. CASE job' = [job EXCEPT ![j].stage = "answered", ![j].result = SellerOf[i]]
            <6>1. job' = [job EXCEPT ![j].stage = "answered", ![j].by = job[j].by,
                                     ![j].result = SellerOf[i]]
              BY <5>1 DEF TypeInv, TypeOK, JobRow
            <6> QED BY <6>1, <2>1 DEF TypeInv, TypeOK, JobRow, Stages
          <5>2. CASE job' = [job EXCEPT ![j].stage = "answered", ![j].result = "incomplete"]
            <6>1. job' = [job EXCEPT ![j].stage = "answered", ![j].by = job[j].by,
                                     ![j].result = "incomplete"]
              BY <5>2 DEF TypeInv, TypeOK, JobRow
            <6> QED BY <6>1, <2>1 DEF TypeInv, TypeOK, JobRow, Stages
          <5>3. CASE job' = [job EXCEPT ![j].by = FetchBy(j),
                       ![j].stage = IF Leader(SellerOf[i]) = {} THEN "leading" ELSE "joined"]
            <6> DEFINE s == IF Leader(SellerOf[i]) = {} THEN "leading" ELSE "joined"
            <6>1. job' = [job EXCEPT ![j].stage = s, ![j].by = FetchBy(j),
                                     ![j].result = job[j].result]
              BY <5>3 DEF TypeInv, TypeOK, JobRow
            <6>2. s \in Stages /\ job[j].result \in Result
              BY DEF Stages, TypeInv, TypeOK, JobRow
            <6> QED BY <6>1, <6>2, <4>2
          <5> QED BY <1>3, <3>2, <5>1, <5>2, <5>3 DEF TakeJob
        <4>4. /\ job' \in [Job -> JobRow]
              /\ \A k \in Job : /\ job'[k].attempt = job[k].attempt
                                /\ job'[k].readyAt = job[k].readyAt
              /\ \A k \in Job \ {j} : job'[k] = job[k]
          BY <4>3, StepType
        <4>5. Begun' /\ LastChance'
          BY <1>3, <4>1, <4>4, MoveType DEF TakeJob
        <4> QED BY <4>1, <4>4, <4>5 DEF TypeInv, TypeOK
      <3> QED BY <3>1, <3>2
    <2> QED BY <1>3, <2>2 DEF TakeJob, TypeInv, TypeOK
  <1>4. ASSUME NEW j \in Job, LookupReturns(j) PROVE TypeInv'
    <2>1. PICK r \in Result : job' = [k \in Job |->
              IF k \in Flight(j)
              THEN [job[k] EXCEPT !.stage = "answered", !.by = 0, !.result = r]
              ELSE job[k]]
      BY <1>4, Facts DEF LookupReturns, Result
    <2> DEFINE told(k) == [job[k] EXCEPT !.stage = "answered", !.by = 0, !.result = r]
    <2>2. ASSUME NEW k \in Job
          PROVE  /\ told(k) \in JobRow /\ told(k).attempt = job[k].attempt
                 /\ told(k).readyAt = job[k].readyAt
                 /\ job[k] \in JobRow
                 /\ k \in Flight(j) => job[k].stage # "none"
      <3>1. job[k] \in JobRow /\ 0 \in 0..AlertTicks /\ "answered" \in Stages
        BY Facts DEF TypeInv, TypeOK, Stages
      <3>2. told(k) \in JobRow /\ told(k).attempt = job[k].attempt
            /\ told(k).readyAt = job[k].readyAt
        BY <3>1 DEF JobRow
      <3>3. k \in Flight(j) => job[k].stage # "none"
        BY <1>4 DEF LookupReturns, Flight
      <3> QED BY <3>1, <3>2, <3>3
    <2> HIDE DEF told
    <2>3. job' = [k \in Job |-> IF k \in Flight(j) THEN told(k) ELSE job[k]]
      BY <2>1 DEF told
    <2>5. job' \in [Job -> JobRow]
      BY <2>2, <2>3
    <2>6. \A k \in Job : /\ job'[k].attempt = job[k].attempt
                         /\ job'[k].readyAt = job[k].readyAt
                         /\ job'[k].stage # "none" => job[k].stage # "none"
      BY <2>2, <2>3
    <2>7. Begun' /\ LastChance'
      BY <1>4, <2>5, <2>6, MoveType DEF LookupReturns
    <2> QED BY <1>4, <2>5, <2>7 DEF LookupReturns, TypeInv, TypeOK
  <1>5. ASSUME NEW j \in Job, JoinerTimesOut(j) PROVE TypeInv'
    <2>1. /\ "answered" \in Stages /\ "failed" \in Result /\ 0 \in 0..AlertTicks
          /\ job' = [job EXCEPT ![j].stage = "answered", ![j].by = 0, ![j].result = "failed"]
      BY <1>5, Facts DEF JoinerTimesOut, Stages, Result
    <2>2. /\ job' \in [Job -> JobRow]
          /\ \A k \in Job : /\ job'[k].attempt = job[k].attempt
                            /\ job'[k].readyAt = job[k].readyAt
          /\ \A k \in Job \ {j} : job'[k] = job[k]
      BY <2>1, StepType
    <2>3. Begun' /\ LastChance'
      BY <1>5, <2>2, MoveType DEF JoinerTimesOut
    <2> QED BY <1>5, <2>2, <2>3 DEF JoinerTimesOut, TypeInv, TypeOK
  <1>6. ASSUME NEW j \in Job, JudgeStrict(j) PROVE TypeInv'
    <2>1. /\ UNCHANGED <<age, alert, refreshing, rows>> /\ j[1] \in Strict /\ j[1] \in Item
          /\ job[j].stage = "answered"
      BY <1>6, Facts DEF JudgeStrict
    <2>2. job' \in [Job -> JobRow] /\ decided' \subseteq Item /\ LastChance'
          /\ verified' \subseteq Strict
      <3>1. CASE ScheduleStrictSellerRetry(j) /\ UNCHANGED verified
        BY <2>1, <3>1, RetryType DEF TypeInv, TypeOK
      <3>2. CASE /\ job' = [job EXCEPT ![j] = Fresh("done")]
                 /\ Decide(j[1]) /\ UNCHANGED verified
        BY <2>1, <3>2, FreshFacts DEF TypeInv, TypeOK, LastChance, Decide
      <3>3. CASE /\ job' = [job EXCEPT ![j].stage = "alerting"]
                 /\ verified' = IF job[j].result = SellerOf[j[1]]
                                THEN verified \cup {j[1]} ELSE verified
                 /\ UNCHANGED decided
        <4>1. job' = [job EXCEPT ![j].stage = "alerting", ![j].by = job[j].by,
                                 ![j].result = job[j].result]
          BY <3>3 DEF TypeInv, TypeOK, JobRow
        <4>2. "alerting" \in Stages /\ job[j].by \in 0..AlertTicks /\ job[j].result \in Result
          BY DEF Stages, TypeInv, TypeOK, JobRow
        <4>3. /\ job' \in [Job -> JobRow]
              /\ \A k \in Job : /\ job'[k].attempt = job[k].attempt
                                /\ job'[k].readyAt = job[k].readyAt
          BY <4>1, <4>2, StepType
        <4> QED BY <2>1, <3>3, <4>3 DEF LastChance, TypeInv, TypeOK
      <3> QED BY <1>6, <3>1, <3>2, <3>3 DEF JudgeStrict
    <2>3. \A k \in Job \ {j} : job'[k] = job[k]
      BY <1>6 DEF JudgeStrict, ScheduleStrictSellerRetry, GiveUp, Again, TypeInv, TypeOK
    <2>4. Begun'
      BY <2>1, <2>3 DEF Begun, TypeInv
    <2> QED BY <2>1, <2>2, <2>4 DEF TypeInv, TypeOK
  <1>7. ASSUME NEW j \in Job, JudgeNormal(j) PROVE TypeInv'
    <2>1. /\ job' = [job EXCEPT ![j].stage = "alerting", ![j].by = job[j].by,
                                ![j].result = job[j].result]
          /\ "alerting" \in Stages /\ job[j].by \in 0..AlertTicks /\ job[j].result \in Result
      BY <1>7 DEF JudgeNormal, Onward, Stages, TypeInv, TypeOK, JobRow
    <2>2. /\ job' \in [Job -> JobRow]
          /\ \A k \in Job : /\ job'[k].attempt = job[k].attempt
                            /\ job'[k].readyAt = job[k].readyAt
          /\ \A k \in Job \ {j} : job'[k] = job[k]
      BY <2>1, StepType
    <2>3. Begun' /\ LastChance'
      BY <1>7, <2>2, MoveType DEF JudgeNormal
    <2>4. /\ alert' \in [Copy -> {"none", "armed", "sending", "queued", "delivering", "over"}]
          /\ \A c \in Copy : alert'[c] = "queued" => alert[c] = "queued"
      BY <1>7 DEF JudgeNormal, TypeInv, TypeOK
    <2>5. Cardinality({c \in Copy : alert'[c] = "queued"}) <= AlertCap
      BY <2>4, QueueStays DEF TypeInv
    <2> QED BY <1>7, <2>2, <2>3, <2>4, <2>5 DEF JudgeNormal, TypeInv, TypeOK
  <1>8. ASSUME NEW j \in Job, FinishQuietly(j) PROVE TypeInv'
    <2>1. job' \in [Job -> JobRow] /\ LastChance' /\ Begun'
      BY <1>8, FreshFacts DEF FinishQuietly, TypeInv, TypeOK, LastChance, Begun
    <2> QED BY <1>8, <2>1 DEF FinishQuietly, Released, TypeInv, TypeOK
  <1>9. ASSUME NEW j \in Job, EnqueueMain(j) PROVE TypeInv'
    <2> DEFINE i == j[1]
               late == Earlier(age[i] + RetryDelay[1], AlertTicks)
               second == [Fresh("queued") EXCEPT !.readyAt = late]
    <2>1. i \in Item /\ age[i] \in 0..AlertTicks /\ <<i, "main">> \in Copy
          /\ <<i, "background">> \in Job
      BY <1>9, Facts DEF EnqueueMain, TypeInv, TypeOK, Begun, Copy, Job
    <2>2. late \in 0..AlertTicks
      BY <2>1, Facts DEF Earlier
    <2>3. second \in JobRow /\ second.attempt = 0
      BY <2>2, FreshFacts DEF Fresh, JobRow
    <2> HIDE DEF second, late
    <2> DEFINE again == job[j].result = "failed" /\ i \notin Strict
    <2>4. job' = [job EXCEPT ![j] = Fresh("done"),
                             ![<<i, "background">>] = IF again THEN second ELSE @]
      BY <1>9 DEF EnqueueMain, second, late
    <2> HIDE DEF again
    <2>5. job' \in [Job -> JobRow] /\ LastChance'
      BY <2>1, <2>3, <2>4, FreshFacts DEF TypeInv, TypeOK, LastChance
    <2>6. \A k \in Job : k[1] = i \/ job'[k] = job[k]
      BY <2>1, <2>4 DEF TypeInv, TypeOK
    <2>7. Begun'
      BY <1>9, <2>1, <2>6 DEF EnqueueMain, Begun, TypeInv
    <2>8. /\ alert' \in [Copy -> {"none", "armed", "sending", "queued", "delivering", "over"}]
          /\ \A c \in Copy : alert'[c] = "queued" => c = <<i, "main">> \/ alert[c] = "queued"
          /\ Room
      BY <1>9, <2>1 DEF EnqueueMain, TypeInv, TypeOK
    <2>9. Cardinality({c \in Copy : alert'[c] = "queued"}) <= AlertCap
      BY <2>1, <2>8, QueueGrows DEF TypeInv
    <2> QED BY <1>9, <2>5, <2>7, <2>8, <2>9 DEF EnqueueMain, TypeInv, TypeOK
  <1>10. ASSUME NEW i \in Item, TimerFires(i) PROVE TypeInv'
    <2>1. /\ alert' \in [Copy -> {"none", "armed", "sending", "queued", "delivering", "over"}]
          /\ \A c \in Copy : alert'[c] = "queued" => alert[c] = "queued"
      BY <1>10 DEF TimerFires, TypeInv, TypeOK
    <2>2. Cardinality({c \in Copy : alert'[c] = "queued"}) <= AlertCap
      BY <2>1, QueueStays DEF TypeInv
    <2> QED BY <1>10, <2>1, <2>2
          DEF TimerFires, TypeInv, TypeOK, Begun, LastChance, jobs
  <1>11. ASSUME NEW c \in Copy, EnqueueAlert(c) PROVE TypeInv'
    <2>1. /\ alert' \in [Copy -> {"none", "armed", "sending", "queued", "delivering", "over"}]
          /\ \A d \in Copy : alert'[d] = "queued" => d = c \/ alert[d] = "queued"
          /\ Room
      BY <1>11 DEF EnqueueAlert, TypeInv, TypeOK
    <2>2. Cardinality({d \in Copy : alert'[d] = "queued"}) <= AlertCap
      BY <2>1, QueueGrows DEF TypeInv
    <2> QED BY <1>11, <2>1, <2>2
          DEF EnqueueAlert, TypeInv, TypeOK, Begun, LastChance, jobs
  <1>12. ASSUME NEW c \in Copy, TakeAlert(c) \/ AlertWritten(c) \/ AlertFails(c)
         PROVE  TypeInv'
    <2>1. /\ alert' \in [Copy -> {"none", "armed", "sending", "queued", "delivering", "over"}]
          /\ \A d \in Copy : alert'[d] = "queued" => alert[d] = "queued"
      BY <1>12 DEF TakeAlert, AlertWritten, AlertFails, RetryAlert, TypeInv, TypeOK
    <2>2. Cardinality({d \in Copy : alert'[d] = "queued"}) <= AlertCap
      BY <2>1, QueueStays DEF TypeInv
    <2>3. c[1] \in Item
      BY DEF Copy
    <2>4. decided' \subseteq Item /\ rows' \in [Item -> Nat] /\ UNCHANGED <<age, jobs>>
      BY <1>12, <2>3 DEF TakeAlert, AlertWritten, AlertFails, RetryAlert, Decide,
                         Inserted, TypeInv, TypeOK
    <2> QED BY <2>1, <2>2, <2>4 DEF TypeInv, TypeOK, Begun, LastChance, jobs
  <1>13. CASE Tick
    <2>1. age' \in [Item -> (-1)..AlertTicks]
      BY <1>13, Facts DEF Tick, TypeInv, TypeOK
    <2>2. \A i \in Item : age'[i] >= age[i]
      BY <1>13, Facts DEF Tick, TypeInv, TypeOK
    <2>3. Begun'
      BY <1>13, <2>1, <2>2, Facts DEF Begun, Tick, TypeInv, TypeOK, jobs
    <2> QED BY <1>13, <2>1, <2>3 DEF Tick, TypeInv, TypeOK, LastChance, jobs
  <1>14. CASE UNCHANGED vars
    BY <1>14 DEF vars, jobs, TypeInv, TypeOK, Begun, LastChance
  <1> QED BY <1>1, <1>2, <1>3, <1>4, <1>5, <1>6, <1>7, <1>8, <1>9, <1>10, <1>11, <1>12,
             <1>13, <1>14 DEF Next, EnrichmentStep, LookupStep, AlertStep

\* Every variable keeps its type and the alert channel its capacity, for any
\* items, sellers, deadlines and delays.
THEOREM PipelineTypes == Spec => []TypeOK
  <1>1. Spec => []TypeInv
    BY InitType, NextType, PTL DEF Spec
  <1> QED BY <1>1, PTL DEF TypeInv

-----------------------------------------------------------------------------
(* What each step does to the stages of the jobs *)

main(i)       == <<i, "main">>
background(i) == <<i, "background">>
refresh(i)    == <<i, "refresh">>

\* A job is known by its item and its kind.
LEMMA Jobs ==
    /\ \A j \in Job : /\ j[1] \in Item /\ j[2] \in {"main", "background", "refresh"}
                      /\ j[2] = "main" => j = main(j[1])
                      /\ j[2] = "background" => j = background(j[1])
                      /\ j[2] = "refresh" => j = refresh(j[1])
    /\ \A i \in Item : /\ main(i) \in Job /\ background(i) \in Job /\ refresh(i) \in Job
                       /\ main(i)[1] = i /\ background(i)[1] = i /\ refresh(i)[1] = i
                       /\ main(i)[2] = "main" /\ background(i)[2] = "background"
                       /\ refresh(i)[2] = "refresh"
  BY DEF Job, main, background, refresh

\* The first job of an item, and the refresh of its seller.
LEMMA BeginEffect ==
    ASSUME TypeInv, NEW i \in Item, EnqueueItem(i) \/ PrepareEnrichment(i)
    PROVE  /\ job[main(i)].stage \in {"none", "cache"}
           /\ job'[main(i)].stage \in {"cache", "fast", "queued"}
           /\ \A k \in Job : k # main(i) /\ k # refresh(i) => job'[k] = job[k]
           /\ \/ /\ UNCHANGED refreshing
                 /\ job'[refresh(i)] = job[refresh(i)]
              \/ /\ SellerOf[i] \notin refreshing
                 /\ refreshing' = refreshing \cup {SellerOf[i]}
                 /\ job'[refresh(i)].stage = "queued"
  <1>1. main(i) \in Job /\ refresh(i) \in Job /\ main(i)[1] = i /\ main(i) # refresh(i)
    BY Jobs DEF main, refresh
  <1>2. job[main(i)].stage \in {"none", "cache"}
    BY <1>1 DEF EnqueueItem, PrepareEnrichment, TypeInv, TypeOK, Begun, main
  <1>3. /\ Fresh("cache").stage = "cache" /\ Fresh("fast").stage = "fast"
        /\ Fresh("queued").stage = "queued"
    BY DEF Fresh
  <1>4. CASE DispatchCached(i)
    <2>1. CASE UNCHANGED refreshing /\ job' = [job EXCEPT ![main(i)] = Fresh("fast")]
      BY <1>1, <1>2, <1>3, <2>1 DEF TypeInv, TypeOK
    <2>2. CASE RefreshJob(i)
      <3>1. /\ refreshing' = refreshing \cup {SellerOf[i]}
            /\ job' = [job EXCEPT ![main(i)] = Fresh("fast"),
                                  ![refresh(i)] = IF SellerOf[i] \in refreshing
                                                  THEN @ ELSE Fresh("queued")]
        BY <2>2 DEF RefreshJob, main, refresh
      <3>2. CASE SellerOf[i] \in refreshing
        <4>1. refreshing' = refreshing
          BY <3>1, <3>2
        <4> QED BY <1>1, <1>2, <1>3, <3>1, <3>2, <4>1 DEF TypeInv, TypeOK
      <3>3. CASE SellerOf[i] \notin refreshing
        BY <1>1, <1>2, <1>3, <3>1, <3>3 DEF TypeInv, TypeOK
      <3> QED BY <3>2, <3>3
    <2> QED BY <1>4, <2>1, <2>2 DEF DispatchCached, main
  <1>5. CASE /\ UNCHANGED refreshing
             /\ \/ job' = [job EXCEPT ![main(i)] = Fresh("cache")]
                \/ job' = [job EXCEPT ![main(i)] = Fresh("queued")]
    BY <1>1, <1>2, <1>3, <1>5 DEF TypeInv, TypeOK
  <1> QED BY <1>4, <1>5 DEF EnqueueItem, PrepareEnrichment, main

\* A worker ends a job that is late, or finds or starts what it waits for.
LEMMA TakeEffect ==
    ASSUME TypeInv, NEW j \in Job, TakeJob(j)
    PROVE  /\ job[j].stage \in {"fast", "queued"}
           /\ \A k \in Job \ {j} : job'[k] = job[k]
           /\ \/ /\ job'[j].stage = "done"
                 /\ refreshing' = Released(j)
                 /\ j[2] = "main" => Decide(j[1])
                 /\ j[2] # "main" => UNCHANGED decided
              \/ /\ \/ /\ job'[j].stage = "answered"
                       /\ job'[j].result \in {"incomplete", SellerOf[j[1]]}
                    \/ job'[j].stage = "leading" /\ Leader(SellerOf[j[1]]) = {}
                    \/ job'[j].stage = "joined" /\ Leader(SellerOf[j[1]]) # {}
                 /\ UNCHANGED <<refreshing, decided>>
  <1>1. job \in [Job -> JobRow] /\ job[j] \in JobRow
    BY DEF TypeInv, TypeOK
  <1>2. job[j].stage \in {"fast", "queued"}
    BY DEF TakeJob
  <1>3. CASE Expired(j[1])
    <2>1. job' = [job EXCEPT ![j] = Fresh("done")] /\ refreshing' = Released(j)
          /\ IF j[2] = "main" THEN Decide(j[1]) ELSE UNCHANGED decided
      BY <1>3 DEF TakeJob, GiveUp
    <2>2. Fresh("done").stage = "done"
      BY DEF Fresh
    <2> QED BY <1>1, <1>2, <2>1, <2>2
  <1>4. CASE ~Expired(j[1])
    <2>1. UNCHANGED <<refreshing, decided>>
      BY <1>4 DEF TakeJob
    <2>2. CASE \E r \in {"incomplete", SellerOf[j[1]]} :
                 job' = [job EXCEPT ![j].stage = "answered", ![j].result = r]
      <3>1. PICK r \in {"incomplete", SellerOf[j[1]]} :
                 job' = [job EXCEPT ![j].stage = "answered", ![j].result = r]
        BY <2>2
      <3>2. job'[j].stage = "answered" /\ job'[j].result = r
            /\ \A k \in Job \ {j} : job'[k] = job[k]
        BY <1>1, <3>1 DEF JobRow
      <3> QED BY <1>2, <2>1, <3>2
    <2>3. CASE job' = [job EXCEPT ![j].by = FetchBy(j),
                 ![j].stage = IF Leader(SellerOf[j[1]]) = {} THEN "leading" ELSE "joined"]
      <3> DEFINE s == IF Leader(SellerOf[j[1]]) = {} THEN "leading" ELSE "joined"
                 b == FetchBy(j)
      <3>1. job' = [job EXCEPT ![j].by = b, ![j].stage = s]
        BY <2>3
      <3> HIDE DEF s, b
      <3>2. job'[j].stage = s /\ \A k \in Job \ {j} : job'[k] = job[k]
        BY <1>1, <3>1 DEF JobRow
      <3>3. \/ s = "leading" /\ Leader(SellerOf[j[1]]) = {}
            \/ s = "joined" /\ Leader(SellerOf[j[1]]) # {}
        BY DEF s
      <3> QED BY <1>2, <2>1, <3>2, <3>3
    <2> QED BY <1>4, <2>2, <2>3 DEF TakeJob
  <1> QED BY <1>3, <1>4

\* A lookup answers all who wait for it.
LEMMA LookupEffect ==
    ASSUME TypeInv, NEW j \in Job, LookupReturns(j)
    PROVE  /\ job[j].stage = "leading" /\ UNCHANGED refreshing
           /\ \A k \in Job \ Flight(j) : job'[k] = job[k]
           /\ \A k \in Flight(j) : /\ k \in Job
                                   /\ job[k].stage \in {"leading", "joined"}
                                   /\ SellerOf[k[1]] = SellerOf[j[1]]
                                   /\ job'[k].stage = "answered"
                                   /\ job'[k].result \in
                                         {"failed", "incomplete", SellerOf[k[1]]}
  <1>1. job \in [Job -> JobRow]
    BY DEF TypeInv, TypeOK
  <1>2. job[j].stage = "leading" /\ UNCHANGED refreshing
    BY DEF LookupReturns
  <1>3. PICK r \in {"failed", "incomplete", SellerOf[j[1]]} :
          job' = [k \in Job |->
              IF k \in Flight(j)
              THEN [job[k] EXCEPT !.stage = "answered", !.by = 0, !.result = r]
              ELSE job[k]]
    BY DEF LookupReturns
  <1>4. \A k \in Flight(j) : /\ k \in Job /\ job[k].stage \in {"leading", "joined"}
                            /\ SellerOf[k[1]] = SellerOf[j[1]]
    BY <1>2 DEF Flight
  <1>5. ASSUME NEW k \in Flight(j)
        PROVE  job'[k].stage = "answered" /\ job'[k].result = r
    <2>1. job[k] \in JobRow /\ k \in Job
      BY <1>1, <1>4
    <2>2. job'[k] = [job[k] EXCEPT !.stage = "answered", !.by = 0, !.result = r]
      BY <1>3, <2>1
    <2> QED BY <2>1, <2>2 DEF JobRow
  <1>6. \A k \in Job \ Flight(j) : job'[k] = job[k]
    BY <1>3
  <1> QED BY <1>2, <1>3, <1>4, <1>5, <1>6

\* A job that waited too long has an error.
LEMMA JoinerEffect ==
    ASSUME TypeInv, NEW j \in Job, JoinerTimesOut(j)
    PROVE  /\ job[j].stage = "joined" /\ UNCHANGED refreshing
           /\ \A k \in Job \ {j} : job'[k] = job[k]
           /\ job'[j].stage = "answered" /\ job'[j].result = "failed"
  BY DEF JoinerTimesOut, TypeInv, TypeOK, JobRow

\* A strict item is looked up again, given up, rejected or alerted.
LEMMA StrictEffect ==
    ASSUME TypeInv, NEW j \in Job, JudgeStrict(j)
    PROVE  /\ job[j].stage = "answered" /\ j[2] = "main" /\ j[1] \in Strict
           /\ UNCHANGED <<alert, refreshing, rows>>
           /\ \A k \in Job \ {j} : job'[k] = job[k]
           /\ \/ job'[j].stage = "done" /\ Decide(j[1]) /\ UNCHANGED verified
              \/ job'[j].stage = "queued" /\ UNCHANGED <<decided, verified>>
              \/ /\ job'[j].stage = "alerting"
                 /\ UNCHANGED decided
                 /\ job[j].result \in Seller
                 /\ verified' = IF job[j].result = SellerOf[j[1]]
                                THEN verified \cup {j[1]} ELSE verified
  <1>1. job \in [Job -> JobRow] /\ job[j] \in JobRow
    BY DEF TypeInv, TypeOK
  <1>2. /\ job[j].stage = "answered" /\ j[2] = "main" /\ j[1] \in Strict
        /\ UNCHANGED <<alert, refreshing, rows>>
    BY DEF JudgeStrict
  <1>3. Fresh("done").stage = "done"
    BY DEF Fresh
  <1>4. CASE ScheduleStrictSellerRetry(j) /\ UNCHANGED verified
    <2>1. CASE GiveUp(j)
      BY <1>1, <1>2, <1>3, <1>4, <2>1 DEF GiveUp
    <2>2. ASSUME NEW at, Again(j, at)
          PROVE  /\ \A k \in Job \ {j} : job'[k] = job[k]
                 /\ job'[j].stage = "queued" /\ UNCHANGED decided
      <3> DEFINE row == [Fresh("queued") EXCEPT !.attempt = job[j].attempt + 1,
                                                !.readyAt = at]
      <3>1. row.stage = "queued"
        BY DEF Fresh
      <3>2. job' = [job EXCEPT ![j] = row] /\ UNCHANGED decided
        BY <2>2 DEF Again
      <3> HIDE DEF row
      <3> QED BY <1>1, <3>1, <3>2
    <2>3. GiveUp(j) \/ \E at : Again(j, at)
      BY <1>4 DEF ScheduleStrictSellerRetry
    <2> QED BY <1>2, <1>4, <2>1, <2>2, <2>3
  <1>5. CASE job' = [job EXCEPT ![j] = Fresh("done")] /\ Decide(j[1]) /\ UNCHANGED verified
    BY <1>1, <1>2, <1>3, <1>5
  <1>6. CASE /\ job[j].result \in Seller
             /\ job' = [job EXCEPT ![j].stage = "alerting"]
             /\ verified' = IF job[j].result = SellerOf[j[1]]
                            THEN verified \cup {j[1]} ELSE verified
             /\ UNCHANGED decided
    <2>1. job'[j].stage = "alerting" /\ \A k \in Job \ {j} : job'[k] = job[k]
      BY <1>1, <1>6 DEF JobRow
    <2> QED BY <1>2, <1>6, <2>1
  <1> QED BY <1>4, <1>5, <1>6 DEF JudgeStrict

\* An ordinary item goes on to its alert.
LEMMA NormalEffect ==
    ASSUME TypeInv, NEW j \in Job, JudgeNormal(j)
    PROVE  /\ job[j].stage = "answered" /\ j[2] = "main" /\ j[1] \notin Strict
           /\ \A k \in Job \ {j} : job'[k] = job[k]
           /\ job'[j].stage = "alerting"
           /\ \A c \in Copy : c # <<j[1], "timer">> => alert'[c] = alert[c]
           /\ UNCHANGED <<refreshing, rows, decided, verified>>
  BY DEF JudgeNormal, Onward, TypeInv, TypeOK, JobRow

\* A job nobody waits for ends.
LEMMA QuietEffect ==
    ASSUME TypeInv, NEW j \in Job, FinishQuietly(j)
    PROVE  /\ job[j].stage = "answered" /\ j[2] # "main"
           /\ \A k \in Job \ {j} : job'[k] = job[k]
           /\ job'[j].stage = "done"
           /\ refreshing' = Released(j)
  BY DEF FinishQuietly, Fresh, TypeInv, TypeOK

\* The alert is queued, and the seller may be looked at once more.
LEMMA AlertEffect ==
    ASSUME TypeInv, NEW j \in Job, EnqueueMain(j), j[2] = "main"
    PROVE  /\ job[j].stage = "alerting" /\ job'[j].stage = "done"
           /\ \A k \in Job : k # j /\ k # background(j[1]) => job'[k] = job[k]
           /\ \/ job'[background(j[1])] = job[background(j[1])]
              \/ job'[background(j[1])].stage = "queued"
           /\ alert' = [alert EXCEPT ![main(j[1])] = "queued"]
           /\ UNCHANGED <<refreshing, rows, decided, verified>>
  <1>1. job \in [Job -> JobRow] /\ background(j[1]) \in Job /\ j # background(j[1])
    <2>1. j[1] \in Item
      BY Facts
    <2>2. background(j[1]) \in Job /\ background(j[1])[2] = "background"
      BY <2>1, Jobs
    <2> QED BY <2>2 DEF TypeInv, TypeOK
  <1> DEFINE late == Earlier(age[j[1]] + RetryDelay[1], AlertTicks)
             second == [Fresh("queued") EXCEPT !.readyAt = late]
             again == job[j].result = "failed" /\ j[1] \notin Strict
  <1> HIDE DEF late
  <1>2. second.stage = "queued" /\ Fresh("done").stage = "done"
    <2>1. second.stage = "queued"
      BY DEF Fresh
    <2>2. Fresh("done").stage = "done"
      BY DEF Fresh
    <2> QED BY <2>1, <2>2
  <1>3. job' = [job EXCEPT ![j] = Fresh("done"),
                           ![background(j[1])] = IF again THEN second ELSE @]
    BY DEF EnqueueMain, background, late
  <1> HIDE DEF second, again
  <1>4. /\ job'[j].stage = "done"
        /\ \A k \in Job : k # j /\ k # background(j[1]) => job'[k] = job[k]
        /\ \/ job'[background(j[1])] = job[background(j[1])]
           \/ job'[background(j[1])].stage = "queued"
    BY <1>1, <1>2, <1>3
  <1> QED BY <1>4 DEF EnqueueMain, main

-----------------------------------------------------------------------------
(* One row of an item *)

\* A row is inserted where there is none.
LEMMA RowsKept == TypeOK /\ OneRowPerItem /\ [Next]_vars => OneRowPerItem'
  <1> SUFFICES ASSUME TypeOK, OneRowPerItem, [Next]_vars PROVE OneRowPerItem'
    OBVIOUS
  <1>1. ASSUME NEW c \in Copy, rows' \in {rows, Inserted(c[1])} PROVE OneRowPerItem'
    BY <1>1 DEF Inserted, OneRowPerItem, TypeOK
  <1>2. CASE UNCHANGED rows
    BY <1>2 DEF OneRowPerItem
  <1> QED BY <1>1, <1>2 DEF Next, EnrichmentStep, LookupStep, AlertStep, EnqueueItem,
        TimerFires, PrepareEnrichment, TakeJob, LookupReturns, JoinerTimesOut, JudgeStrict,
        JudgeNormal, FinishQuietly, EnqueueMain, EnqueueAlert, TakeAlert, AlertWritten,
        AlertFails, Tick, vars

\* However often a timer, a lookup and a retry enqueue the alert of an item,
\* the outbox has one row of it.
THEOREM OneRow == Spec => []OneRowPerItem
  <1>1. Init => TypeInv /\ OneRowPerItem
    BY InitType DEF Init, OneRowPerItem
  <1>2. (TypeInv /\ OneRowPerItem) /\ [Next]_vars => (TypeInv /\ OneRowPerItem)'
    BY NextType, RowsKept DEF TypeInv
  <1> QED BY <1>1, <1>2, PTL DEF Spec

-----------------------------------------------------------------------------
(* What every step keeps of the stages *)

\* Only the job that an item began with alerts, and the second look at its
\* seller comes after that job.
Sequel ==
    /\ \A j \in Job : job[j].stage = "alerting" => j[2] = "main"
    /\ \A i \in Item : job[background(i)].stage # "none" => job[main(i)].stage = "done"

\* Steps that move one job that is under way.
LEMMA SequelMoves ==
    ASSUME TypeInv, Sequel, NEW j \in Job, job[j].stage \notin {"none", "done"},
           \A k \in Job \ {j} : job'[k] = job[k],
           job'[j].stage = "alerting" => j[2] = "main"
    PROVE  Sequel'
  <1>1. \A k \in Job : job'[k].stage = "alerting" => k[2] = "main"
    BY DEF Sequel
  <1>2. ASSUME NEW i \in Item, job'[background(i)].stage # "none"
        PROVE  job'[main(i)].stage = "done"
    <2>1. background(i) \in Job /\ main(i) \in Job
      BY Jobs
    <2>2. job[background(i)].stage # "none"
      BY <1>2, <2>1
    <2>3. job[main(i)].stage = "done"
      BY <2>2 DEF Sequel
    <2> QED BY <2>1, <2>3
  <1> QED BY <1>1, <1>2 DEF Sequel

LEMMA SequelKept == TypeInv /\ Sequel /\ [Next]_vars => Sequel'
  <1> SUFFICES ASSUME TypeInv, Sequel, [Next]_vars PROVE Sequel'
    OBVIOUS
  <1>1. ASSUME NEW i \in Item, EnqueueItem(i) \/ PrepareEnrichment(i) PROVE Sequel'
    <2>1. /\ job[main(i)].stage \in {"none", "cache"}
          /\ job'[main(i)].stage \in {"cache", "fast", "queued"}
          /\ \A k \in Job : k # main(i) /\ k # refresh(i) => job'[k] = job[k]
          /\ job'[refresh(i)] = job[refresh(i)] \/ job'[refresh(i)].stage = "queued"
      BY <1>1, BeginEffect
    <2>2. ASSUME NEW k \in Job, job'[k].stage = "alerting" PROVE k[2] = "main"
      <3>1. k # main(i) /\ (k = refresh(i) => job'[k] = job[k])
        BY <2>1, <2>2
      <3> QED BY <2>1, <2>2, <3>1 DEF Sequel
    <2>3. ASSUME NEW m \in Item, job'[background(m)].stage # "none"
          PROVE  job'[main(m)].stage = "done"
      <3>1. /\ background(m) \in Job /\ main(m) \in Job
            /\ background(m) # main(i) /\ background(m) # refresh(i) /\ main(m) # refresh(i)
        BY Jobs DEF main, background, refresh
      <3>2. job[main(m)].stage = "done"
        BY <2>1, <2>3, <3>1 DEF Sequel
      <3> QED BY <2>1, <3>1, <3>2
    <2> QED BY <2>2, <2>3 DEF Sequel
  <1>2. ASSUME NEW j \in Job, TakeJob(j) PROVE Sequel'
    BY <1>2, TakeEffect, SequelMoves
  <1>3. ASSUME NEW j \in Job, LookupReturns(j) PROVE Sequel'
    <2>1. /\ \A k \in Job \ Flight(j) : job'[k] = job[k]
          /\ \A k \in Flight(j) : /\ job[k].stage \in {"leading", "joined"}
                                  /\ job'[k].stage = "answered"
      BY <1>3, LookupEffect
    <2>2. \A k \in Job : job'[k].stage = "alerting" => k[2] = "main"
      BY <2>1 DEF Sequel
    <2>3. ASSUME NEW m \in Item, job'[background(m)].stage # "none"
          PROVE  job'[main(m)].stage = "done"
      <3>1. background(m) \in Job /\ main(m) \in Job
        BY Jobs
      <3>2. job[background(m)].stage # "none"
        BY <2>1, <2>3, <3>1
      <3>3. job[main(m)].stage = "done"
        BY <3>2 DEF Sequel
      <3> QED BY <2>1, <3>1, <3>3
    <2> QED BY <2>2, <2>3 DEF Sequel
  <1>4. ASSUME NEW j \in Job, JoinerTimesOut(j) PROVE Sequel'
    BY <1>4, JoinerEffect, SequelMoves
  <1>5. ASSUME NEW j \in Job, JudgeStrict(j) PROVE Sequel'
    BY <1>5, StrictEffect, SequelMoves
  <1>6. ASSUME NEW j \in Job, JudgeNormal(j) PROVE Sequel'
    BY <1>6, NormalEffect, SequelMoves
  <1>7. ASSUME NEW j \in Job, FinishQuietly(j) PROVE Sequel'
    BY <1>7, QuietEffect, SequelMoves
  <1>8. ASSUME NEW j \in Job, EnqueueMain(j) PROVE Sequel'
    <2>1. j[2] = "main"
      BY <1>8 DEF EnqueueMain, Sequel
    <2>2. /\ job[j].stage = "alerting" /\ job'[j].stage = "done"
          /\ \A k \in Job : k # j /\ k # background(j[1]) => job'[k] = job[k]
          /\ \/ job'[background(j[1])] = job[background(j[1])]
             \/ job'[background(j[1])].stage = "queued"
      BY <1>8, <2>1, AlertEffect
    <2>3. j[1] \in Item
      BY Facts
    <2>4. j = main(j[1])
      BY <2>1 DEF Job, main
    <2>5. ASSUME NEW k \in Job, job'[k].stage = "alerting" PROVE k[2] = "main"
      <3>1. k # j /\ (k = background(j[1]) => job'[k] = job[k])
        BY <2>2, <2>5
      <3> QED BY <2>2, <2>5, <3>1 DEF Sequel
    <2>6. ASSUME NEW m \in Item, job'[background(m)].stage # "none"
          PROVE  job'[main(m)].stage = "done"
      <3>1. background(m) \in Job /\ main(m) \in Job /\ main(m) # background(j[1])
        BY Jobs, <2>3 DEF main, background
      <3>2. CASE m = j[1]
        BY <2>2, <2>4, <3>2
      <3>3. CASE m # j[1]
        <4>1. background(m) # j /\ background(m) # background(j[1]) /\ main(m) # j
          <5>1. background(m)[2] = "background" /\ background(m)[1] = m /\ main(m)[1] = m
                /\ background(j[1])[1] = j[1]
            BY <2>3, Jobs
          <5> QED BY <2>1, <3>3, <5>1
        <4>2. job[main(m)].stage = "done"
          BY <2>2, <2>6, <3>1, <4>1 DEF Sequel
        <4> QED BY <2>2, <3>1, <4>1, <4>2
      <3> QED BY <3>2, <3>3
    <2> QED BY <2>5, <2>6 DEF Sequel
  <1>9. CASE UNCHANGED job
    BY <1>9 DEF Sequel
  <1> QED BY <1>1, <1>2, <1>3, <1>4, <1>5, <1>6, <1>7, <1>8, <1>9
        DEF Next, EnrichmentStep, LookupStep, AlertStep, TimerFires, EnqueueAlert, TakeAlert,
            AlertWritten, AlertFails, Tick, vars, jobs

PipeInv == TypeInv /\ Sequel

LEMMA PipeInvHolds ==
    /\ Init => PipeInv
    /\ PipeInv /\ [Next]_vars => PipeInv'
  <1>1. Init => Sequel
    <2>1. SUFFICES ASSUME Init PROVE Sequel
      OBVIOUS
    <2>2. \A j \in Job : job[j].stage = "none"
      BY <2>1 DEF Init, Fresh
    <2> QED BY <2>2, Jobs DEF Sequel
  <1> QED BY <1>1, InitType, NextType, SequelKept DEF PipeInv

-----------------------------------------------------------------------------
(* No alert is lost without a trace *)

\* A job that ended has decided its item or handed it to an alert worker, and
\* that worker's copy is over only when the item is decided.
HandedOn ==
    /\ \A i \in Item : job[main(i)].stage = "done"
                        => i \in decided \/ alert[main(i)] # "none"
    /\ \A i \in Item : alert[main(i)] = "over" => i \in decided

LEMMA HandedOnKept == PipeInv /\ HandedOn /\ [Next]_vars => HandedOn'
  <1> SUFFICES ASSUME PipeInv, HandedOn, [Next]_vars PROVE HandedOn'
    OBVIOUS
  <1> USE DEF PipeInv
  <1>0. \A i \in Item : main(i) \in Copy /\ <<i, "timer">> \in Copy
                         /\ main(i) # <<i, "timer">> /\ main(i) \in Job
    BY Jobs DEF Copy, main
  \* Steps after which no job is done that was not.
  <1>a. ASSUME \A i \in Item : job'[main(i)].stage = "done" => job[main(i)].stage = "done",
               UNCHANGED alert, decided \subseteq decided'
        PROVE  HandedOn'
    BY <1>a DEF HandedOn
  <1>1. ASSUME NEW i \in Item, EnqueueItem(i) \/ PrepareEnrichment(i) PROVE HandedOn'
    <2>1. /\ job'[main(i)].stage \in {"cache", "fast", "queued"}
          /\ \A k \in Job : k # main(i) /\ k # refresh(i) => job'[k] = job[k]
      BY <1>1, BeginEffect
    <2>2. \A m \in Item : job'[main(m)].stage = "done" => job[main(m)].stage = "done"
      <3>1. \A m \in Item : main(m) \in Job /\ main(m) # refresh(i)
        BY Jobs DEF main, refresh
      <3> QED BY <2>1, <3>1
    <2>3. UNCHANGED decided /\ \A m \in Item : alert'[main(m)] = alert[main(m)]
      BY <1>0, <1>1 DEF EnqueueItem, PrepareEnrichment, TypeInv, TypeOK, main
    <2> QED BY <2>2, <2>3 DEF HandedOn
  <1>2. ASSUME NEW j \in Job, TakeJob(j) PROVE HandedOn'
    <2>1. UNCHANGED alert
      BY <1>2 DEF TakeJob
    <2>2. /\ decided \subseteq decided'
          /\ \A k \in Job \ {j} : job'[k] = job[k]
          /\ job'[j].stage = "done" /\ j[2] = "main" => j[1] \in decided'
      BY <1>2, TakeEffect DEF Decide
    <2>3. ASSUME NEW i \in Item, job'[main(i)].stage = "done"
          PROVE  i \in decided' \/ alert'[main(i)] # "none"
      <3>1. CASE main(i) = j
        <4>1. j[1] = i /\ j[2] = "main"
          BY <3>1 DEF main
        <4> QED BY <2>2, <2>3, <3>1, <4>1
      <3>2. CASE main(i) # j
        BY <1>0, <2>1, <2>2, <2>3, <3>2 DEF HandedOn
      <3> QED BY <3>1, <3>2
    <2>4. \A i \in Item : alert'[main(i)] = "over" => i \in decided'
      BY <2>1, <2>2 DEF HandedOn
    <2> QED BY <2>3, <2>4 DEF HandedOn
  <1>3. ASSUME NEW j \in Job, LookupReturns(j) \/ JoinerTimesOut(j) PROVE HandedOn'
    <2>1. UNCHANGED <<alert, decided>>
      BY <1>3 DEF LookupReturns, JoinerTimesOut
    <2>2. \A k \in Job : job'[k] = job[k] \/ job'[k].stage = "answered"
      BY <1>3, LookupEffect, JoinerEffect
    <2>3. \A i \in Item : job'[main(i)].stage = "done" => job[main(i)].stage = "done"
      BY <1>0, <2>2
    <2> QED BY <1>a, <2>1, <2>3
  <1>4. ASSUME NEW j \in Job, JudgeStrict(j) PROVE HandedOn'
    <2>1. /\ UNCHANGED alert
          /\ decided \subseteq decided'
          /\ \A k \in Job \ {j} : job'[k] = job[k]
          /\ job'[j].stage = "done" => j[1] \in decided'
      BY <1>4, StrictEffect DEF Decide
    <2>2. ASSUME NEW i \in Item, job'[main(i)].stage = "done"
          PROVE  i \in decided' \/ alert'[main(i)] # "none"
      <3>1. CASE main(i) = j
        <4>1. j[1] = i
          BY <3>1 DEF main
        <4> QED BY <2>1, <2>2, <3>1, <4>1
      <3>2. CASE main(i) # j
        BY <1>0, <2>1, <2>2, <3>2 DEF HandedOn
      <3> QED BY <3>1, <3>2
    <2>3. \A i \in Item : alert'[main(i)] = "over" => i \in decided'
      BY <2>1 DEF HandedOn
    <2> QED BY <2>2, <2>3 DEF HandedOn
  <1>5. ASSUME NEW j \in Job, JudgeNormal(j) PROVE HandedOn'
    <2>1. /\ \A k \in Job \ {j} : job'[k] = job[k]
          /\ job'[j].stage = "alerting" /\ UNCHANGED decided
          /\ \A c \in Copy : c # <<j[1], "timer">> => alert'[c] = alert[c]
      BY <1>5, NormalEffect
    <2>2. \A i \in Item : main(i) # <<j[1], "timer">>
      BY DEF main
    <2>3. \A i \in Item : alert'[main(i)] = alert[main(i)]
      BY <1>0, <2>1, <2>2
    <2>4. \A i \in Item : job'[main(i)].stage = "done" => job[main(i)].stage = "done"
      BY <1>0, <2>1
    <2> QED BY <2>1, <2>3, <2>4 DEF HandedOn
  <1>6. ASSUME NEW j \in Job, FinishQuietly(j) PROVE HandedOn'
    <2>1. UNCHANGED <<alert, decided>>
      BY <1>6 DEF FinishQuietly
    <2>2. j[2] # "main" /\ \A k \in Job \ {j} : job'[k] = job[k]
      BY <1>6, QuietEffect
    <2>3. \A i \in Item : main(i) # j
      BY <2>2 DEF main
    <2>4. \A i \in Item : job'[main(i)].stage = "done" => job[main(i)].stage = "done"
      BY <1>0, <2>2, <2>3
    <2> QED BY <1>a, <2>1, <2>4
  <1>7. ASSUME NEW j \in Job, EnqueueMain(j) PROVE HandedOn'
    <2>1. j[2] = "main"
      BY <1>7 DEF EnqueueMain, Sequel
    <2>2. /\ \A k \in Job : k # j /\ k # background(j[1]) => job'[k] = job[k]
          /\ alert' = [alert EXCEPT ![main(j[1])] = "queued"] /\ UNCHANGED decided
      BY <1>7, <2>1, AlertEffect
    <2>3. j = main(j[1]) /\ j[1] \in Item
      BY <2>1 DEF Job, main
    <2>4. ASSUME NEW i \in Item, job'[main(i)].stage = "done"
          PROVE  i \in decided' \/ alert'[main(i)] # "none"
      <3>1. CASE i = j[1]
        BY <1>0, <2>2, <3>1 DEF TypeInv, TypeOK
      <3>2. CASE i # j[1]
        <4>1. main(i) # main(j[1]) /\ main(i) # background(j[1])
          BY <3>2 DEF main, background
        <4>2. job'[main(i)] = job[main(i)]
          BY <1>0, <2>2, <2>3, <4>1
        <4>3. alert'[main(i)] = alert[main(i)]
          BY <1>0, <2>2, <4>1 DEF TypeInv, TypeOK
        <4> QED BY <2>2, <2>4, <4>2, <4>3 DEF HandedOn
      <3> QED BY <3>1, <3>2
    <2>5. ASSUME NEW i \in Item, alert'[main(i)] = "over" PROVE i \in decided'
      <3>1. alert[main(i)] = "over"
        BY <1>0, <2>2, <2>5 DEF TypeInv, TypeOK
      <3> QED BY <2>2, <3>1 DEF HandedOn
    <2> QED BY <2>4, <2>5 DEF HandedOn
  <1>8. ASSUME NEW i \in Item, TimerFires(i) PROVE HandedOn'
    <2>1. UNCHANGED <<job, decided>> /\ \A m \in Item : alert'[main(m)] = alert[main(m)]
      BY <1>0, <1>8 DEF TimerFires, jobs, TypeInv, TypeOK, main
    <2> QED BY <2>1 DEF HandedOn
  <1>9. ASSUME NEW c \in Copy, AlertStep(c) PROVE HandedOn'
    <2>1. /\ UNCHANGED job /\ decided \subseteq decided'
          /\ \A d \in Copy \ {c} : alert'[d] = alert[d]
          /\ alert'[c] # "none" /\ (alert'[c] = "over" => c[1] \in decided')
      BY <1>9 DEF AlertStep, EnqueueAlert, TakeAlert, AlertWritten, AlertFails, RetryAlert,
                  Decide, jobs, TypeInv, TypeOK
    <2>2. \A i \in Item : main(i)[1] = i
      BY Jobs
    <2> QED BY <1>0, <2>1, <2>2 DEF HandedOn
  <1>10. CASE Tick \/ UNCHANGED vars
    BY <1>10 DEF Tick, vars, jobs, HandedOn
  <1> QED BY <1>1, <1>2, <1>3, <1>4, <1>5, <1>6, <1>7, <1>8, <1>9, <1>10
        DEF Next, EnrichmentStep, LookupStep

\* For any items and sellers, deadlines, delays and capacity: when nothing is
\* left that could write the alert of an item, the item is decided.
THEOREM NoAlertVanishes == Spec => []NothingVanishes
  <1>1. Init => PipeInv /\ HandedOn
    <2>1. SUFFICES ASSUME Init PROVE HandedOn
      BY PipeInvHolds
    <2>2. /\ \A j \in Job : job[j].stage = "none"
          /\ \A c \in Copy : alert[c] = "none"
      BY <2>1 DEF Init, Fresh
    <2>3. \A i \in Item : main(i) \in Job /\ main(i) \in Copy
      BY Jobs DEF main, Copy
    <2> QED BY <2>2, <2>3 DEF HandedOn
  <1>2. (PipeInv /\ HandedOn) /\ [Next]_vars => (PipeInv /\ HandedOn)'
    BY PipeInvHolds, HandedOnKept
  <1>3. HandedOn => NothingVanishes
    BY DEF HandedOn, NothingVanishes, main
  <1> QED BY <1>1, <1>2, <1>3, PTL DEF Spec

-----------------------------------------------------------------------------
(* A strict item is alerted on data of its own seller *)

\* No timer runs for a strict item, what is on its way to the outbox has been
\* verified, and an answer with data is about the seller of the job.
Checked ==
    /\ \A i \in Strict : alert[<<i, "timer">>] = "none"
    /\ \A i \in Strict :
          job[main(i)].stage = "alerting" \/ alert[main(i)] # "none" \/ rows[i] > 0
          => i \in verified
    /\ \A j \in Job : job[j].stage = "answered" /\ job[j].result \in Seller
                      => job[j].result = SellerOf[j[1]]

LEMMA CheckedKept == PipeInv /\ Checked /\ [Next]_vars => Checked'
  <1> SUFFICES ASSUME PipeInv, Checked, [Next]_vars PROVE Checked'
    OBVIOUS
  <1> USE DEF PipeInv
  <1>0. \A i \in Strict : /\ main(i) \in Copy /\ <<i, "timer">> \in Copy /\ i \in Item
                           /\ main(i) # <<i, "timer">> /\ main(i) \in Job
    BY Jobs, PipelineAssumption DEF Copy, main, PipelineAssumption
  <1>00. "failed" \notin Seller /\ "incomplete" \notin Seller
    BY PipelineAssumption DEF PipelineAssumption
  \* Steps that change no alert, and after which no more jobs alert.
  <1>a. ASSUME UNCHANGED <<alert, rows, verified>>,
               \A k \in Job : \/ job'[k] = job[k]
                              \/ job'[k].stage \notin {"answered", "alerting"}
                              \/ /\ job'[k].stage = "answered"
                                 /\ job'[k].result \in {"failed", "incomplete", SellerOf[k[1]]}
        PROVE  Checked'
    <2>1. \A i \in Strict : job'[main(i)].stage = "alerting" => job[main(i)].stage = "alerting"
      BY <1>0, <1>a
    <2>2. ASSUME NEW k \in Job, job'[k].stage = "answered", job'[k].result \in Seller
          PROVE  job'[k].result = SellerOf[k[1]]
      BY <1>a, <1>00, <2>2 DEF Checked
    <2> QED BY <1>a, <2>1, <2>2 DEF Checked
  <1>1. ASSUME NEW i \in Item, EnqueueItem(i) \/ PrepareEnrichment(i) PROVE Checked'
    <2>1. /\ job'[main(i)].stage \in {"cache", "fast", "queued"}
          /\ \A k \in Job : k # main(i) /\ k # refresh(i) => job'[k] = job[k]
          /\ job'[refresh(i)] = job[refresh(i)] \/ job'[refresh(i)].stage = "queued"
      BY <1>1, BeginEffect
    <2>2. /\ UNCHANGED <<rows, verified>>
          /\ \A m \in Strict : alert'[main(m)] = alert[main(m)]
          /\ \A m \in Strict : alert'[<<m, "timer">>] \in {alert[<<m, "timer">>], "none"}
      BY <1>0, <1>1 DEF EnqueueItem, PrepareEnrichment, Armed, TypeInv, TypeOK, main
    <2>3. \A k \in Job : job'[k] = job[k] \/ job'[k].stage \notin {"answered", "alerting"}
      BY <2>1
    <2>4. \A m \in Strict : job'[main(m)].stage = "alerting" => job[main(m)].stage = "alerting"
      BY <1>0, <2>3
    <2>5. \A k \in Job : job'[k].stage = "answered" => job'[k] = job[k]
      BY <2>3
    <2>6. \A m \in Strict : alert'[<<m, "timer">>] = "none"
      BY <2>2 DEF Checked
    <2>7. \A m \in Strict :
            job'[main(m)].stage = "alerting" \/ alert'[main(m)] # "none" \/ rows'[m] > 0
            => m \in verified'
      BY <2>2, <2>4 DEF Checked
    <2>8. \A k \in Job : job'[k].stage = "answered" /\ job'[k].result \in Seller
                          => job'[k].result = SellerOf[k[1]]
      BY <2>5 DEF Checked
    <2> QED BY <2>6, <2>7, <2>8 DEF Checked
  <1>2. ASSUME NEW j \in Job, TakeJob(j) PROVE Checked'
    <2>1. UNCHANGED <<alert, rows, verified>>
      BY <1>2 DEF TakeJob
    <2>2. /\ \A k \in Job \ {j} : job'[k] = job[k]
          /\ \/ job'[j].stage \notin {"answered", "alerting"}
             \/ /\ job'[j].stage = "answered"
                /\ job'[j].result \in {"incomplete", SellerOf[j[1]]}
      BY <1>2, TakeEffect
    <2> QED BY <1>a, <2>1, <2>2
  <1>3. ASSUME NEW j \in Job, LookupReturns(j) PROVE Checked'
    <2>1. UNCHANGED <<alert, rows, verified>>
      BY <1>3 DEF LookupReturns
    <2>2. /\ \A k \in Job \ Flight(j) : job'[k] = job[k]
          /\ \A k \in Flight(j) : /\ job'[k].stage = "answered"
                                  /\ job'[k].result \in
                                        {"failed", "incomplete", SellerOf[k[1]]}
      BY <1>3, LookupEffect
    <2> QED BY <1>a, <2>1, <2>2
  <1>4. ASSUME NEW j \in Job, JoinerTimesOut(j) PROVE Checked'
    <2>1. UNCHANGED <<alert, rows, verified>>
      BY <1>4 DEF JoinerTimesOut
    <2> QED BY <1>4, <1>a, <2>1, JoinerEffect
  <1>5. ASSUME NEW j \in Job, JudgeStrict(j) PROVE Checked'
    <2>1. /\ job[j].stage = "answered" /\ j[2] = "main" /\ j[1] \in Strict
          /\ UNCHANGED <<alert, rows>>
          /\ \A k \in Job \ {j} : job'[k] = job[k]
          /\ \/ job'[j].stage = "done" /\ UNCHANGED verified
             \/ job'[j].stage = "queued" /\ UNCHANGED verified
             \/ /\ job'[j].stage = "alerting"
                /\ job[j].result \in Seller
                /\ verified' = IF job[j].result = SellerOf[j[1]]
                               THEN verified \cup {j[1]} ELSE verified
      BY <1>5, StrictEffect
    <2>2. CASE job'[j].stage \in {"done", "queued"} /\ UNCHANGED verified
      BY <1>a, <2>1, <2>2
    <2>3. CASE /\ job'[j].stage = "alerting" /\ job[j].result \in Seller
               /\ verified' = IF job[j].result = SellerOf[j[1]]
                              THEN verified \cup {j[1]} ELSE verified
      <3>1. verified' = verified \cup {j[1]}
        BY <2>1, <2>3 DEF Checked
      <3>2. j = main(j[1])
        BY <2>1 DEF Job, main
      <3>3. ASSUME NEW i \in Strict,
                   job'[main(i)].stage = "alerting" \/ alert'[main(i)] # "none" \/ rows'[i] > 0
            PROVE  i \in verified'
        <4>1. CASE i = j[1]
          BY <3>1, <4>1
        <4>2. CASE i # j[1]
          <5>0. main(i)[1] = i
            BY DEF main
          <5>1. main(i) # j /\ main(i) \in Job
            BY <1>0, <4>2, <5>0
          <5>2. job'[main(i)] = job[main(i)]
            BY <2>1, <5>1
          <5> QED BY <2>1, <3>1, <3>3, <5>2 DEF Checked
        <4> QED BY <4>1, <4>2
      <3>4. \A k \in Job : job'[k].stage = "answered" => job'[k] = job[k]
        BY <2>1, <2>3
      <3>5. \A k \in Job : job'[k].stage = "answered" /\ job'[k].result \in Seller
                            => job'[k].result = SellerOf[k[1]]
        BY <3>4 DEF Checked
      <3>6. \A i \in Strict : alert'[<<i, "timer">>] = "none"
        BY <2>1 DEF Checked
      <3> QED BY <3>3, <3>5, <3>6 DEF Checked
    <2> QED BY <2>1, <2>2, <2>3
  <1>6. ASSUME NEW j \in Job, JudgeNormal(j) PROVE Checked'
    <2>1. /\ j[2] = "main" /\ j[1] \notin Strict
          /\ \A k \in Job \ {j} : job'[k] = job[k]
          /\ job'[j].stage = "alerting"
          /\ \A c \in Copy : c # <<j[1], "timer">> => alert'[c] = alert[c]
          /\ UNCHANGED <<rows, verified>>
      BY <1>6, NormalEffect
    <2>2. \A i \in Strict : /\ main(i) # j /\ main(i) # <<j[1], "timer">>
                            /\ <<i, "timer">> # <<j[1], "timer">>
      BY <2>1 DEF main
    <2>3. \A i \in Strict : /\ alert'[<<i, "timer">>] = alert[<<i, "timer">>]
                            /\ alert'[main(i)] = alert[main(i)]
                            /\ job'[main(i)] = job[main(i)]
      BY <1>0, <2>1, <2>2
    <2>4. \A k \in Job : job'[k].stage = "answered" => job'[k] = job[k]
      BY <2>1
    <2>5. \A k \in Job : job'[k].stage = "answered" /\ job'[k].result \in Seller
                          => job'[k].result = SellerOf[k[1]]
      BY <2>4 DEF Checked
    <2> QED BY <2>1, <2>3, <2>5 DEF Checked
  <1>7. ASSUME NEW j \in Job, FinishQuietly(j) PROVE Checked'
    <2>1. UNCHANGED <<alert, rows, verified>>
      BY <1>7 DEF FinishQuietly
    <2> QED BY <1>7, <1>a, <2>1, QuietEffect
  <1>8. ASSUME NEW j \in Job, EnqueueMain(j) PROVE Checked'
    <2>1. j[2] = "main"
      BY <1>8 DEF EnqueueMain, Sequel
    <2>2. /\ job[j].stage = "alerting" /\ job'[j].stage = "done"
          /\ \A k \in Job : k # j /\ k # background(j[1]) => job'[k] = job[k]
          /\ \/ job'[background(j[1])] = job[background(j[1])]
             \/ job'[background(j[1])].stage = "queued"
          /\ alert' = [alert EXCEPT ![main(j[1])] = "queued"]
          /\ UNCHANGED <<rows, verified>>
      BY <1>8, <2>1, AlertEffect
    <2>3. j = main(j[1]) /\ j[1] \in Item
      BY <2>1 DEF Job, main
    <2>4. \A k \in Job : job'[k] = job[k] \/ job'[k].stage \notin {"answered", "alerting"}
      BY <2>2
    <2>5. \A k \in Job : job'[k].stage = "answered" /\ job'[k].result \in Seller
                          => job'[k].result = SellerOf[k[1]]
      BY <2>4 DEF Checked
    <2>6. ASSUME NEW i \in Strict,
                 job'[main(i)].stage = "alerting" \/ alert'[main(i)] # "none" \/ rows'[i] > 0
          PROVE  i \in verified'
      <3>1. CASE i = j[1]
        BY <2>2, <2>3, <3>1 DEF Checked
      <3>2. CASE i # j[1]
        <4>1. main(i) # main(j[1])
          BY <3>2 DEF main
        <4>2. alert'[main(i)] = alert[main(i)]
          BY <1>0, <2>2, <4>1 DEF TypeInv, TypeOK
        <4>3. job'[main(i)].stage = "alerting" => job[main(i)].stage = "alerting"
          BY <1>0, <2>4
        <4> QED BY <2>2, <2>6, <4>2, <4>3 DEF Checked
      <3> QED BY <3>1, <3>2
    <2>7. \A i \in Strict : alert'[<<i, "timer">>] = "none"
      <3>1. \A i \in Strict : <<i, "timer">> # main(j[1])
        BY DEF main
      <3> QED BY <1>0, <2>2, <3>1 DEF Checked, TypeInv, TypeOK
    <2> QED BY <2>5, <2>6, <2>7 DEF Checked
  <1>9. ASSUME NEW i \in Item, TimerFires(i) PROVE Checked'
    <2>1. i \notin Strict
      BY <1>9 DEF TimerFires, Checked
    <2>2. \A m \in Strict : <<m, "timer">> # <<i, "timer">> /\ main(m) # <<i, "timer">>
      BY <2>1 DEF main
    <2>3. \A m \in Strict : /\ alert'[<<m, "timer">>] = alert[<<m, "timer">>]
                            /\ alert'[main(m)] = alert[main(m)]
      BY <1>0, <1>9, <2>2 DEF TimerFires, TypeInv, TypeOK
    <2>4. UNCHANGED <<job, rows, verified>>
      BY <1>9 DEF TimerFires, jobs
    <2> QED BY <2>3, <2>4 DEF Checked
  <1>10. ASSUME NEW c \in Copy, AlertStep(c) PROVE Checked'
    <2>1. /\ UNCHANGED <<job, verified>>
          /\ alert[c] # "none"
          /\ \A d \in Copy \ {c} : alert'[d] = alert[d]
      BY <1>10 DEF AlertStep, EnqueueAlert, TakeAlert, AlertWritten, AlertFails, RetryAlert,
                   jobs, TypeInv, TypeOK
    <2>2. \A i \in Item \ {c[1]} : rows'[i] = rows[i]
      <3>1. rows' \in {rows, Inserted(c[1])}
        BY <1>10 DEF AlertStep, EnqueueAlert, TakeAlert, AlertWritten, AlertFails
      <3> QED BY <3>1 DEF Inserted, TypeInv, TypeOK
    <2>3. c[1] \in Strict => c = main(c[1]) /\ c[1] \in verified
      <3> SUFFICES ASSUME c[1] \in Strict PROVE c = main(c[1]) /\ c[1] \in verified
        OBVIOUS
      <3>1. c = main(c[1]) \/ c = <<c[1], "timer">>
        BY DEF Copy, main
      <3>2. c # <<c[1], "timer">>
        BY <2>1 DEF Checked
      <3> QED BY <2>1, <3>1, <3>2 DEF Checked
    <2>4. \A i \in Strict : alert'[<<i, "timer">>] = "none"
      <3> SUFFICES ASSUME NEW i \in Strict PROVE alert'[<<i, "timer">>] = "none"
        OBVIOUS
      <3>1. <<i, "timer">> # c
        BY <2>1 DEF Checked
      <3> QED BY <1>0, <2>1, <3>1 DEF Checked
    <2>5. ASSUME NEW i \in Strict,
                 job'[main(i)].stage = "alerting" \/ alert'[main(i)] # "none" \/ rows'[i] > 0
          PROVE  i \in verified'
      <3>1. CASE i = c[1]
        BY <2>1, <2>3, <3>1
      <3>2. CASE i # c[1]
        <4>0. main(i)[1] = i
          BY DEF main
        <4>1. main(i) # c /\ main(i) \in Copy /\ i \in Item
          BY <1>0, <3>2, <4>0
        <4>2. rows'[i] = rows[i] /\ alert'[main(i)] = alert[main(i)]
          BY <2>1, <2>2, <3>2, <4>1
        <4> QED BY <2>1, <2>5, <4>2 DEF Checked
      <3> QED BY <3>1, <3>2
    <2> QED BY <2>1, <2>4, <2>5 DEF Checked
  <1>11. CASE Tick \/ UNCHANGED vars
    BY <1>11 DEF Tick, vars, jobs, Checked
  <1> QED BY <1>1, <1>2, <1>3, <1>4, <1>5, <1>6, <1>7, <1>8, <1>9, <1>10, <1>11
        DEF Next, EnrichmentStep, LookupStep

\* Whichever jobs share a lookup, and however many items and sellers there
\* are, a strict item is alerted only on data of its own seller.
THEOREM StrictAlerts == Spec => []StrictVerified
  <1>1. Init => PipeInv /\ Checked
    <2>1. SUFFICES ASSUME Init PROVE Checked
      BY PipeInvHolds
    <2>2. /\ \A j \in Job : job[j].stage = "none"
          /\ \A c \in Copy : alert[c] = "none"
          /\ \A i \in Item : rows[i] = 0
      BY <2>1 DEF Init, Fresh
    <2>3. \A i \in Strict : i \in Item /\ main(i) \in Job /\ main(i) \in Copy
                            /\ <<i, "timer">> \in Copy
      BY Jobs, PipelineAssumption DEF main, Copy, PipelineAssumption
    <2>4. \A i \in Strict : /\ alert[<<i, "timer">>] = "none" /\ alert[main(i)] = "none"
                            /\ job[main(i)].stage = "none" /\ rows[i] = 0
      BY <2>2, <2>3
    <2>5. \A j \in Job : job[j].stage # "answered"
      BY <2>2
    <2>6. \A i \in Strict : ~(rows[i] > 0)
      <3> SUFFICES ASSUME NEW i \in Strict PROVE ~(rows[i] > 0)
        OBVIOUS
      <3>1. rows[i] = 0
        BY <2>4
      <3>2. ~(0 > 0)
        OBVIOUS
      <3> QED BY <3>1, <3>2
    <2>7. \A i \in Strict : ~(job[main(i)].stage = "alerting" \/ alert[main(i)] # "none"
                             \/ rows[i] > 0)
      BY <2>4, <2>6
    <2> QED BY <2>4, <2>5, <2>7, Zenon DEF Checked
  <1>2. (PipeInv /\ Checked) /\ [Next]_vars => (PipeInv /\ Checked)'
    BY PipeInvHolds, CheckedKept
  <1>3. Checked => StrictVerified
    BY DEF Checked, StrictVerified
  <1> QED BY <1>1, <1>2, <1>3, PTL DEF Spec

-----------------------------------------------------------------------------
(* Refreshes of cached sellers *)

Live(j) == job[j].stage \notin {"none", "done"}

\* The key of a seller is held by exactly the refresh that is under way.
Keyed ==
    /\ \A i \in Item : Live(refresh(i)) => SellerOf[i] \in refreshing
    /\ \A i, m \in Item :
          Live(refresh(i)) /\ Live(refresh(m)) /\ SellerOf[i] = SellerOf[m] => i = m
    /\ \A s \in refreshing : \E i \in Item : SellerOf[i] = s /\ Live(refresh(i))

\* Steps of other jobs.
LEMMA KeyedStays ==
    ASSUME Keyed, UNCHANGED refreshing,
           \A i \in Item : Live(refresh(i))' <=> Live(refresh(i))
    PROVE  Keyed'
  BY DEF Keyed

\* A refresh that ends gives its key back.
LEMMA KeyedEnds ==
    ASSUME Keyed, NEW m \in Item, Live(refresh(m)), ~Live(refresh(m))',
           refreshing' = refreshing \ {SellerOf[m]},
           \A i \in Item \ {m} : Live(refresh(i))' <=> Live(refresh(i))
    PROVE  Keyed'
  <1>1. ASSUME NEW i \in Item, Live(refresh(i))' PROVE SellerOf[i] \in refreshing'
    <2>1. i # m /\ Live(refresh(i))
      BY <1>1
    <2>2. SellerOf[i] # SellerOf[m] /\ SellerOf[i] \in refreshing
      BY <2>1 DEF Keyed
    <2> QED BY <2>2
  <1>2. ASSUME NEW i \in Item, NEW k \in Item, Live(refresh(i))', Live(refresh(k))',
               SellerOf[i] = SellerOf[k]
        PROVE  i = k
    BY <1>2 DEF Keyed
  <1>3. ASSUME NEW s \in refreshing'
        PROVE  \E i \in Item : SellerOf[i] = s /\ Live(refresh(i))'
    <2>1. s \in refreshing /\ s # SellerOf[m]
      BY <1>3
    <2>2. PICK i \in Item : SellerOf[i] = s /\ Live(refresh(i))
      BY <2>1 DEF Keyed
    <2> QED BY <2>1, <2>2
  <1> QED BY <1>1, <1>2, <1>3 DEF Keyed

\* One job moves on, or ends and gives back what it holds.
LEMMA KeyedMoves ==
    ASSUME Keyed, NEW j \in Job, Live(j), \A k \in Job \ {j} : job'[k] = job[k],
           \/ Live(j)' /\ UNCHANGED refreshing
           \/ ~Live(j)' /\ refreshing' = Released(j)
    PROVE  Keyed'
  <1>1. CASE j[2] = "refresh"
    <2>1. j = refresh(j[1]) /\ j[1] \in Item
      BY <1>1 DEF Job, refresh
    <2>2. ASSUME NEW i \in Item \ {j[1]} PROVE Live(refresh(i))' <=> Live(refresh(i))
      <3>1. refresh(i) \in Job /\ refresh(i)[1] = i
        BY Jobs
      <3> QED BY <3>1 DEF Live
    <2>3. CASE Live(j)' /\ UNCHANGED refreshing
      <3>1. ASSUME NEW i \in Item PROVE Live(refresh(i))' <=> Live(refresh(i))
        <4>1. CASE i = j[1]
          BY <2>1, <2>3, <4>1
        <4> QED BY <2>2, <4>1
      <3> QED BY <2>3, <3>1, KeyedStays
    <2>4. CASE ~Live(j)' /\ refreshing' = Released(j)
      <3>1. refreshing' = refreshing \ {SellerOf[j[1]]}
        BY <1>1, <2>4 DEF Released
      <3>2. Live(refresh(j[1])) /\ ~Live(refresh(j[1]))'
        BY <2>1, <2>4
      <3> QED BY <2>1, <2>2, <3>1, <3>2, KeyedEnds
    <2> QED BY <2>3, <2>4
  <1>2. CASE j[2] # "refresh"
    <2>1. ASSUME NEW i \in Item PROVE Live(refresh(i))' <=> Live(refresh(i))
      <3>1. refresh(i) \in Job /\ refresh(i)[2] = "refresh"
        BY Jobs
      <3> QED BY <1>2, <3>1 DEF Live
    <2>2. UNCHANGED refreshing
      BY <1>2 DEF Released
    <2> QED BY <2>1, <2>2, KeyedStays
  <1> QED BY <1>1, <1>2

LEMMA KeyedKept == PipeInv /\ Keyed /\ [Next]_vars => Keyed'
  <1> SUFFICES ASSUME PipeInv, Keyed, [Next]_vars PROVE Keyed'
    OBVIOUS
  <1> USE DEF PipeInv
  <1>1. ASSUME NEW i \in Item, EnqueueItem(i) \/ PrepareEnrichment(i) PROVE Keyed'
    <2>1. /\ \A k \in Job : k # main(i) /\ k # refresh(i) => job'[k] = job[k]
          /\ \/ /\ UNCHANGED refreshing
                /\ job'[refresh(i)] = job[refresh(i)]
             \/ /\ SellerOf[i] \notin refreshing
                /\ refreshing' = refreshing \cup {SellerOf[i]}
                /\ job'[refresh(i)].stage = "queued"
      BY <1>1, BeginEffect
    <2>2. ASSUME NEW m \in Item \ {i} PROVE Live(refresh(m))' <=> Live(refresh(m))
      <3>1. refresh(m) \in Job /\ refresh(m)[1] = m /\ refresh(m)[2] = "refresh"
            /\ main(i)[2] = "main" /\ refresh(i)[1] = i
        BY Jobs
      <3>2. job'[refresh(m)] = job[refresh(m)]
        BY <2>1, <3>1
      <3> QED BY <3>2 DEF Live
    <2>3. CASE UNCHANGED refreshing /\ job'[refresh(i)] = job[refresh(i)]
      <3>1. ASSUME NEW m \in Item PROVE Live(refresh(m))' <=> Live(refresh(m))
        <4>1. CASE m = i
          BY <2>3, <4>1 DEF Live
        <4> QED BY <2>2, <4>1
      <3> QED BY <2>3, <3>1, KeyedStays
    <2>4. CASE /\ SellerOf[i] \notin refreshing
               /\ refreshing' = refreshing \cup {SellerOf[i]}
               /\ job'[refresh(i)].stage = "queued"
      <3>1. Live(refresh(i))'
        BY <2>4 DEF Live
      <3>2. \A m \in Item : Live(refresh(m)) => SellerOf[m] # SellerOf[i]
        BY <2>4 DEF Keyed
      <3>3. ASSUME NEW m \in Item, Live(refresh(m))' PROVE SellerOf[m] \in refreshing'
        BY <2>2, <2>4, <3>3 DEF Keyed
      <3>4. ASSUME NEW m \in Item, NEW n \in Item, Live(refresh(m))', Live(refresh(n))',
                   SellerOf[m] = SellerOf[n]
            PROVE  m = n
        <4>1. m # i => Live(refresh(m))
          BY <2>2, <3>4
        <4>2. n # i => Live(refresh(n))
          BY <2>2, <3>4
        <4>3. CASE m = i \/ n = i
          BY <3>2, <3>4, <4>1, <4>2, <4>3
        <4>4. CASE m # i /\ n # i
          BY <3>4, <4>1, <4>2, <4>4 DEF Keyed
        <4> QED BY <4>3, <4>4
      <3>5. ASSUME NEW s \in refreshing'
            PROVE  \E m \in Item : SellerOf[m] = s /\ Live(refresh(m))'
        <4>1. CASE s = SellerOf[i]
          BY <3>1, <4>1
        <4>2. CASE s # SellerOf[i]
          <5>1. PICK m \in Item : SellerOf[m] = s /\ Live(refresh(m))
            BY <2>4, <3>5, <4>2 DEF Keyed
          <5> QED BY <2>2, <4>2, <5>1
        <4> QED BY <4>1, <4>2
      <3> QED BY <3>3, <3>4, <3>5 DEF Keyed
    <2> QED BY <2>1, <2>3, <2>4
  <1>2. ASSUME NEW j \in Job, TakeJob(j) PROVE Keyed'
    BY <1>2, TakeEffect, KeyedMoves DEF Live
  <1>3. ASSUME NEW j \in Job, LookupReturns(j) PROVE Keyed'
    <2>1. /\ UNCHANGED refreshing
          /\ \A k \in Job \ Flight(j) : job'[k] = job[k]
          /\ \A k \in Flight(j) : /\ job[k].stage \in {"leading", "joined"}
                                  /\ job'[k].stage = "answered"
      BY <1>3, LookupEffect
    <2>2. \A i \in Item : refresh(i) \in Job
      BY Jobs
    <2>3. \A i \in Item : Live(refresh(i))' <=> Live(refresh(i))
      BY <2>1, <2>2 DEF Live
    <2> QED BY <2>1, <2>3, KeyedStays
  <1>4. ASSUME NEW j \in Job, JoinerTimesOut(j) PROVE Keyed'
    BY <1>4, JoinerEffect, KeyedMoves DEF Live
  <1>5. ASSUME NEW j \in Job, JudgeStrict(j) PROVE Keyed'
    <2>1. j[2] = "main" /\ UNCHANGED refreshing /\ Released(j) = refreshing
      BY <1>5, StrictEffect DEF Released
    <2> QED BY <1>5, <2>1, StrictEffect, KeyedMoves DEF Live
  <1>6. ASSUME NEW j \in Job, JudgeNormal(j) PROVE Keyed'
    BY <1>6, NormalEffect, KeyedMoves DEF Live
  <1>7. ASSUME NEW j \in Job, FinishQuietly(j) PROVE Keyed'
    BY <1>7, QuietEffect, KeyedMoves DEF Live
  <1>8. ASSUME NEW j \in Job, EnqueueMain(j) PROVE Keyed'
    <2>1. j[2] = "main"
      BY <1>8 DEF EnqueueMain, Sequel
    <2>2. /\ UNCHANGED refreshing
          /\ \A k \in Job : k # j /\ k # background(j[1]) => job'[k] = job[k]
      BY <1>8, <2>1, AlertEffect
    <2>3. background(j[1])[2] = "background"
      BY DEF background
    <2>4. ASSUME NEW i \in Item PROVE Live(refresh(i))' <=> Live(refresh(i))
      <3>1. refresh(i) \in Job /\ refresh(i)[2] = "refresh"
        BY Jobs
      <3> QED BY <2>1, <2>2, <2>3, <3>1 DEF Live
    <2> QED BY <2>2, <2>4, KeyedStays
  <1>9. CASE UNCHANGED <<job, refreshing>>
    BY <1>9 DEF Keyed, Live
  <1> QED BY <1>1, <1>2, <1>3, <1>4, <1>5, <1>6, <1>7, <1>8, <1>9
        DEF Next, EnrichmentStep, LookupStep, AlertStep, TimerFires, EnqueueAlert, TakeAlert,
            AlertWritten, AlertFails, Tick, vars, jobs

KeyInv == PipeInv /\ Keyed

LEMMA KeyInvHolds ==
    /\ Init => KeyInv
    /\ KeyInv /\ [Next]_vars => KeyInv'
  <1>1. Init => Keyed
    <2>1. SUFFICES ASSUME Init PROVE Keyed
      OBVIOUS
    <2>2. \A i \in Item : ~Live(refresh(i))
      BY <2>1, Jobs DEF Init, Fresh, Live
    <2>3. refreshing = {}
      BY <2>1 DEF Init
    <2> QED BY <2>2, <2>3 DEF Keyed
  <1> QED BY <1>1, PipeInvHolds, KeyedKept DEF KeyInv

\* For any items and sellers: a refresh that ran, failed, was shared or came
\* after its deadline has given its key back, and none gives back another's.
THEOREM RefreshKeys == Spec => []RefreshKeyReturned
  <1>1. KeyInv => RefreshKeyReturned
    <2>1. SUFFICES ASSUME KeyInv PROVE RefreshKeyReturned
      OBVIOUS
    <2>2. refreshing \subseteq Seller
      BY <2>1 DEF KeyInv, PipeInv, TypeInv, TypeOK
    <2>3. \A i \in Item : Live(refresh(i)) <=> job[<<i, "refresh">>].stage \notin {"none", "done"}
      BY DEF Live, refresh
    <2>4. ASSUME NEW s \in refreshing
          PROVE  \E i \in Item : SellerOf[i] = s
                               /\ job[<<i, "refresh">>].stage \notin {"none", "done"}
      BY <2>1, <2>3 DEF KeyInv, Keyed
    <2>5. ASSUME NEW i \in Item, job[<<i, "refresh">>].stage \notin {"none", "done"}
          PROVE  SellerOf[i] \in refreshing
      BY <2>1, <2>3, <2>5 DEF KeyInv, Keyed
    <2> QED BY <2>4, <2>5 DEF RefreshKeyReturned
  <1> QED BY <1>1, KeyInvHolds, PTL DEF Spec

-----------------------------------------------------------------------------
(* The flights of a seller *)

Leads(j) == job[j].stage = "leading"
Joins(j) == job[j].stage = "joined"
Same(j, k) == SellerOf[j[1]] = SellerOf[k[1]]

\* A seller has one leader, and who waits has one.
Led ==
    /\ \A j, k \in Job : Leads(j) /\ Leads(k) /\ Same(j, k) => j = k
    /\ \A j \in Job : Joins(j) => \E k \in Job : Leads(k) /\ Same(j, k)

\* Steps that touch no leader and make no leader or waiter.
LEMMA LedStays ==
    ASSUME Led, \A k \in Job : \/ job'[k] = job[k]
                              \/ /\ job[k].stage # "leading"
                                 /\ job'[k].stage \notin {"leading", "joined"}
    PROVE  Led'
  <1>1. \A k \in Job : Leads(k)' <=> Leads(k)
    BY DEF Leads
  <1>2. \A k \in Job : Joins(k)' => Joins(k)
    BY DEF Joins
  <1> QED BY <1>1, <1>2 DEF Led, Same

\* A worker starts a flight when there is none, or joins it.
LEMMA LedTakes ==
    ASSUME Led, NEW j \in Job, ~Leads(j), ~Joins(j),
           \A k \in Job \ {j} : job'[k] = job[k],
           \/ Leads(j)' /\ ~Joins(j)' /\ Leader(SellerOf[j[1]]) = {}
           \/ Joins(j)' /\ ~Leads(j)' /\ Leader(SellerOf[j[1]]) # {}
    PROVE  Led'
  <1>1. \A k \in Job \ {j} : (Leads(k)' <=> Leads(k)) /\ (Joins(k)' <=> Joins(k))
    BY DEF Leads, Joins
  <1>2. CASE Leads(j)' /\ ~Joins(j)' /\ Leader(SellerOf[j[1]]) = {}
    <2>1. \A k \in Job : Leads(k) => ~Same(k, j)
      BY <1>2 DEF Leader, Leads, Same
    <2>2. \A k, m \in Job : Leads(k)' /\ Leads(m)' /\ Same(k, m) => k = m
      <3> SUFFICES ASSUME NEW k \in Job, NEW m \in Job, Leads(k)', Leads(m)', Same(k, m)
                   PROVE  k = m
        OBVIOUS
      <3>1. CASE k = j /\ m # j
        <4>1. Leads(m) /\ Same(m, j)
          BY <1>1, <3>1 DEF Same
        <4> QED BY <2>1, <4>1
      <3>2. CASE k # j /\ m = j
        BY <1>1, <2>1, <3>2
      <3>3. CASE k # j /\ m # j
        BY <1>1, <3>3 DEF Led
      <3> QED BY <3>1, <3>2, <3>3
    <2>3. ASSUME NEW k \in Job, Joins(k)' PROVE \E m \in Job : Leads(m)' /\ Same(k, m)
      <3>1. Joins(k)
        BY <1>1, <1>2, <2>3
      <3>2. PICK m \in Job : Leads(m) /\ Same(k, m)
        BY <3>1 DEF Led
      <3>3. m # j
        BY <3>2
      <3> QED BY <1>1, <3>2, <3>3
    <2> QED BY <2>2, <2>3 DEF Led, Same
  <1>3. CASE Joins(j)' /\ ~Leads(j)' /\ Leader(SellerOf[j[1]]) # {}
    <2>1. \A k \in Job : Leads(k)' <=> Leads(k)
      BY <1>1, <1>3
    <2>2. \E k \in Job : Leads(k) /\ Same(j, k)
      BY <1>3 DEF Leader, Leads, Same
    <2>3. ASSUME NEW k \in Job, Joins(k)' PROVE \E m \in Job : Leads(m)' /\ Same(k, m)
      <3>1. CASE k = j
        BY <2>1, <2>2, <3>1
      <3>2. CASE k # j
        BY <1>1, <2>1, <2>3, <3>2 DEF Led
      <3> QED BY <3>1, <3>2
    <2> QED BY <2>1, <2>3 DEF Led, Same
  <1> QED BY <1>2, <1>3

\* A flight ends with an answer for all of it.
LEMMA LedEnds ==
    ASSUME Led, NEW j \in Job, Leads(j),
           \A k \in Job \ Flight(j) : job'[k] = job[k],
           \A k \in Flight(j) : ~Leads(k)' /\ ~Joins(k)' /\ Same(k, j)
    PROVE  Led'
  <1>1. \A k \in Job : /\ Leads(k)' => Leads(k) /\ k \notin Flight(j)
                       /\ Joins(k)' => Joins(k) /\ k \notin Flight(j)
    BY DEF Leads, Joins
  <1>2. \A k, m \in Job : Leads(k)' /\ Leads(m)' /\ Same(k, m) => k = m
    BY <1>1 DEF Led
  <1>3. ASSUME NEW k \in Job, Joins(k)' PROVE \E m \in Job : Leads(m)' /\ Same(k, m)
    <2>1. Joins(k) /\ ~Same(k, j)
      BY <1>1, <1>3 DEF Flight, Joins, Same
    <2>2. PICK m \in Job : Leads(m) /\ Same(k, m)
      BY <2>1 DEF Led
    <2>3. m \notin Flight(j)
      BY <2>1, <2>2 DEF Same
    <2>4. Leads(m)'
      BY <2>2, <2>3 DEF Leads
    <2> QED BY <2>2, <2>4
  <1> QED BY <1>2, <1>3 DEF Led, Same

LEMMA LedKept == KeyInv /\ Led /\ [Next]_vars => Led'
  <1> SUFFICES ASSUME KeyInv, Led, [Next]_vars PROVE Led'
    OBVIOUS
  <1> USE DEF KeyInv, PipeInv
  <1>1. ASSUME NEW i \in Item, EnqueueItem(i) \/ PrepareEnrichment(i) PROVE Led'
    <2>1. /\ job[main(i)].stage \in {"none", "cache"}
          /\ job'[main(i)].stage \in {"cache", "fast", "queued"}
          /\ \A k \in Job : k # main(i) /\ k # refresh(i) => job'[k] = job[k]
          /\ \/ job'[refresh(i)] = job[refresh(i)]
             \/ /\ SellerOf[i] \notin refreshing
                /\ job'[refresh(i)].stage = "queued"
      BY <1>1, BeginEffect
    <2>2. SellerOf[i] \notin refreshing => job[refresh(i)].stage \in {"none", "done"}
      BY DEF Keyed, Live
    <2> QED BY <2>1, <2>2, LedStays
  <1>2. ASSUME NEW j \in Job, TakeJob(j) PROVE Led'
    <2>1. /\ job[j].stage \in {"fast", "queued"}
          /\ \A k \in Job \ {j} : job'[k] = job[k]
          /\ \/ job'[j].stage \in {"done", "answered"}
             \/ job'[j].stage = "leading" /\ Leader(SellerOf[j[1]]) = {}
             \/ job'[j].stage = "joined" /\ Leader(SellerOf[j[1]]) # {}
      BY <1>2, TakeEffect
    <2>2. ~Leads(j) /\ ~Joins(j)
      BY <2>1 DEF Leads, Joins
    <2>3. CASE job'[j].stage \in {"done", "answered"}
      BY <2>1, <2>3, LedStays
    <2>4. CASE job'[j].stage = "leading" /\ Leader(SellerOf[j[1]]) = {}
      <3>1. Leads(j)' /\ ~Joins(j)'
        BY <2>4 DEF Leads, Joins
      <3> QED BY <2>1, <2>2, <2>4, <3>1, LedTakes
    <2>5. CASE job'[j].stage = "joined" /\ Leader(SellerOf[j[1]]) # {}
      <3>1. ~Leads(j)' /\ Joins(j)'
        BY <2>5 DEF Leads, Joins
      <3> QED BY <2>1, <2>2, <2>5, <3>1, LedTakes
    <2> QED BY <2>1, <2>3, <2>4, <2>5
  <1>3. ASSUME NEW j \in Job, LookupReturns(j) PROVE Led'
    <2>1. /\ job[j].stage = "leading"
          /\ \A k \in Job \ Flight(j) : job'[k] = job[k]
          /\ \A k \in Flight(j) : SellerOf[k[1]] = SellerOf[j[1]] /\ job'[k].stage = "answered"
      BY <1>3, LookupEffect
    <2>2. \A k \in Flight(j) : ~Leads(k)' /\ ~Joins(k)' /\ Same(k, j)
      BY <2>1 DEF Leads, Joins, Same
    <2>3. Leads(j)
      BY <2>1 DEF Leads
    <2> QED BY <2>1, <2>2, <2>3, LedEnds
  <1>4. ASSUME NEW j \in Job,
               job[j].stage \in {"joined", "answered"},
               \A k \in Job \ {j} : job'[k] = job[k],
               job'[j].stage \notin {"leading", "joined"}
        PROVE  Led'
    BY <1>4, LedStays
  <1>5. ASSUME NEW j \in Job, JoinerTimesOut(j) PROVE Led'
    BY <1>4, <1>5, JoinerEffect
  <1>6. ASSUME NEW j \in Job, JudgeStrict(j) PROVE Led'
    BY <1>4, <1>6, StrictEffect
  <1>7. ASSUME NEW j \in Job, JudgeNormal(j) PROVE Led'
    BY <1>4, <1>7, NormalEffect
  <1>8. ASSUME NEW j \in Job, FinishQuietly(j) PROVE Led'
    BY <1>4, <1>8, QuietEffect
  <1>9. ASSUME NEW j \in Job, EnqueueMain(j) PROVE Led'
    <2>1. j[2] = "main"
      BY <1>9 DEF EnqueueMain, Sequel
    <2>2. /\ job[j].stage = "alerting" /\ job'[j].stage = "done"
          /\ \A k \in Job : k # j /\ k # background(j[1]) => job'[k] = job[k]
          /\ \/ job'[background(j[1])] = job[background(j[1])]
             \/ job'[background(j[1])].stage = "queued"
      BY <1>9, <2>1, AlertEffect
    <2>3. j = main(j[1]) /\ j[1] \in Item
      BY <2>1 DEF Job, main
    <2>4. job[background(j[1])].stage = "none"
      BY <2>2, <2>3 DEF Sequel
    <2> QED BY <2>2, <2>4, LedStays
  <1>10. CASE UNCHANGED job
    BY <1>10, LedStays
  <1> QED BY <1>1, <1>2, <1>3, <1>5, <1>6, <1>7, <1>8, <1>9, <1>10
        DEF Next, EnrichmentStep, LookupStep, AlertStep, TimerFires, EnqueueAlert, TakeAlert,
            AlertWritten, AlertFails, Tick, vars, jobs

\* For any items and sellers: no job waits for a flight that nobody leads, and
\* no seller is looked up twice at a time.
THEOREM FlightsHaveLeaders == Spec => []FlightsLed
  <1>1. Init => KeyInv /\ Led
    <2>1. SUFFICES ASSUME Init PROVE Led
      BY KeyInvHolds
    <2>2. \A j \in Job : ~Leads(j) /\ ~Joins(j)
      BY <2>1 DEF Init, Fresh, Leads, Joins
    <2> QED BY <2>2 DEF Led
  <1>2. (KeyInv /\ Led) /\ [Next]_vars => (KeyInv /\ Led)'
    BY KeyInvHolds, LedKept
  <1>3. Led => FlightsLed
    <2> SUFFICES ASSUME Led PROVE FlightsLed
      OBVIOUS
    <2>1. ASSUME NEW s \in Seller PROVE Cardinality(Leader(s)) <= 1
      <3>1. CASE Leader(s) = {}
        <4>1. Cardinality(Leader(s)) = 0
          BY <3>1, FS_EmptySet
        <4> QED BY <4>1
      <3>2. CASE Leader(s) # {}
        <4>1. PICK j \in Leader(s) : TRUE
          BY <3>2
        <4>2. Leader(s) = {j}
          BY <4>1 DEF Leader, Led, Leads, Same
        <4>3. Cardinality(Leader(s)) = 1
          BY <4>2, FS_Singleton
        <4> QED BY <4>3
      <3> QED BY <3>1, <3>2
    <2>2. ASSUME NEW j \in Job, Joins(j) PROVE Leader(SellerOf[j[1]]) # {}
      BY <2>2 DEF Leader, Led, Leads, Same
    <2> QED BY <2>1, <2>2 DEF FlightsLed, Joins
  <1> QED BY <1>1, <1>2, <1>3, PTL DEF Spec

=============================================================================
