----------------------- MODULE SellerScheduler_proofs -----------------------
(***************************************************************************)
(* Proofs about SellerScheduler: the lanes and their index stay in step,   *)
(* what is ready is never behind what is not, and an accepted job has one  *)
(* place.                                                                  *)
(***************************************************************************)
EXTENDS SellerScheduler, TLAPS, SequenceTheorems, FiniteSetTheorems,
        WellFoundedInduction

Row == [lane : Lane, jobs : Seq(Entry)]

\* What LanesIndexed says of the table alone, with its types.
TableOK ==
    /\ lanes \in Seq(Row)
    /\ laneIndex \in [Lane -> Nat]
    /\ \A l \in Lane : laneIndex[l] <= Len(lanes)
    /\ \A i \in 1..Len(lanes) : laneIndex[lanes[i].lane] = i
    /\ \A i \in 1..Len(lanes) : lanes[i].jobs # <<>>
    /\ \A l \in Lane : laneIndex[l] # 0 => lanes[laneIndex[l]].lane = l

IndexInv ==
    /\ TypeOK /\ TableOK
    /\ selected <= Len(lanes)
    /\ selected # 0 => pc = "wait"

\* Inserting keeps a sequence of entries one.
LEMMA InsertedType ==
    ASSUME NEW jobs \in Seq(Entry), NEW e \in Entry, NEW p \in 1..Len(jobs) + 1
    PROVE  /\ Inserted(jobs, p, e) \in Seq(Entry)
           /\ Len(Inserted(jobs, p, e)) = Len(jobs) + 1
           /\ Inserted(jobs, p, e) # <<>>
<1> DEFINE new == Inserted(jobs, p, e)
<1>1. new \in [1..Len(jobs) + 1 -> Entry]
  BY DEF Inserted
<1>2. new \in Seq(Entry)
  BY <1>1
<1>3. Len(new) = Len(jobs) + 1
  BY <1>1, <1>2
<1>4. new # <<>>
  BY <1>3
<1>5. QED
  BY <1>2, <1>3, <1>4

\* add keeps the table and its index in step.
LEMMA AddKeepsTable ==
    ASSUME TableOK, NEW e \in Entry, AddJob(e)
    PROVE  TableOK' /\ Len(lanes') >= Len(lanes)
<1> DEFINE l == LaneOf[e.job]
           i == laneIndex[l]
<1>1. l \in Lane /\ e.job \in Job
  BY SchedulerAssumption DEF Entry, SchedulerAssumption
<1>2. i \in 0..Len(lanes)
  BY <1>1 DEF TableOK
<1>3. CASE i # 0
  <2>1. PICK p \in Places(lanes[i].jobs, e) :
             lanes' = [lanes EXCEPT ![i].jobs = Inserted(@, p, e)]
    BY <1>3 DEF AddJob
  <2>2. i \in 1..Len(lanes) /\ lanes[i] \in Row
    BY <1>2, <1>3 DEF TableOK
  <2>3. p \in 1..Len(lanes[i].jobs) + 1 /\ lanes[i].jobs \in Seq(Entry)
    BY <2>2 DEF Places, Row
  <2>4. /\ Inserted(lanes[i].jobs, p, e) \in Seq(Entry)
        /\ Inserted(lanes[i].jobs, p, e) # <<>>
    BY <2>3, InsertedType
  <2>5. UNCHANGED laneIndex
    BY <1>3 DEF AddJob
  <2> DEFINE row == [lanes[i] EXCEPT !.jobs = Inserted(lanes[i].jobs, p, e)]
  <2>a. row \in Row /\ row.lane = lanes[i].lane /\ row.jobs # <<>>
    BY <2>2, <2>4 DEF Row
  <2>b. lanes' = [lanes EXCEPT ![i] = row]
    BY <2>1
  <2>6. /\ lanes' \in Seq(Row) /\ Len(lanes') = Len(lanes)
        /\ \A k \in 1..Len(lanes) : lanes'[k].lane = lanes[k].lane
        /\ \A k \in 1..Len(lanes) : lanes'[k].jobs # <<>>
    <3> HIDE DEF row
    <3> QED
      BY <2>a, <2>b, <2>2 DEF TableOK
  <2>7. \A m \in Lane : laneIndex[m] # 0 => laneIndex[m] \in 1..Len(lanes)
    BY DEF TableOK
  <2>8. \A m \in Lane : laneIndex[m] # 0 => lanes'[laneIndex[m]].lane = m
    BY <2>6, <2>7 DEF TableOK
  <2>9. QED
    BY <2>5, <2>6, <2>8 DEF TableOK
<1>4. CASE i = 0
  <2>1. /\ lanes' = Append(lanes, [lane |-> l, jobs |-> <<e>>])
        /\ laneIndex' = [laneIndex EXCEPT ![l] = Len(lanes) + 1]
    BY <1>4 DEF AddJob
  <2>2. [lane |-> l, jobs |-> <<e>>] \in Row
    BY <1>1 DEF Row
  <2>3. /\ lanes' \in Seq(Row) /\ Len(lanes') = Len(lanes) + 1
        /\ \A k \in 1..Len(lanes) : lanes'[k] = lanes[k]
        /\ lanes'[Len(lanes) + 1] = [lane |-> l, jobs |-> <<e>>]
    BY <2>1, <2>2 DEF TableOK
  <2>4. \A k \in 1..Len(lanes) : lanes[k].lane # l
    BY <1>4 DEF TableOK
  <2>5. laneIndex' \in [Lane -> Nat]
    BY <2>1, <1>1 DEF TableOK
  <2>6. \A k \in 1..Len(lanes') : /\ laneIndex'[lanes'[k].lane] = k
                                 /\ lanes'[k].jobs # <<>>
    <3> SUFFICES ASSUME NEW k \in 1..Len(lanes')
                 PROVE  laneIndex'[lanes'[k].lane] = k /\ lanes'[k].jobs # <<>>
      OBVIOUS
    <3>1. CASE k = Len(lanes) + 1
      BY <3>1, <2>1, <2>3, <1>1 DEF TableOK
    <3>2. CASE k # Len(lanes) + 1
      <4>1. k \in 1..Len(lanes) /\ lanes[k] \in Row
        BY <3>2, <2>3 DEF TableOK
      <4>2. QED
        BY <4>1, <2>1, <2>3, <2>4 DEF TableOK, Row
    <3>3. QED
      BY <3>1, <3>2
  <2>7. \A m \in Lane : /\ laneIndex'[m] <= Len(lanes')
                        /\ laneIndex'[m] # 0 => lanes'[laneIndex'[m]].lane = m
    <3> SUFFICES ASSUME NEW m \in Lane
                 PROVE  /\ laneIndex'[m] <= Len(lanes')
                        /\ laneIndex'[m] # 0 => lanes'[laneIndex'[m]].lane = m
      OBVIOUS
    <3>1. CASE m = l
      BY <3>1, <2>1, <2>3, <1>1 DEF TableOK
    <3>2. CASE m # l
      <4>1. laneIndex'[m] = laneIndex[m]
        BY <3>2, <2>1 DEF TableOK
      <4>2. laneIndex[m] \in Nat /\ laneIndex[m] <= Len(lanes)
        BY DEF TableOK
      <4>3. laneIndex[m] # 0 => lanes'[laneIndex[m]] = lanes[laneIndex[m]]
        BY <4>2, <2>3
      <4>4. laneIndex'[m] <= Len(lanes')
        BY <4>1, <4>2, <2>3
      <4>5. QED
        BY <4>1, <4>3, <4>4 DEF TableOK
    <3>3. QED
      BY <3>1, <3>2
  <2>8. QED
    BY <2>3, <2>5, <2>6, <2>7 DEF TableOK
<1>5. QED
  BY <1>2, <1>3, <1>4

\* removeEmptyLane keeps them in step as the lanes behind move up.
LEMMA RemoveKeepsTable ==
    ASSUME TableOK, NEW i \in 1..Len(lanes), RemoveEmptyLane(i)
    PROVE  TableOK'
<1> DEFINE n == Len(lanes)
           Old(k) == IF k < i THEN k ELSE k + 1
<1>1. /\ lanes' = [k \in 1..n - 1 |-> lanes[Old(k)]]
      /\ laneIndex' = [l \in Lane |->
                         IF l = lanes[i].lane THEN 0
                         ELSE IF laneIndex[l] > i THEN laneIndex[l] - 1
                         ELSE laneIndex[l]]
  BY DEF RemoveEmptyLane
<1>2. n \in Nat /\ \A k \in 1..n : lanes[k] \in Row
  BY DEF TableOK
<1>3. \A k \in 1..n - 1 : Old(k) \in 1..n /\ Old(k) # i
  BY <1>2
<1>4. lanes' \in [1..n - 1 -> Row]
  BY <1>1, <1>2, <1>3
<1>5. lanes' \in Seq(Row) /\ Len(lanes') = n - 1
  BY <1>2, <1>4
<1>6. laneIndex' \in [Lane -> Nat]
  BY <1>1 DEF TableOK
<1>7. \A k \in 1..n - 1 : /\ laneIndex'[lanes'[k].lane] = k
                          /\ lanes'[k].jobs # <<>>
  <2> SUFFICES ASSUME NEW k \in 1..n - 1
               PROVE  laneIndex'[lanes'[k].lane] = k /\ lanes'[k].jobs # <<>>
    OBVIOUS
  <2>1. lanes'[k] = lanes[Old(k)]
    BY <1>1
  <2>2. laneIndex[lanes[Old(k)].lane] = Old(k) /\ laneIndex[lanes[i].lane] = i
    BY <1>3 DEF TableOK
  <2>3. lanes[Old(k)].lane \in Lane /\ lanes[Old(k)].lane # lanes[i].lane
    BY <1>2, <1>3, <2>2 DEF Row
  <2> DEFINE l == lanes[Old(k)].lane
  <2>a. laneIndex'[l] = IF laneIndex[l] > i THEN laneIndex[l] - 1 ELSE laneIndex[l]
    <3> HIDE DEF Old
    <3> QED
      BY <1>1, <2>3
  <2>b. laneIndex[l] = IF k < i THEN k ELSE k + 1
    BY <2>2
  <2>c. laneIndex'[l] = k
    <3> HIDE DEF l
    <3> QED
      BY <2>a, <2>b, <1>2
  <2>4. laneIndex'[lanes'[k].lane] = k
    BY <2>1, <2>c
  <2>5. QED
    BY <1>3, <2>1, <2>4 DEF TableOK
<1>8. \A l \in Lane : /\ laneIndex'[l] <= n - 1
                      /\ laneIndex'[l] # 0 => lanes'[laneIndex'[l]].lane = l
  <2> SUFFICES ASSUME NEW l \in Lane
               PROVE  /\ laneIndex'[l] <= n - 1
                      /\ laneIndex'[l] # 0 => lanes'[laneIndex'[l]].lane = l
    OBVIOUS
  <2>1. CASE l = lanes[i].lane
    BY <1>1, <1>2, <2>1
  <2>2. CASE l # lanes[i].lane
    <3>1. /\ laneIndex[l] \in 0..n
          /\ laneIndex[l] # 0 => lanes[laneIndex[l]].lane = l
          /\ laneIndex[l] # i
      BY <2>2 DEF TableOK
    <3>2. laneIndex'[l] = IF laneIndex[l] > i THEN laneIndex[l] - 1
                          ELSE laneIndex[l]
      BY <1>1, <2>2
    <3>3. laneIndex'[l] \in 0..n - 1
      BY <3>1, <3>2, <1>2
    <3>4. laneIndex'[l] # 0 => Old(laneIndex'[l]) = laneIndex[l]
      BY <3>1, <3>2, <1>2
    <3>5. laneIndex'[l] # 0 => lanes'[laneIndex'[l]] = lanes[laneIndex[l]]
      BY <1>1, <3>3, <3>4
    <3>6. laneIndex'[l] # 0 => laneIndex[l] # 0
      BY <3>1, <3>2
    <3>7. QED
      BY <3>1, <3>3, <3>5, <3>6
  <2>3. QED
    BY <2>1, <2>2
<1>9. QED
  BY <1>5, <1>6, <1>7, <1>8 DEF TableOK

\* A nonempty set of numbers has a least one.
LEMMA LeastNat ==
    ASSUME NEW T \in SUBSET Nat, T # {}
    PROVE  \E x \in T : \A y \in T : x <= y
<1> DEFINE less == OpToRel(<, Nat)
<1>0. IsWellFoundedOn(less, Nat)
  BY NatLessThanWellFounded
<1>1. PICK x \in T : \A y \in T : ~(<<y, x>> \in less)
  <2> HIDE DEF less
  <2> QED
    BY <1>0, WFMin
<1>2. \A y \in T : x <= y
  <2> SUFFICES ASSUME NEW y \in T, y < x
               PROVE  FALSE
    OBVIOUS
  <2>1. <<y, x>> \in Nat \X Nat
    OBVIOUS
  <2>2. <<y, x>> \in less
    BY <2>1 DEF OpToRel
  <2>3. QED
    BY <1>1, <2>2
<1>3. QED
  BY <1>2

\* The priorities are 0, 1 and 2.
LEMMA PriorityType ==
    ASSUME NEW e \in Entry
    PROVE  Priority(e) \in 0..2
<1>1. ClassOf(e.job) \in Classes
  BY SchedulerAssumption DEF SchedulerAssumption, Entry, ClassOf
<1>2. Rank(e) \in 0..2
  BY <1>1 DEF Rank, Classes
<1>3. QED
  BY <1>2 DEF Priority

\* The choice is a lane that Run has, or none.
LEMMA SelectionInRange ==
    ASSUME NEW ls \in Seq(Row), nextLane \in Nat
    PROVE  Selection(ls) \in 0..Len(ls)
<1> DEFINE HeadAt(o) == Head(ls[Scan(ls, o)].jobs)
           open == {o \in Offsets(ls) :
                      /\ ls[Scan(ls, o)].jobs # <<>>
                      /\ Ready(HeadAt(o))}
           best == {o \in open : \A x \in open :
                      \/ Priority(HeadAt(o)) < Priority(HeadAt(x))
                      \/ Priority(HeadAt(o)) = Priority(HeadAt(x)) /\ o <= x}
<1>1. Selection(ls) = IF open = {} THEN 0 ELSE Scan(ls, CHOOSE o \in best : TRUE)
  BY DEF Selection
<1>2. \A o \in Offsets(ls) : o \in Nat /\ Scan(ls, o) \in 1..Len(ls)
  BY DEF Offsets, Scan
<1>3. CASE open = {}
  BY <1>1, <1>3
<1>4. CASE open # {}
  <2>1. \A o \in open : o \in Nat /\ Priority(HeadAt(o)) \in Nat
    <3> SUFFICES ASSUME NEW o \in open
                 PROVE  o \in Nat /\ Priority(HeadAt(o)) \in Nat
      OBVIOUS
    <3>1. ls[Scan(ls, o)] \in Row /\ ls[Scan(ls, o)].jobs # <<>>
      BY <1>2
    <3>2. HeadAt(o) \in Entry
      BY <3>1 DEF Row
    <3>3. QED
      BY <1>2, <3>2, PriorityType
  <2>2. PICK o1 \in open : \A x \in open : Priority(HeadAt(o1)) <= Priority(HeadAt(x))
    <3> DEFINE ranks == {Priority(HeadAt(o)) : o \in open}
    <3>1. ranks \in SUBSET Nat /\ ranks # {}
      BY <1>4, <2>1
    <3>2. PICK p \in ranks : \A q \in ranks : p <= q
      BY <3>1, LeastNat
    <3>3. QED
      BY <3>2
  <2>3. PICK o2 \in open :
          /\ Priority(HeadAt(o2)) = Priority(HeadAt(o1))
          /\ \A x \in open : Priority(HeadAt(x)) = Priority(HeadAt(o1)) => o2 <= x
    <3> DEFINE first == {o \in open : Priority(HeadAt(o)) = Priority(HeadAt(o1))}
    <3>1. first \in SUBSET Nat /\ first # {}
      BY <2>1
    <3>2. PICK o2 \in first : \A x \in first : o2 <= x
      BY <3>1, LeastNat
    <3>3. QED
      BY <3>2
  <2>4. o2 \in best
    <3> SUFFICES ASSUME NEW x \in open
                 PROVE  \/ Priority(HeadAt(o2)) < Priority(HeadAt(x))
                        \/ Priority(HeadAt(o2)) = Priority(HeadAt(x)) /\ o2 <= x
      OBVIOUS
    <3> HIDE DEF HeadAt, open
    <3>1. QED
      BY <2>1, <2>2, <2>3
  <2>5. (CHOOSE o \in best : TRUE) \in Offsets(ls)
    BY <2>4
  <2>6. Selection(ls) = Scan(ls, CHOOSE o \in best : TRUE)
    <3> HIDE DEF best, open
    <3> QED
      BY <1>1, <1>4
  <2>7. Scan(ls, CHOOSE o \in best : TRUE) \in 1..Len(ls)
    <3> HIDE DEF best
    <3> QED
      BY <1>2, <2>5
  <2>8. QED
    <3> HIDE DEF best
    <3> QED
      BY <2>6, <2>7
<1>5. QED
  BY <1>3, <1>4

-----------------------------------------------------------------------------
\* A job grows older within its range, and its lane keeps its length.
LEMMA AgedType ==
    ASSUME NEW jobs \in Seq(Entry)
    PROVE  Aged(jobs) \in Seq(Entry) /\ Len(Aged(jobs)) = Len(jobs)
<1>1. \A e \in Entry : Older(e) \in Entry
  <2> SUFFICES ASSUME NEW e \in Entry PROVE Older(e) \in Entry
    OBVIOUS
  <2>1. e.job \in Job /\ e.age \in Int /\ -MaxDelay <= e.age /\ e.age <= StarvationAge
    BY SchedulerAssumption DEF SchedulerAssumption, Entry
  <2>2. CASE e.job \in Dated /\ e.age < StarvationAge
    <3>1. e.age + 1 \in (-MaxDelay)..StarvationAge
      BY <2>1, <2>2, SchedulerAssumption DEF SchedulerAssumption
    <3>2. [e EXCEPT !.age = e.age + 1] \in Entry
      BY <2>1, <3>1 DEF Entry
    <3>3. QED
      BY <2>2, <3>2 DEF Older
  <2>3. CASE ~(e.job \in Dated /\ e.age < StarvationAge)
    BY <2>3 DEF Older
  <2>4. QED
    BY <2>2, <2>3
<1>2. Aged(jobs) \in [1..Len(jobs) -> Entry]
  BY <1>1 DEF Aged
<1>3. QED
  BY <1>2

\* The passing of time leaves the table and its index in step.
LEMMA TickKeepsTable ==
    ASSUME TableOK, Tick
    PROVE  /\ TableOK' /\ Len(lanes') = Len(lanes)
           /\ \A i \in 1..Len(lanes) : lanes'[i].jobs = Aged(lanes[i].jobs)
<1>1. laneIndex' = laneIndex
  BY DEF Tick
<1>2. \A i \in 1..Len(lanes) : /\ lanes'[i] \in Row
                               /\ lanes'[i].lane = lanes[i].lane
                               /\ lanes'[i].jobs # <<>>
                               /\ lanes'[i].jobs = Aged(lanes[i].jobs)
  <2> SUFFICES ASSUME NEW i \in 1..Len(lanes)
               PROVE  /\ lanes'[i] \in Row
                      /\ lanes'[i].lane = lanes[i].lane
                      /\ lanes'[i].jobs # <<>>
                      /\ lanes'[i].jobs = Aged(lanes[i].jobs)
    OBVIOUS
  <2>1. lanes[i] \in Row /\ lanes[i].jobs # <<>>
    BY DEF TableOK
  <2>2. lanes'[i] = [lanes[i] EXCEPT !.jobs = Aged(lanes[i].jobs)]
    BY DEF Tick, TableOK
  <2>3. Aged(lanes[i].jobs) \in Seq(Entry) /\ Aged(lanes[i].jobs) # <<>>
    BY <2>1, AgedType DEF Row
  <2>4. QED
    BY <2>1, <2>2, <2>3 DEF Row
<1>3. lanes' \in Seq(Row) /\ Len(lanes') = Len(lanes)
  <2>1. Len(lanes) \in Nat /\ DOMAIN lanes = 1..Len(lanes)
    BY DEF TableOK
  <2>2. lanes' \in [1..Len(lanes) -> Row]
    BY <1>2, <2>1 DEF Tick
  <2>3. QED
    BY <2>1, <2>2
<1>4. \A l \in Lane : laneIndex[l] # 0 => lanes'[laneIndex[l]].lane = l
  BY <1>2 DEF TableOK
<1>5. QED
  BY <1>1, <1>2, <1>3, <1>4 DEF TableOK

\* A sequence of two or more elements is not empty without its head.
LEMMA TailRemains ==
    ASSUME NEW S, NEW q \in Seq(S), q # <<>>, Len(q) # 1
    PROVE  Tail(q) \in Seq(S) /\ Tail(q) # <<>> /\ Len(q) > 1
<1> DEFINE n == Len(q)  m == Len(Tail(q))
<1>1. n \in Nat \ {0} /\ n # 1
  BY EmptySeq
<1>2. Tail(q) \in Seq(S) /\ m = n - 1
  BY HeadTailProperties
<1>3. n > 1 /\ m # 0
  <2> HIDE DEF n, m
  <2> QED
    BY <1>1, <1>2
<1>4. QED
  BY <1>2, <1>3

\* The lane keeps its place when its head is taken and others remain.
LEMMA TakeHeadKeepsTable ==
    ASSUME TableOK, NEW i \in 1..Len(lanes), Len(lanes[i].jobs) # 1, TakeHead(i)
    PROVE  TableOK' /\ Len(lanes') = Len(lanes)
<1>1. lanes[i] \in Row /\ lanes[i].jobs # <<>>
  BY DEF TableOK
<1>2. Tail(lanes[i].jobs) \in Seq(Entry) /\ Tail(lanes[i].jobs) # <<>>
  BY <1>1, TailRemains DEF Row
<1> DEFINE row == [lanes[i] EXCEPT !.jobs = Tail(lanes[i].jobs)]
<1>3. row \in Row /\ row.lane = lanes[i].lane /\ row.jobs # <<>>
  BY <1>1, <1>2 DEF Row
<1>4. lanes' = [lanes EXCEPT ![i] = row] /\ laneIndex' = laneIndex
  BY DEF TakeHead
<1>5. /\ lanes' \in Seq(Row) /\ Len(lanes') = Len(lanes)
      /\ \A k \in 1..Len(lanes) : lanes'[k].lane = lanes[k].lane
      /\ \A k \in 1..Len(lanes) : lanes'[k].jobs # <<>>
  <2> HIDE DEF row
  <2> QED
    BY <1>3, <1>4 DEF TableOK
<1>6. \A l \in Lane : laneIndex[l] # 0 => lanes'[laneIndex[l]].lane = l
  BY <1>5 DEF TableOK
<1>7. QED
  BY <1>4, <1>5, <1>6 DEF TableOK

\* What Submit puts into a channel is an entry, and there is room for it.
LEMMA SubmitType ==
    ASSUME TypeOK, NEW j \in Job, Submit(j)
    PROVE  /\ input' \in Seq(Entry) /\ Len(input') <= Capacity
           /\ backgroundInput' \in Seq(Entry) /\ Len(backgroundInput') <= Capacity
           /\ accepted' \subseteq Job
<1> USE SchedulerAssumption DEF SchedulerAssumption
<1>1. PICK delay \in IF j \in Dated THEN 0..MaxDelay ELSE {0} :
        LET e == [job |-> j, age |-> -delay] IN
         IF ClassOf(j) = "background"
         THEN /\ Len(backgroundInput) < Capacity
              /\ backgroundInput' = Append(backgroundInput, e)
              /\ UNCHANGED input
         ELSE /\ Len(input) < Capacity
              /\ input' = Append(input, e)
              /\ UNCHANGED backgroundInput
  BY DEF Submit
<1> DEFINE e == [job |-> j, age |-> -delay]
<1>2. e \in Entry
  BY <1>1 DEF Entry
<1>3. accepted' = accepted \cup {j}
  BY DEF Submit
<1> HIDE DEF e
<1>4. CASE ClassOf(j) = "background"
  <2>1. /\ Len(backgroundInput) < Capacity
        /\ backgroundInput' = Append(backgroundInput, e)
        /\ UNCHANGED input
    BY <1>1, <1>4 DEF e
  <2>2. QED
    BY <1>2, <1>3, <2>1 DEF TypeOK
<1>5. CASE ClassOf(j) # "background"
  <2>1. /\ Len(input) < Capacity
        /\ input' = Append(input, e)
        /\ UNCHANGED backgroundInput
    BY <1>1, <1>5 DEF e
  <2>2. QED
    BY <1>2, <1>3, <2>1 DEF TypeOK
<1>6. QED
  BY <1>4, <1>5

\* What is taken from a channel is an entry, and leaves the channel shorter.
LEMMA HeadFits ==
    ASSUME NEW q \in Seq(Entry), q # <<>>, NEW c \in Nat, Len(q) <= c
    PROVE  /\ Head(q) \in Entry /\ Tail(q) \in Seq(Entry)
           /\ Len(Tail(q)) <= c
<1> DEFINE n == Len(q)  m == Len(Tail(q))
<1>1. n \in Nat /\ n <= c
  BY EmptySeq
<1>2. Head(q) \in Entry /\ Tail(q) \in Seq(Entry) /\ m = n - 1
  BY HeadTailProperties
<1>3. m <= c
  <2> HIDE DEF n, m
  <2> QED
    BY <1>1, <1>2
<1>4. QED
  BY <1>2, <1>3

\* Initially there are no lanes.
LEMMA InitIndexInv == Init => IndexInv
<1> SUFFICES ASSUME Init PROVE IndexInv
  OBVIOUS
<1>1. Len(<<>>) = 0 /\ <<>> \in Seq(Entry) /\ <<>> \in Seq(Row)
  OBVIOUS
<1>2. TypeOK
  BY <1>1, SchedulerAssumption DEF SchedulerAssumption, Init, TypeOK, Row, Idle
<1>3. TableOK
  BY <1>1 DEF Init, TableOK
<1>4. QED
  BY <1>1, <1>2, <1>3 DEF Init, IndexInv

\* Every step of Run, of a submitter and of a worker keeps the index in step
\* with the lanes, and a lane on offer within them.
LEMMA NextIndexInv == IndexInv /\ [Next]_vars => IndexInv'
<1> SUFFICES ASSUME IndexInv, [Next]_vars PROVE IndexInv'
  OBVIOUS
<1>a. TypeOK /\ TableOK
  BY DEF IndexInv
<1>b. lanes' \in Seq(Row) <=> lanes' \in Seq([lane : Lane, jobs : Seq(Entry)])
  BY DEF Row
<1>1. ASSUME NEW j \in Job, Arrive(j) PROVE IndexInv'
  <2>1. /\ input' \in Seq(Entry) /\ Len(input') <= Capacity
        /\ backgroundInput' \in Seq(Entry) /\ Len(backgroundInput') <= Capacity
        /\ accepted' \subseteq Job
    BY <1>1, <1>a, SubmitType DEF Arrive
  <2>2. QED
    BY <1>1, <2>1 DEF IndexInv, Arrive, TypeOK, TableOK, table
<1>2. CASE Poll
  <2>1. /\ input' \in Seq(Entry) /\ Len(input') <= Capacity
        /\ TableOK' /\ Len(lanes') >= Len(lanes)
    <3>1. CASE input # <<>>
      <4>1. AddJob(Head(input)) /\ input' = Tail(input)
        BY <1>2, <3>1 DEF Poll
      <4>2. /\ Head(input) \in Entry
            /\ input' \in Seq(Entry) /\ Len(input') <= Capacity
        BY <1>a, <3>1, <4>1, HeadFits, SchedulerAssumption
     DEF TypeOK, SchedulerAssumption
      <4>3. QED
        BY <1>a, <4>1, <4>2, AddKeepsTable
    <3>2. CASE input = <<>>
      <4>1. UNCHANGED <<input, lanes, laneIndex>>
        BY <1>2, <3>2 DEF Poll
      <4>2. Len(lanes) \in Nat
        BY <1>a DEF TableOK
      <4>3. QED
        BY <1>a, <4>1, <4>2 DEF TypeOK, TableOK
    <3>3. QED
      BY <3>1, <3>2
  <2>2. selected' \in 0..Len(lanes')
    <3>1. lanes' \in Seq(Row) /\ nextLane \in Nat /\ selected' = Selection(lanes')
      BY <1>2, <1>a, <2>1 DEF Poll, TableOK, TypeOK
    <3>2. QED
      BY <3>1, SelectionInRange
  <2>3. Len(lanes') \in Nat /\ lanes' \in Seq([lane : Lane, jobs : Seq(Entry)])
    BY <2>1, <1>b DEF TableOK
  <2>4. QED
    BY <1>2, <1>a, <2>1, <2>2, <2>3 DEF Poll, IndexInv, TypeOK, TableOK
<1>3. CASE TakeInput
  <2>1. /\ AddJob(Head(input)) /\ input # <<>> /\ input' = Tail(input)
        /\ pc' = "poll" /\ selected' = 0
        /\ UNCHANGED <<backgroundInput, nextLane, worker, accepted>>
    BY <1>3 DEF TakeInput
  <2>2. /\ Head(input) \in Entry
        /\ input' \in Seq(Entry) /\ Len(input') <= Capacity
    BY <1>a, <2>1, HeadFits, SchedulerAssumption
     DEF TypeOK, SchedulerAssumption
  <2>3. TableOK'
    BY <1>a, <2>1, <2>2, AddKeepsTable
  <2>4. QED
    BY <1>a, <1>b, <2>1, <2>2, <2>3 DEF IndexInv, TypeOK, TableOK
<1>4. CASE TakeBackgroundInput
  <2>1. /\ AddJob(Head(backgroundInput)) /\ backgroundInput # <<>>
        /\ backgroundInput' = Tail(backgroundInput)
        /\ pc' = "poll" /\ selected' = 0
        /\ UNCHANGED <<input, nextLane, worker, accepted>>
    BY <1>4 DEF TakeBackgroundInput
  <2>2. /\ Head(backgroundInput) \in Entry
        /\ backgroundInput' \in Seq(Entry) /\ Len(backgroundInput') <= Capacity
    BY <1>a, <2>1, HeadFits, SchedulerAssumption
     DEF TypeOK, SchedulerAssumption
  <2>3. TableOK'
    BY <1>a, <2>1, <2>2, AddKeepsTable
  <2>4. QED
    BY <1>a, <1>b, <2>1, <2>2, <2>3 DEF IndexInv, TypeOK, TableOK
<1>5. CASE TickerFires
  BY <1>5, <1>a DEF TickerFires, IndexInv, TypeOK, TableOK, queues, table
<1>6. CASE Stop
  BY <1>6, <1>a DEF Stop, IndexInv, TypeOK, TableOK, queues, table
<1>7. ASSUME NEW w \in Worker, Dispatch(w) PROVE IndexInv'
  <2>1. /\ selected \in 1..Len(lanes) /\ pc' = "poll" /\ selected' = 0
        /\ UNCHANGED queues
    BY <1>7, <1>a DEF Dispatch, IndexInv, TypeOK, TableOK
  <2> DEFINE jobs == lanes[selected].jobs
  <2>2. Head(jobs) \in Entry
    <3>1. lanes[selected] \in Row /\ jobs # <<>>
      BY <1>a, <2>1 DEF TableOK
    <3>2. jobs \in Seq(Entry)
      BY <3>1 DEF Row
    <3>3. QED
      BY <3>1, <3>2, HeadTailProperties
  <2>3. worker' \in [Worker -> Busy \cup {Idle}] /\ accepted' \subseteq Job
    <3>1. [stage |-> "fetching", job |-> Head(jobs).job] \in Busy
      BY <2>2 DEF Busy, Entry
    <3>2. QED
      BY <1>7, <1>a, <3>1 DEF Dispatch, TypeOK
  <2>4. TableOK' /\ nextLane' \in Nat
    <3>1. CASE Len(jobs) = 1
      BY <1>7, <1>a, <2>1, <3>1, RemoveKeepsTable DEF Dispatch, RemoveEmptyLane
    <3>2. CASE Len(jobs) # 1
      BY <1>7, <1>a, <2>1, <3>2, TakeHeadKeepsTable DEF Dispatch, TakeHead
    <3>3. QED
      BY <3>1, <3>2
  <2>5. Len(lanes') \in Nat
    BY <2>4 DEF TableOK
  <2>6. QED
    BY <1>a, <1>b, <2>1, <2>3, <2>4, <2>5 DEF IndexInv, TypeOK, TableOK, queues
<1>8. ASSUME NEW w \in Worker, Finish(w) PROVE IndexInv'
  BY <1>8, <1>a DEF Finish, IndexInv, TypeOK, TableOK, queues, table
<1>9. ASSUME NEW w \in Worker, WantsRetry(w) PROVE IndexInv'
  <2>1. worker[w] \in Busy
    BY <1>9, <1>a DEF WantsRetry, TypeOK, Idle
  <2>2. \A j \in FollowUps[worker[w].job] : j \in Job
    BY <2>1, SchedulerAssumption DEF SchedulerAssumption, Busy
  <2>3. worker' \in [Worker -> Busy \cup {Idle}]
    BY <1>9, <1>a, <2>2 DEF WantsRetry, TypeOK, Busy
  <2>4. QED
    BY <1>9, <1>a, <2>3 DEF WantsRetry, IndexInv, TypeOK, TableOK, queues, table
<1>10. ASSUME NEW w \in Worker, SubmitsRetry(w) PROVE IndexInv'
  <2>1. worker[w].job \in Job
    BY <1>10, <1>a DEF SubmitsRetry, TypeOK, Busy, Idle
  <2>2. /\ input' \in Seq(Entry) /\ Len(input') <= Capacity
        /\ backgroundInput' \in Seq(Entry) /\ Len(backgroundInput') <= Capacity
        /\ accepted' \subseteq Job
    BY <1>10, <1>a, <2>1, SubmitType DEF SubmitsRetry
  <2>3. worker' \in [Worker -> Busy \cup {Idle}]
    BY <1>10, <1>a DEF SubmitsRetry, TypeOK
  <2>4. QED
    BY <1>10, <2>2, <2>3 DEF SubmitsRetry, IndexInv, TypeOK, TableOK, table
<1>11. ASSUME NEW w \in Worker, RetryRefused(w) PROVE IndexInv'
  BY <1>11, <1>a DEF RetryRefused, IndexInv, TypeOK, TableOK, queues, table
<1>12. CASE Tick
  <2>1. TableOK' /\ Len(lanes') = Len(lanes)
    BY <1>12, <1>a, TickKeepsTable
  <2>2. /\ input' \in Seq(Entry) /\ Len(input') <= Capacity
        /\ backgroundInput' \in Seq(Entry) /\ Len(backgroundInput') <= Capacity
    BY <1>12, <1>a, AgedType DEF Tick, TypeOK
  <2>3. QED
    BY <1>12, <1>b, <2>1, <2>2 DEF Tick, IndexInv, TypeOK, TableOK
<1>13. CASE UNCHANGED vars
  BY <1>13, <1>a DEF IndexInv, TypeOK, TableOK, vars, queues, table
<1>14. QED
  BY <1>1, <1>2, <1>3, <1>4, <1>5, <1>6, <1>7, <1>8, <1>9, <1>10, <1>11, <1>12,
     <1>13 DEF Next

\* Every variable keeps to its domain, whatever the lanes, the jobs and the
\* workers: Run never reads a lane, or a head, that does not exist.
THEOREM TypesKept == Spec => []TypeOK
<1>1. IndexInv => TypeOK
  BY DEF IndexInv
<1>2. QED
  BY <1>1, InitIndexInv, NextIndexInv, PTL DEF Spec

\* laneIndex and lanes agree after every add and removeEmptyLane, for any
\* number of lanes: the case a test with a few lanes does not reach is the
\* removal of one lane in front of others that are kept.
THEOREM LanesStayIndexed == Spec => []LanesIndexed
<1>1. IndexInv => LanesIndexed
  BY DEF IndexInv, TableOK, LanesIndexed
<1>2. QED
  BY <1>1, InitIndexInv, NextIndexInv, PTL DEF Spec

-----------------------------------------------------------------------------
\* What add relies on to find the place of a job: a lane has its jobs
\* without a time first, then its retries in the order of their times.
Sorted(jobs) ==
    \A i, k \in 1..Len(jobs) : i < k /\ jobs[i].job \in Dated =>
        /\ jobs[k].job \in Dated
        /\ jobs[k].age <= jobs[i].age

SortedInv == \A i \in 1..Len(lanes) : Sorted(lanes[i].jobs)

\* add inserts a job at its place.
LEMMA InsertedSorted ==
    ASSUME NEW jobs \in Seq(Entry), Sorted(jobs), NEW e \in Entry,
           NEW p \in Places(jobs, e)
    PROVE  Sorted(Inserted(jobs, p, e))
<1> DEFINE new == Inserted(jobs, p, e)  n == Len(jobs)
<1>1. n \in Nat /\ p \in 1..n + 1
  BY DEF Places
<1>2. \A x \in Entry : x.age \in Int
  BY DEF Entry
<1>3. e.age \in Int /\ \A i \in 1..n : jobs[i] \in Entry /\ jobs[i].age \in Int
  BY <1>2
<1>4. \A i \in 1..p - 1 : \/ jobs[i].job \notin Dated
                          \/ e.job \in Dated /\ jobs[i].age >= e.age
  BY DEF Places
<1>5. p <= n => /\ jobs[p].job \in Dated
                /\ e.job \in Dated => jobs[p].age <= e.age
  BY <1>1, <1>3 DEF Places
<1>6. \A i \in 1..n + 1 :
         new[i] = IF i < p THEN jobs[i] ELSE IF i = p THEN e ELSE jobs[i - 1]
  BY DEF Inserted
<1>7. Len(new) = n + 1
  BY <1>1, InsertedType
<1>8. \A i, k \in 1..n : i < k /\ jobs[i].job \in Dated =>
        jobs[k].job \in Dated /\ jobs[k].age <= jobs[i].age
  BY DEF Sorted
<1>9. ASSUME NEW i \in 1..n + 1, NEW k \in 1..n + 1, i < k, new[i].job \in Dated
      PROVE  new[k].job \in Dated /\ new[k].age <= new[i].age
  <2> HIDE DEF new, n
  <2>1. CASE k < p
    BY <1>1, <1>6, <1>8, <1>9, <2>1
  <2>2. CASE k = p
    BY <1>1, <1>4, <1>6, <1>9, <2>2
  <2>3. CASE p < k
    <3>1. k - 1 \in 1..n /\ p <= k - 1 /\ p \in 1..n /\ new[k] = jobs[k - 1]
      BY <1>1, <1>6, <2>3
    <3>2. CASE i > p
      <4>1. i - 1 \in 1..n /\ i - 1 < k - 1 /\ new[i] = jobs[i - 1]
        BY <1>1, <1>6, <1>9, <3>2
      <4>2. QED
        BY <1>8, <1>9, <3>1, <4>1
    <3>3. CASE i = p
      <4>1. new[i] = e /\ e.job \in Dated /\ jobs[p].job \in Dated
            /\ jobs[p].age <= e.age
        BY <1>1, <1>5, <1>6, <1>9, <3>1, <3>3
      <4>2. jobs[k - 1].job \in Dated /\ jobs[k - 1].age <= jobs[p].age
        BY <1>3, <1>8, <3>1, <4>1
      <4>3. jobs[k - 1].age <= e.age
        BY <1>3, <3>1, <4>1, <4>2
      <4>4. QED
        BY <3>1, <4>1, <4>2, <4>3
    <3>4. CASE i < p
      <4>1. i \in 1..n /\ i < k - 1 /\ new[i] = jobs[i]
        BY <1>1, <1>6, <1>9, <3>1, <3>4
      <4>2. QED
        BY <1>8, <1>9, <3>1, <4>1
    <3>5. QED
      BY <1>1, <3>2, <3>3, <3>4
  <2>4. QED
    BY <1>1, <2>1, <2>2, <2>3
<1>10. QED
  <2> HIDE DEF new, n
  <2>1. Sorted(new)
    BY <1>7, <1>9 DEF Sorted
  <2>2. QED
    BY <2>1 DEF new

\* Time keeps the order: the ages rise together, up to the one that promotes.
LEMMA AgedSorted ==
    ASSUME NEW jobs \in Seq(Entry), Sorted(jobs)
    PROVE  Sorted(Aged(jobs))
<1> DEFINE new == Aged(jobs)  n == Len(jobs)
<1>1. Len(new) = n /\ n \in Nat
  BY AgedType
<1>2. \A i \in 1..n : new[i] = Older(jobs[i])
  BY DEF Aged
<1>3. \A x \in Entry : x.age \in Int /\ x.age <= StarvationAge
  BY SchedulerAssumption DEF Entry, SchedulerAssumption
<1>4. \A x \in Entry :
        /\ Older(x).job = x.job
        /\ Older(x).age = IF x.job \in Dated /\ x.age < StarvationAge
                          THEN x.age + 1 ELSE x.age
  BY DEF Older, Entry
<1>5. ASSUME NEW i \in 1..n, NEW k \in 1..n, i < k, new[i].job \in Dated
      PROVE  new[k].job \in Dated /\ new[k].age <= new[i].age
  <2> HIDE DEF new, n
  <2>1. jobs[i] \in Entry /\ jobs[k] \in Entry
    BY DEF n
  <2>2. jobs[i].job \in Dated
    BY <1>2, <1>4, <1>5, <2>1
  <2>3. jobs[k].job \in Dated /\ jobs[k].age <= jobs[i].age
    BY <1>5, <2>2 DEF Sorted, n
  <2>4. StarvationAge \in Int
    BY SchedulerAssumption DEF SchedulerAssumption
  <2> DEFINE x == jobs[i].age  y == jobs[k].age
  <2>5. /\ x \in Int /\ y \in Int /\ y <= x /\ x <= StarvationAge
        /\ new[i].age = IF x < StarvationAge THEN x + 1 ELSE x
        /\ new[k].age = IF y < StarvationAge THEN y + 1 ELSE y
    BY <1>2, <1>3, <1>4, <2>1, <2>2, <2>3
  <2>6. new[k].age <= new[i].age
    <3> HIDE DEF x, y
    <3> QED
      BY <2>4, <2>5
  <2>7. new[k].job \in Dated
    BY <1>2, <1>4, <2>1, <2>3
  <2>8. QED
    BY <2>6, <2>7
<1>6. QED
  <2> HIDE DEF new, n
  <2>1. Sorted(new)
    BY <1>1, <1>5 DEF Sorted
  <2>2. QED
    BY <2>1 DEF new

\* Taking the head keeps the order of the others.
LEMMA TailSorted ==
    ASSUME NEW jobs \in Seq(Entry), jobs # <<>>, Sorted(jobs)
    PROVE  Sorted(Tail(jobs))
<1> DEFINE n == Len(jobs)
<1>1. n \in Nat \ {0}
  BY EmptySeq
<1>2. /\ Len(Tail(jobs)) = n - 1
      /\ \A i \in 1..n - 1 : Tail(jobs)[i] = jobs[i + 1]
  BY HeadTailProperties
<1>3. ASSUME NEW i \in 1..n - 1, NEW k \in 1..n - 1, i < k,
             Tail(jobs)[i].job \in Dated
      PROVE  Tail(jobs)[k].job \in Dated /\ Tail(jobs)[k].age <= Tail(jobs)[i].age
  <2>1. i + 1 \in 1..n /\ k + 1 \in 1..n /\ i + 1 < k + 1
    <3> HIDE DEF n
    <3> QED
      BY <1>1, <1>3
  <2>2. QED
    BY <1>2, <1>3, <2>1 DEF Sorted
<1>4. QED
  BY <1>2, <1>3 DEF Sorted

\* A lane of one job is in order, and add keeps the order of every lane.
LEMMA AddKeepsSorted ==
    ASSUME TableOK, SortedInv, NEW e \in Entry, AddJob(e)
    PROVE  SortedInv'
<1> DEFINE l == LaneOf[e.job]
           i == laneIndex[l]
<1>1. i \in 0..Len(lanes) /\ Len(lanes) \in Nat
  BY SchedulerAssumption DEF SchedulerAssumption, Entry, TableOK
<1>2. CASE i # 0
  <2>1. PICK p \in Places(lanes[i].jobs, e) :
             lanes' = [lanes EXCEPT ![i].jobs = Inserted(@, p, e)]
    BY <1>2 DEF AddJob
  <2>2. i \in 1..Len(lanes) /\ lanes[i] \in Row /\ Sorted(lanes[i].jobs)
    BY <1>1, <1>2 DEF TableOK, SortedInv
  <2>3. lanes[i].jobs \in Seq(Entry)
    BY <2>2 DEF Row
  <2>4. Sorted(Inserted(lanes[i].jobs, p, e))
    BY <2>2, <2>3, InsertedSorted
  <2>5. Len(lanes') = Len(lanes)
    BY <2>1 DEF TableOK
  <2>6. /\ lanes'[i].jobs = Inserted(lanes[i].jobs, p, e)
        /\ \A k \in 1..Len(lanes) : k # i => lanes'[k] = lanes[k]
    BY <2>1, <2>2 DEF TableOK, Row
  <2>7. \A k \in 1..Len(lanes) : Sorted(lanes'[k].jobs)
    <3> SUFFICES ASSUME NEW k \in 1..Len(lanes) PROVE Sorted(lanes'[k].jobs)
      OBVIOUS
    <3> HIDE DEF i
    <3>1. CASE k = i
      BY <2>4, <2>6, <3>1
    <3>2. CASE k # i
      BY <2>6, <3>2 DEF SortedInv
    <3>3. QED
      BY <3>1, <3>2
  <2>8. QED
    BY <2>5, <2>7 DEF SortedInv
<1>3. CASE i = 0
  <2>1. lanes' = Append(lanes, [lane |-> l, jobs |-> <<e>>])
    BY <1>3 DEF AddJob
  <2>2. /\ Len(lanes') = Len(lanes) + 1
        /\ \A k \in 1..Len(lanes) : lanes'[k] = lanes[k]
        /\ lanes'[Len(lanes) + 1].jobs = <<e>>
    BY <2>1 DEF TableOK
  <2>3. Sorted(<<e>>)
    BY DEF Sorted
  <2>4. \A k \in 1..Len(lanes) + 1 : Sorted(lanes'[k].jobs)
    BY <1>1, <2>2, <2>3 DEF SortedInv
  <2>5. QED
    BY <2>2, <2>4 DEF SortedInv
<1>4. QED
  BY <1>2, <1>3

\* Only add and the dispatch of a head change the order of a lane, and time
\* moves all its jobs together.
LEMMA NextSortedInv == IndexInv /\ SortedInv /\ [Next]_vars => SortedInv'
<1> SUFFICES ASSUME IndexInv, SortedInv, [Next]_vars PROVE SortedInv'
  OBVIOUS
<1>a. TypeOK /\ TableOK /\ Len(lanes) \in Nat
  BY DEF IndexInv, TableOK
<1>b. lanes' = lanes => SortedInv'
  BY DEF SortedInv
<1>1. CASE Poll
  <2>1. CASE input # <<>>
    <3>1. Head(input) \in Entry
      BY <1>a, <2>1, HeadTailProperties DEF TypeOK
    <3>2. QED
      BY <1>1, <1>a, <2>1, <3>1, AddKeepsSorted DEF Poll
  <2>2. CASE input = <<>>
    BY <1>1, <1>b, <2>2 DEF Poll
  <2>3. QED
    BY <2>1, <2>2
<1>2. CASE TakeInput
  <2>1. Head(input) \in Entry
    BY <1>2, <1>a, HeadTailProperties DEF TypeOK, TakeInput
  <2>2. QED
    BY <1>2, <1>a, <2>1, AddKeepsSorted DEF TakeInput
<1>3. CASE TakeBackgroundInput
  <2>1. Head(backgroundInput) \in Entry
    BY <1>3, <1>a, HeadTailProperties DEF TypeOK, TakeBackgroundInput
  <2>2. QED
    BY <1>3, <1>a, <2>1, AddKeepsSorted DEF TakeBackgroundInput
<1>4. ASSUME NEW w \in Worker, Dispatch(w) PROVE SortedInv'
  <2> DEFINE i == selected  jobs == lanes[i].jobs  n == Len(lanes)
  <2>1. i \in 1..n
    BY <1>4, <1>a DEF Dispatch, IndexInv, TypeOK
  <2>2. CASE Len(jobs) = 1
    <3>1. lanes' = [k \in 1..n - 1 |-> IF k < i THEN lanes[k] ELSE lanes[k + 1]]
      BY <1>4, <2>2 DEF Dispatch, RemoveEmptyLane
    <3>2. \A k \in 1..n - 1 : k \in 1..n /\ k + 1 \in 1..n
      BY <1>a
    <3>3. \A k \in 1..n - 1 : lanes'[k] \in Row /\ Sorted(lanes'[k].jobs)
      BY <1>a, <3>1, <3>2 DEF SortedInv, TableOK
    <3>4. n - 1 \in Nat /\ lanes' \in [1..n - 1 -> Row]
      BY <1>a, <2>1, <3>1, <3>3
    <3>5. Len(lanes') = n - 1
      BY <3>4
    <3>6. QED
      BY <3>3, <3>5 DEF SortedInv
  <2>3. CASE Len(jobs) # 1
    <3>1. lanes' = [lanes EXCEPT ![i].jobs = Tail(lanes[i].jobs)]
      BY <1>4, <2>3 DEF Dispatch, TakeHead
    <3>2. lanes[i] \in Row /\ jobs # <<>> /\ Sorted(jobs)
      BY <1>a, <2>1 DEF TableOK, SortedInv
    <3>3. Sorted(Tail(jobs))
      BY <3>2, TailSorted DEF Row
    <3> DEFINE row == [lanes[i] EXCEPT !.jobs = Tail(jobs)]
    <3>4. /\ Len(lanes') = n
          /\ lanes'[i].jobs = Tail(jobs)
          /\ \A k \in 1..n : k # i => lanes'[k] = lanes[k]
      <4>1. row.jobs = Tail(jobs)
        BY <3>2 DEF Row
      <4>2. lanes' = [lanes EXCEPT ![i] = row] /\ lanes \in Seq(Row)
        BY <1>a, <3>1 DEF TableOK
      <4> HIDE DEF row, jobs, i
      <4>3. QED
        BY <2>1, <4>1, <4>2
    <3>5. \A k \in 1..n : Sorted(lanes[k].jobs)
      BY DEF SortedInv
    <3>6. \A k \in 1..n : Sorted(lanes'[k].jobs)
      <4> HIDE DEF row, jobs, i, n
      <4>1. QED
        BY <3>3, <3>4, <3>5
    <3>7. QED
      BY <3>4, <3>6 DEF SortedInv
  <2>4. QED
    BY <2>2, <2>3
<1>5. CASE Tick
  <2>1. \A i \in 1..Len(lanes) : lanes'[i].jobs = Aged(lanes[i].jobs)
    BY <1>5, <1>a, TickKeepsTable
  <2>2. Len(lanes') = Len(lanes)
    BY <1>5, <1>a, TickKeepsTable
  <2>3. \A i \in 1..Len(lanes) : Sorted(Aged(lanes[i].jobs))
    <3> SUFFICES ASSUME NEW i \in 1..Len(lanes)
                 PROVE  Sorted(Aged(lanes[i].jobs))
      OBVIOUS
    <3>1. lanes[i] \in Row /\ Sorted(lanes[i].jobs)
      BY <1>a DEF TableOK, SortedInv
    <3>2. QED
      BY <3>1, AgedSorted DEF Row
  <2>4. QED
    BY <2>1, <2>2, <2>3 DEF SortedInv
<1>6. ASSUME NEW j \in Job, Arrive(j) PROVE SortedInv'
  BY <1>6, <1>b DEF Arrive, table
<1>7. CASE TickerFires \/ Stop
  BY <1>7, <1>b DEF TickerFires, Stop, table
<1>8. ASSUME NEW w \in Worker,
             Finish(w) \/ WantsRetry(w) \/ SubmitsRetry(w) \/ RetryRefused(w)
      PROVE  SortedInv'
  BY <1>8, <1>b DEF Finish, WantsRetry, SubmitsRetry, RetryRefused, table
<1>9. CASE UNCHANGED vars
  BY <1>9, <1>b DEF vars, table
<1>10. QED
  BY <1>1, <1>2, <1>3, <1>4, <1>5, <1>6, <1>7, <1>8, <1>9 DEF Next

\* A scheduled retry never blocks a ready job of its lane, however many of
\* them add has placed and however far the clock has gone meanwhile.
THEOREM ReadyStaysInFront == Spec => []ReadyInFront
<1>1. Init => IndexInv /\ SortedInv
  <2>1. Init => SortedInv
    BY DEF Init, SortedInv
  <2>2. QED
    BY <2>1, InitIndexInv
<1>2. IndexInv /\ SortedInv /\ [Next]_vars => IndexInv' /\ SortedInv'
  BY NextIndexInv, NextSortedInv
<1>3. IndexInv /\ SortedInv => ReadyInFront
  <2> SUFFICES ASSUME IndexInv, SortedInv, NEW i \in 1..Len(lanes),
                      NEW k \in 1..Len(lanes[i].jobs), Ready(lanes[i].jobs[k])
               PROVE  Ready(lanes[i].jobs[1])
    BY DEF ReadyInFront
  <2> DEFINE jobs == lanes[i].jobs
  <2>1. lanes[i] \in Row /\ Sorted(jobs)
    BY DEF IndexInv, TableOK, SortedInv
  <2>2. jobs \in Seq(Entry) /\ Len(jobs) \in Nat
    BY <2>1 DEF Row
  <2> HIDE DEF jobs
  <2>3. 1 \in 1..Len(jobs) /\ k \in 1..Len(jobs)
    BY <2>2 DEF jobs
  <2>4. jobs[1].age \in Int /\ jobs[k].age \in Int
    <3>1. \A x \in Entry : x.age \in Int
      BY DEF Entry
    <3>2. jobs[1] \in Entry /\ jobs[k] \in Entry
      BY <2>2, <2>3
    <3>3. QED
      BY <3>1, <3>2
  <2>5. Ready(jobs[k])
    BY DEF jobs
  <2>6. CASE k = 1
    BY <2>5, <2>6 DEF jobs
  <2>7. CASE k # 1
    <3>1. jobs[1].job \in Dated => jobs[k].job \in Dated /\ jobs[k].age <= jobs[1].age
      BY <2>1, <2>3, <2>7 DEF Sorted
    <3>2. Ready(jobs[1])
      BY <2>4, <2>5, <3>1 DEF Ready
    <3>3. QED
      BY <3>2 DEF jobs
  <2>8. QED
    BY <2>6, <2>7
<1>4. QED
  BY <1>1, <1>2, <1>3, PTL DEF Spec

-----------------------------------------------------------------------------
\* The jobs of a channel or a lane, and that none stands in it twice.
Jobs(q) == {q[i].job : i \in 1..Len(q)}

Distinct(q) == \A i, k \in 1..Len(q) : q[i].job = q[k].job => i = k

LaneJobs == UNION {Jobs(lanes[i].jobs) : i \in 1..Len(lanes)}

\* Lanes share no job because each job has one lane.
LanesApart ==
    \A i \in 1..Len(lanes) :
        /\ Distinct(lanes[i].jobs)
        /\ \A j \in Jobs(lanes[i].jobs) : LaneOf[j] = lanes[i].lane

\* A worker that waits to submit a retry is the only one to hold it.
SubmitsOwn ==
    \A w \in Worker : worker[w].stage = "submitting" =>
        /\ worker[w].job \notin accepted
        /\ \A v \in Worker \ {w} : ~HeldBy(v, worker[w].job)

\* The channels and the lanes have the accepted jobs between them.
PlacesInv ==
    /\ Distinct(input) /\ Distinct(backgroundInput) /\ LanesApart
    /\ Jobs(input) \cap Jobs(backgroundInput) = {}
    /\ (Jobs(input) \cup Jobs(backgroundInput)) \cap LaneJobs = {}
    /\ accepted = Jobs(input) \cup Jobs(backgroundInput) \cup LaneJobs

\* A channel takes a job that is not in it.
LEMMA AppendedJobs ==
    ASSUME NEW q \in Seq(Entry), NEW e \in Entry, e.job \notin Jobs(q), Distinct(q)
    PROVE  Jobs(Append(q, e)) = Jobs(q) \cup {e.job} /\ Distinct(Append(q, e))
<1> DEFINE new == Append(q, e)  n == Len(q)
<1>1. n \in Nat /\ Len(new) = n + 1 /\ new[n + 1] = e
      /\ \A i \in 1..n : new[i] = q[i]
  OBVIOUS
<1> HIDE DEF new
<1>2. \A i \in 1..n + 1 : i \in 1..n \/ i = n + 1
  BY <1>1
<1>3. Jobs(new) = Jobs(q) \cup {e.job}
  <2>1. Jobs(new) \subseteq Jobs(q) \cup {e.job}
    BY <1>1, <1>2 DEF Jobs
  <2>2. Jobs(q) \subseteq Jobs(new) /\ e.job \in Jobs(new)
    <3>1. n + 1 \in 1..Len(new) /\ \A i \in 1..n : i \in 1..Len(new)
      BY <1>1
    <3>2. QED
      BY <1>1, <3>1 DEF Jobs
  <2>3. QED
    BY <2>1, <2>2
<1>4. Distinct(new)
  <2>1. \A i \in 1..n : q[i].job # e.job
    BY DEF Jobs
  <2>2. QED
    BY <1>1, <1>2, <2>1 DEF Distinct
<1>5. QED
  BY <1>3, <1>4 DEF new

\* The head leaves, and is nowhere in what remains.
LEMMA TailJobs ==
    ASSUME NEW q \in Seq(Entry), q # <<>>, Distinct(q)
    PROVE  /\ Head(q).job \in Jobs(q)
           /\ Jobs(Tail(q)) = Jobs(q) \ {Head(q).job}
           /\ Distinct(Tail(q))
<1> DEFINE new == Tail(q)  n == Len(q)
<1>1. n \in Nat \ {0}
  BY EmptySeq
<1>2. /\ Len(new) = n - 1 /\ Head(q) = q[1]
      /\ \A i \in 1..n - 1 : new[i] = q[i + 1]
  BY HeadTailProperties
<1> HIDE DEF new
<1>3. \A i \in 1..n - 1 : i + 1 \in 1..n /\ i + 1 # 1
  BY <1>1
<1>4. \A i \in 1..n : i # 1 => i - 1 \in 1..n - 1 /\ (i - 1) + 1 = i
  BY <1>1
<1>5. 1 \in 1..n
  BY <1>1
<1>6. Distinct(new)
  <2> SUFFICES ASSUME NEW i \in 1..n - 1, NEW k \in 1..n - 1,
                      new[i].job = new[k].job
               PROVE  i = k
    BY <1>2 DEF Distinct
  <2>1. i + 1 = k + 1
    BY <1>2, <1>3 DEF Distinct
  <2>2. QED
    BY <2>1
<1>7. Jobs(new) \subseteq Jobs(q) \ {q[1].job}
  <2> SUFFICES ASSUME NEW i \in 1..n - 1
               PROVE  new[i].job \in Jobs(q) /\ new[i].job # q[1].job
    BY <1>2 DEF Jobs
  <2>1. new[i] = q[i + 1] /\ i + 1 \in 1..n /\ i + 1 # 1
    BY <1>2, <1>3
  <2>2. QED
    BY <1>5, <2>1 DEF Jobs, Distinct
<1>8. Jobs(q) \ {q[1].job} \subseteq Jobs(new)
  <2> SUFFICES ASSUME NEW i \in 1..n, q[i].job # q[1].job
               PROVE  q[i].job \in Jobs(new)
    BY DEF Jobs
  <2>1. i - 1 \in 1..n - 1 /\ new[i - 1] = q[i]
    BY <1>2, <1>4
  <2>2. QED
    BY <1>2, <2>1 DEF Jobs
<1>9. q[1].job \in Jobs(q)
  BY <1>5 DEF Jobs
<1>10. QED
  BY <1>2, <1>6, <1>7, <1>8, <1>9 DEF new

\* add puts a job between others without losing one.
LEMMA InsertedJobs ==
    ASSUME NEW q \in Seq(Entry), NEW e \in Entry, NEW p \in 1..Len(q) + 1,
           e.job \notin Jobs(q), Distinct(q)
    PROVE  /\ Jobs(Inserted(q, p, e)) = Jobs(q) \cup {e.job}
           /\ Distinct(Inserted(q, p, e))
<1> DEFINE new == Inserted(q, p, e)  n == Len(q)
           Old(i) == IF i < p THEN i ELSE i - 1
<1>1. n \in Nat /\ p \in 1..n + 1 /\ Len(new) = n + 1
  BY InsertedType
<1>2. new[p] = e /\ \A i \in 1..n + 1 : i # p => new[i] = q[Old(i)] /\ Old(i) \in 1..n
  <2>1. \A i \in 1..n + 1 :
          new[i] = IF i < p THEN q[i] ELSE IF i = p THEN e ELSE q[i - 1]
    BY DEF Inserted
  <2> HIDE DEF new
  <2>2. QED
    BY <1>1, <2>1
<1> HIDE DEF new
<1>3. \A i, k \in 1..n + 1 : i # p /\ k # p /\ Old(i) = Old(k) => i = k
  BY <1>1
<1>4. \A i \in 1..n : \E k \in 1..n + 1 : k # p /\ Old(k) = i
  <2> SUFFICES ASSUME NEW i \in 1..n PROVE \E k \in 1..n + 1 : k # p /\ Old(k) = i
    OBVIOUS
  <2>1. CASE i < p
    BY <1>1, <2>1
  <2>2. CASE ~(i < p)
    <3>1. i + 1 \in 1..n + 1 /\ i + 1 # p /\ Old(i + 1) = i
      BY <1>1, <2>2
    <3>2. QED
      BY <3>1
  <2>3. QED
    BY <2>1, <2>2
<1> HIDE DEF Old
<1>5. Jobs(new) \subseteq Jobs(q) \cup {e.job}
  BY <1>1, <1>2 DEF Jobs
<1>6. Jobs(q) \cup {e.job} \subseteq Jobs(new)
  <2>1. \A i \in 1..n : q[i].job \in Jobs(new)
    BY <1>1, <1>2, <1>4 DEF Jobs
  <2>2. e.job \in Jobs(new)
    BY <1>1, <1>2 DEF Jobs
  <2>3. QED
    BY <2>1, <2>2 DEF Jobs
<1>7. Distinct(new)
  <2> SUFFICES ASSUME NEW i \in 1..n + 1, NEW k \in 1..n + 1,
                      new[i].job = new[k].job
               PROVE  i = k
    BY <1>1 DEF Distinct
  <2>1. \A m \in 1..n : q[m].job # e.job
    BY DEF Jobs
  <2>2. CASE i # p /\ k # p
    BY <1>2, <1>3, <2>2 DEF Distinct
  <2>3. CASE i = p \/ k = p
    BY <1>2, <2>1, <2>3
  <2>4. QED
    BY <2>2, <2>3
<1>8. QED
  BY <1>5, <1>6, <1>7 DEF new

\* Time moves no job.
LEMMA AgedJobs ==
    ASSUME NEW q \in Seq(Entry)
    PROVE  /\ Jobs(Aged(q)) = Jobs(q)
           /\ Distinct(q) => Distinct(Aged(q))
<1>1. Len(Aged(q)) = Len(q) /\ \A i \in 1..Len(q) : Aged(q)[i] = Older(q[i])
  BY AgedType DEF Aged
<1>2. \A x \in Entry : Older(x).job = x.job
  BY DEF Older, Entry
<1>3. \A i \in 1..Len(q) : Aged(q)[i].job = q[i].job
  BY <1>1, <1>2
<1>4. QED
  BY <1>1, <1>3 DEF Jobs, Distinct

\* add puts a job that no lane has into its own lane.
LEMMA AddKeepsApart ==
    ASSUME TableOK, LanesApart, NEW e \in Entry, e.job \notin LaneJobs, AddJob(e)
    PROVE  LanesApart' /\ LaneJobs' = LaneJobs \cup {e.job}
<1> DEFINE l == LaneOf[e.job]
           i == laneIndex[l]
<1>1. l \in Lane /\ e.job \in Job
  BY SchedulerAssumption DEF Entry, SchedulerAssumption
<1>2. i \in 0..Len(lanes) /\ Len(lanes) \in Nat
  BY <1>1 DEF TableOK
<1>3. CASE i # 0
  <2>1. PICK p \in Places(lanes[i].jobs, e) :
             lanes' = [lanes EXCEPT ![i].jobs = Inserted(@, p, e)]
    BY <1>3 DEF AddJob
  <2>2. i \in 1..Len(lanes) /\ lanes[i] \in Row /\ lanes[i].lane = l
    BY <1>1, <1>2, <1>3 DEF TableOK
  <2> DEFINE jobs == lanes[i].jobs
             new  == Inserted(jobs, p, e)
  <2>3. p \in 1..Len(jobs) + 1 /\ jobs \in Seq(Entry)
    BY <2>2 DEF Places, Row
  <2>4. e.job \notin Jobs(jobs) /\ Distinct(jobs)
    BY <2>2 DEF LaneJobs, LanesApart
  <2>5. Jobs(new) = Jobs(jobs) \cup {e.job} /\ Distinct(new)
    <3> HIDE DEF jobs
    <3> QED
      BY <2>3, <2>4, InsertedJobs
  <2>6. /\ Len(lanes') = Len(lanes)
        /\ lanes'[i].jobs = new /\ lanes'[i].lane = l
        /\ \A k \in 1..Len(lanes) : k # i => lanes'[k] = lanes[k]
    <3> DEFINE row == [lanes[i] EXCEPT !.jobs = new]
    <3>1. lanes' = [lanes EXCEPT ![i] = row]
      BY <2>1
    <3>2. row.jobs = new /\ row.lane = l
      BY <2>2 DEF Row
    <3> HIDE DEF row, i, new, l
    <3>3. QED
      BY <2>2, <3>1, <3>2 DEF TableOK
  <2> HIDE DEF i, jobs, new
  <2>7. LanesApart'
    <3> SUFFICES ASSUME NEW k \in 1..Len(lanes)
                 PROVE  /\ Distinct(lanes'[k].jobs)
                        /\ \A j \in Jobs(lanes'[k].jobs) : LaneOf[j] = lanes'[k].lane
      BY <2>6 DEF LanesApart, Jobs
    <3>1. CASE k = i
      <4>1. \A j \in Jobs(jobs) : LaneOf[j] = l
        BY <2>2 DEF LanesApart, jobs
      <4>2. QED
        BY <2>5, <2>6, <3>1, <4>1
    <3>2. CASE k # i
      BY <2>6, <3>2 DEF LanesApart
    <3>3. QED
      BY <3>1, <3>2
  <2>8. LaneJobs' = LaneJobs \cup {e.job}
    <3>1. LaneJobs' = UNION {Jobs(lanes'[k].jobs) : k \in 1..Len(lanes)}
      BY <2>6 DEF LaneJobs, Jobs
    <3>2. \A k \in 1..Len(lanes) :
            Jobs(lanes'[k].jobs) = IF k = i THEN Jobs(jobs) \cup {e.job}
                                   ELSE Jobs(lanes[k].jobs)
      BY <2>5, <2>6
    <3>3. Jobs(lanes[i].jobs) = Jobs(jobs)
      BY DEF jobs
    <3>4. ASSUME NEW h \in LaneJobs' PROVE h \in LaneJobs \cup {e.job}
      <4>1. PICK k \in 1..Len(lanes) : h \in Jobs(lanes'[k].jobs)
        BY <3>1, <3>4
      <4>2. h \in Jobs(lanes[k].jobs) \/ h = e.job
        BY <3>2, <3>3, <4>1
      <4>3. QED
        BY <4>1, <4>2 DEF LaneJobs
    <3>5. ASSUME NEW h \in LaneJobs PROVE h \in LaneJobs'
      <4>1. PICK k \in 1..Len(lanes) : h \in Jobs(lanes[k].jobs)
        BY <3>5 DEF LaneJobs
      <4>2. h \in Jobs(lanes'[k].jobs)
        BY <3>2, <3>3, <4>1
      <4>3. QED
        BY <3>1, <4>1, <4>2
    <3>6. e.job \in LaneJobs'
      BY <2>2, <3>1, <3>2
    <3>7. QED
      BY <3>4, <3>5, <3>6
  <2>9. QED
    BY <2>7, <2>8
<1>4. CASE i = 0
  <2>1. lanes' = Append(lanes, [lane |-> l, jobs |-> <<e>>])
    BY <1>4 DEF AddJob
  <2>2. /\ Len(lanes') = Len(lanes) + 1
        /\ \A k \in 1..Len(lanes) : lanes'[k] = lanes[k]
        /\ lanes'[Len(lanes) + 1].jobs = <<e>>
        /\ lanes'[Len(lanes) + 1].lane = l
    BY <2>1 DEF TableOK
  <2>3. Jobs(<<e>>) = {e.job} /\ Distinct(<<e>>)
    BY DEF Jobs, Distinct
  <2>4. \A k \in 1..Len(lanes) + 1 : k \in 1..Len(lanes) \/ k = Len(lanes) + 1
    BY <1>2
  <2>5. LanesApart'
    <3> SUFFICES ASSUME NEW k \in 1..Len(lanes) + 1
                 PROVE  /\ Distinct(lanes'[k].jobs)
                        /\ \A j \in Jobs(lanes'[k].jobs) : LaneOf[j] = lanes'[k].lane
      BY <2>2 DEF LanesApart, Jobs
    <3>1. CASE k = Len(lanes) + 1
      BY <2>2, <2>3, <3>1
    <3>2. CASE k # Len(lanes) + 1
      BY <2>2, <2>4, <3>2 DEF LanesApart
    <3>3. QED
      BY <3>1, <3>2
  <2>6. LaneJobs' = LaneJobs \cup {e.job}
    <3>1. LaneJobs' = UNION {Jobs(lanes'[k].jobs) : k \in 1..Len(lanes) + 1}
      BY <2>2 DEF LaneJobs, Jobs
    <3>2. \A k \in 1..Len(lanes) : /\ Jobs(lanes'[k].jobs) = Jobs(lanes[k].jobs)
                                   /\ k \in 1..Len(lanes) + 1
      BY <1>2, <2>2
    <3>3. /\ Jobs(lanes'[Len(lanes) + 1].jobs) = {e.job}
          /\ Len(lanes) + 1 \in 1..Len(lanes) + 1
      BY <1>2, <2>2, <2>3
    <3>4. ASSUME NEW h \in LaneJobs' PROVE h \in LaneJobs \cup {e.job}
      <4>1. PICK k \in 1..Len(lanes) + 1 : h \in Jobs(lanes'[k].jobs)
        BY <3>1, <3>4
      <4>2. CASE k \in 1..Len(lanes)
        BY <3>2, <4>1, <4>2 DEF LaneJobs
      <4>3. CASE k = Len(lanes) + 1
        BY <3>3, <4>1, <4>3
      <4>4. QED
        BY <2>4, <4>2, <4>3
    <3>5. ASSUME NEW h \in LaneJobs PROVE h \in LaneJobs'
      <4>1. PICK k \in 1..Len(lanes) : h \in Jobs(lanes[k].jobs)
        BY <3>5 DEF LaneJobs
      <4>2. QED
        BY <3>1, <3>2, <4>1
    <3>6. e.job \in LaneJobs'
      BY <3>1, <3>3
    <3>7. QED
      BY <3>4, <3>5, <3>6
  <2>7. QED
    BY <2>5, <2>6
<1>5. QED
  BY <1>3, <1>4

\* A dispatch takes the head of one lane out of all lanes: the job has no
\* second place in its lane, and the other lanes have other jobs.
LEMMA DispatchKeepsApart ==
    ASSUME TableOK, LanesApart, NEW i \in 1..Len(lanes),
           IF Len(lanes[i].jobs) = 1 THEN RemoveEmptyLane(i) ELSE TakeHead(i)
    PROVE  /\ Head(lanes[i].jobs).job \in LaneJobs
           /\ LanesApart'
           /\ LaneJobs' = LaneJobs \ {Head(lanes[i].jobs).job}
<1> DEFINE jobs == lanes[i].jobs
           j    == Head(jobs).job
           n    == Len(lanes)
<1>1. /\ n \in Nat /\ lanes[i] \in Row /\ jobs \in Seq(Entry) /\ jobs # <<>>
      /\ \A k \in 1..n : lanes[k] \in Row
  <2>1. n \in Nat /\ \A k \in 1..n : lanes[k] \in Row
    BY DEF TableOK
  <2>2. QED
    BY <2>1 DEF TableOK, Row
<1>2. Distinct(jobs) /\ \A h \in Jobs(jobs) : LaneOf[h] = lanes[i].lane
  BY DEF LanesApart
<1>3. j \in Jobs(jobs) /\ Jobs(Tail(jobs)) = Jobs(jobs) \ {j} /\ Distinct(Tail(jobs))
  <2> HIDE DEF jobs
  <2> QED
    BY <1>1, <1>2, TailJobs
<1>4. j \in LaneJobs
  BY <1>3 DEF LaneJobs
<1>5. \A k \in 1..n : k # i => j \notin Jobs(lanes[k].jobs)
  <2> SUFFICES ASSUME NEW k \in 1..n, k # i, j \in Jobs(lanes[k].jobs)
               PROVE  FALSE
    OBVIOUS
  <2>1. lanes[k].lane = lanes[i].lane
    BY <1>2, <1>3 DEF LanesApart
  <2>2. laneIndex[lanes[k].lane] = k /\ laneIndex[lanes[i].lane] = i
    BY DEF TableOK
  <2>3. QED
    BY <2>1, <2>2
<1>6. CASE Len(jobs) = 1
  <2>1. lanes' = [k \in 1..n - 1 |-> IF k < i THEN lanes[k] ELSE lanes[k + 1]]
    BY <1>6 DEF RemoveEmptyLane
  <2> DEFINE Old(k) == IF k < i THEN k ELSE k + 1
  <2>2. \A k \in 1..n - 1 : Old(k) \in 1..n /\ Old(k) # i
    BY <1>1
  <2>3. \A k \in 1..n : k # i => \E m \in 1..n - 1 : Old(m) = k
    <3> SUFFICES ASSUME NEW k \in 1..n, k # i PROVE \E m \in 1..n - 1 : Old(m) = k
      OBVIOUS
    <3>1. CASE k < i
      <4>1. k \in 1..n - 1 /\ Old(k) = k
        BY <1>1, <3>1
      <4>2. QED
        BY <4>1
    <3>2. CASE ~(k < i)
      <4>1. k - 1 \in 1..n - 1 /\ Old(k - 1) = k
        BY <1>1, <3>2
      <4>2. QED
        BY <4>1
    <3>3. QED
      BY <3>1, <3>2
  <2>4. \A k \in 1..n - 1 : lanes'[k] = lanes[Old(k)]
    BY <2>1
  <2>5. Len(lanes') = n - 1
    <3>1. n - 1 \in Nat /\ \A k \in 1..n - 1 : lanes'[k] \in Row
      BY <1>1, <2>2, <2>4
    <3>2. lanes' \in [1..n - 1 -> Row]
      BY <2>1, <3>1
    <3>3. QED
      BY <3>1, <3>2
  <2> HIDE DEF Old
  <2>6. LanesApart'
    <3> SUFFICES ASSUME NEW k \in 1..n - 1
                 PROVE  /\ Distinct(lanes'[k].jobs)
                        /\ \A h \in Jobs(lanes'[k].jobs) : LaneOf[h] = lanes'[k].lane
      BY <2>5 DEF LanesApart, Jobs
    <3>1. QED
      BY <2>2, <2>4 DEF LanesApart
  <2>7. Jobs(jobs) = {j}
    <3>1. jobs[1].job = j /\ \A k \in 1..1 : k = 1
      BY <1>1, HeadTailProperties
    <3>2. QED
      BY <1>6, <3>1 DEF Jobs
  <2>8. LaneJobs' = UNION {Jobs(lanes'[k].jobs) : k \in 1..n - 1}
    BY <2>5 DEF LaneJobs, Jobs
  <2>9. LaneJobs' = LaneJobs \ {j}
    <3>1. \A h \in LaneJobs' : h \in LaneJobs /\ h # j
      <4> SUFFICES ASSUME NEW k \in 1..n - 1, NEW h \in Jobs(lanes'[k].jobs)
                   PROVE  h \in LaneJobs /\ h # j
        BY <2>8
      <4>1. h \in Jobs(lanes[Old(k)].jobs) /\ Old(k) \in 1..n /\ Old(k) # i
        BY <2>2, <2>4
      <4> HIDE DEF j
      <4>2. QED
        BY <1>5, <4>1 DEF LaneJobs
    <3>2. \A h \in LaneJobs : h # j => h \in LaneJobs'
      <4> SUFFICES ASSUME NEW k \in 1..n, NEW h \in Jobs(lanes[k].jobs), h # j
                   PROVE  h \in LaneJobs'
        BY DEF LaneJobs
      <4>1. k # i
        BY <2>7
      <4>2. PICK m \in 1..n - 1 : Old(m) = k
        BY <2>3, <4>1
      <4>3. QED
        BY <2>4, <2>8, <4>2
    <3> HIDE DEF j
    <3>3. QED
      BY <3>1, <3>2
  <2>10. QED
    BY <1>4, <2>6, <2>9
<1>7. CASE Len(jobs) # 1
  <2>1. lanes' = [lanes EXCEPT ![i].jobs = Tail(jobs)]
    BY <1>7 DEF TakeHead
  <2> DEFINE row == [lanes[i] EXCEPT !.jobs = Tail(jobs)]
  <2>2. row.jobs = Tail(jobs) /\ row.lane = lanes[i].lane
    BY <1>1 DEF Row
  <2>3. /\ Len(lanes') = n
        /\ lanes'[i].jobs = Tail(jobs) /\ lanes'[i].lane = lanes[i].lane
        /\ \A k \in 1..n : k # i => lanes'[k] = lanes[k]
    <3>1. lanes' = [lanes EXCEPT ![i] = row] /\ lanes \in Seq(Row)
      BY <2>1 DEF TableOK
    <3> HIDE DEF row, jobs
    <3>2. QED
      BY <2>2, <3>1
  <2> HIDE DEF row
  <2>4. LanesApart'
    <3> SUFFICES ASSUME NEW k \in 1..n
                 PROVE  /\ Distinct(lanes'[k].jobs)
                        /\ \A h \in Jobs(lanes'[k].jobs) : LaneOf[h] = lanes'[k].lane
      BY <2>3 DEF LanesApart, Jobs
    <3>1. CASE k = i
      <4> HIDE DEF j, jobs
      <4> QED
        BY <1>2, <1>3, <2>3, <3>1
    <3>2. CASE k # i
      BY <2>3, <3>2 DEF LanesApart
    <3>3. QED
      BY <3>1, <3>2
  <2>5. LaneJobs' = UNION {Jobs(lanes'[k].jobs) : k \in 1..n}
    BY <2>3 DEF LaneJobs, Jobs
  <2>6. \A k \in 1..n : Jobs(lanes'[k].jobs) = Jobs(lanes[k].jobs) \ {j}
    <3> SUFFICES ASSUME NEW k \in 1..n
                 PROVE  Jobs(lanes'[k].jobs) = Jobs(lanes[k].jobs) \ {j}
      OBVIOUS
    <3>1. CASE k = i
      BY <1>3, <2>3, <3>1
    <3>2. CASE k # i
      <4>1. lanes'[k] = lanes[k] /\ j \notin Jobs(lanes[k].jobs)
        BY <1>5, <2>3, <3>2
      <4> HIDE DEF j
      <4>2. QED
        BY <4>1
    <3>3. QED
      BY <3>1, <3>2
  <2>7. LaneJobs' = LaneJobs \ {j}
    <3> HIDE DEF j
    <3>1. ASSUME NEW h \in LaneJobs' PROVE h \in LaneJobs \ {j}
      <4>1. PICK k \in 1..n : h \in Jobs(lanes'[k].jobs)
        BY <2>5, <3>1
      <4>2. QED
        BY <2>6, <4>1 DEF LaneJobs
    <3>2. ASSUME NEW h \in LaneJobs \ {j} PROVE h \in LaneJobs'
      <4>1. PICK k \in 1..n : h \in Jobs(lanes[k].jobs)
        BY <3>2 DEF LaneJobs
      <4>2. QED
        BY <2>5, <2>6, <3>2, <4>1
    <3>3. QED
      BY <3>1, <3>2
  <2>8. QED
    BY <1>4, <2>4, <2>7
<1>8. QED
  BY <1>6, <1>7

\* Time changes neither the lanes' jobs nor their order.
LEMMA TickKeepsApart ==
    ASSUME TableOK, LanesApart, Tick
    PROVE  LanesApart' /\ LaneJobs' = LaneJobs
<1>1. /\ Len(lanes') = Len(lanes)
      /\ \A i \in 1..Len(lanes) : lanes'[i].jobs = Aged(lanes[i].jobs)
  BY TickKeepsTable
<1>2. \A i \in 1..Len(lanes) : lanes[i] \in Row
  BY DEF TableOK
<1>3. \A i \in 1..Len(lanes) : /\ Jobs(lanes'[i].jobs) = Jobs(lanes[i].jobs)
                               /\ Distinct(lanes'[i].jobs)
  BY <1>1, <1>2, AgedJobs DEF Row, LanesApart
<1>4. \A i \in 1..Len(lanes) : lanes'[i].lane = lanes[i].lane
  BY <1>2 DEF Tick, TableOK, Row
<1>5. LanesApart'
  <2> SUFFICES ASSUME NEW i \in 1..Len(lanes)
               PROVE  /\ Distinct(lanes'[i].jobs)
                      /\ \A j \in Jobs(lanes'[i].jobs) : LaneOf[j] = lanes'[i].lane
    BY <1>1 DEF LanesApart, Jobs
  <2>1. QED
    BY <1>3, <1>4 DEF LanesApart
<1>6. LaneJobs' = UNION {Jobs(lanes'[i].jobs) : i \in 1..Len(lanes)}
  BY <1>1 DEF LaneJobs, Jobs
<1>7. LaneJobs' = LaneJobs
  <2>1. ASSUME NEW h \in LaneJobs' PROVE h \in LaneJobs
    BY <1>3, <1>6, <2>1 DEF LaneJobs
  <2>2. ASSUME NEW h \in LaneJobs PROVE h \in LaneJobs'
    <3>1. PICK i \in 1..Len(lanes) : h \in Jobs(lanes[i].jobs)
      BY <2>2 DEF LaneJobs
    <3>2. QED
      BY <1>3, <1>6, <3>1
  <2>3. QED
    BY <2>1, <2>2
<1>8. QED
  BY <1>5, <1>7

\* Submit gives a job that has no place one of its own.
LEMMA SubmitKeepsPlaces ==
    ASSUME TypeOK, PlacesInv, NEW j \in Job, j \notin accepted, Submit(j),
           UNCHANGED lanes
    PROVE  PlacesInv' /\ accepted' = accepted \cup {j}
<1> USE SchedulerAssumption DEF SchedulerAssumption
<1>1. PICK delay \in IF j \in Dated THEN 0..MaxDelay ELSE {0} :
        LET e == [job |-> j, age |-> -delay] IN
         IF ClassOf(j) = "background"
         THEN /\ Len(backgroundInput) < Capacity
              /\ backgroundInput' = Append(backgroundInput, e)
              /\ UNCHANGED input
         ELSE /\ Len(input) < Capacity
              /\ input' = Append(input, e)
              /\ UNCHANGED backgroundInput
  BY DEF Submit
<1> DEFINE e == [job |-> j, age |-> -delay]
<1>2. e \in Entry /\ e.job = j
  BY <1>1 DEF Entry
<1>3. accepted' = accepted \cup {j}
  BY DEF Submit
<1>4. LaneJobs' = LaneJobs /\ LanesApart'
  BY DEF LaneJobs, Jobs, PlacesInv, LanesApart, Distinct
<1>5. j \notin Jobs(input) /\ j \notin Jobs(backgroundInput) /\ j \notin LaneJobs
  BY DEF PlacesInv
<1> HIDE DEF e
<1>6. CASE ClassOf(j) = "background"
  <2>1. backgroundInput' = Append(backgroundInput, e) /\ UNCHANGED input
    BY <1>1, <1>6 DEF e
  <2>2. /\ Jobs(backgroundInput)' = Jobs(backgroundInput) \cup {j}
        /\ Distinct(backgroundInput)'
    <3>1. /\ Jobs(Append(backgroundInput, e)) = Jobs(backgroundInput) \cup {e.job}
          /\ Distinct(Append(backgroundInput, e))
      BY <1>2, <1>5, AppendedJobs DEF TypeOK, PlacesInv
    <3>2. QED
      BY <1>2, <2>1, <3>1 DEF Jobs, Distinct
  <2>3. Jobs(input)' = Jobs(input) /\ Distinct(input)'
    BY <2>1 DEF Jobs, Distinct, PlacesInv
  <2>4. QED
    BY <1>3, <1>4, <1>5, <2>2, <2>3 DEF PlacesInv
<1>7. CASE ClassOf(j) # "background"
  <2>1. input' = Append(input, e) /\ UNCHANGED backgroundInput
    BY <1>1, <1>7 DEF e
  <2>2. Jobs(input)' = Jobs(input) \cup {j} /\ Distinct(input)'
    <3>1. /\ Jobs(Append(input, e)) = Jobs(input) \cup {e.job}
          /\ Distinct(Append(input, e))
      BY <1>2, <1>5, AppendedJobs DEF TypeOK, PlacesInv
    <3>2. QED
      BY <1>2, <2>1, <3>1 DEF Jobs, Distinct
  <2>3. Jobs(backgroundInput)' = Jobs(backgroundInput) /\ Distinct(backgroundInput)'
    BY <2>1 DEF Jobs, Distinct, PlacesInv
  <2>4. QED
    BY <1>3, <1>4, <1>5, <2>2, <2>3 DEF PlacesInv
<1>8. QED
  BY <1>6, <1>7

\* A job that Run takes from a channel moves into the lanes.
LEMMA TakingKeepsPlaces ==
    ASSUME TypeOK, TableOK, PlacesInv, UNCHANGED accepted,
           \/ /\ input # <<>> /\ AddJob(Head(input))
              /\ input' = Tail(input) /\ UNCHANGED backgroundInput
           \/ /\ backgroundInput # <<>> /\ AddJob(Head(backgroundInput))
              /\ backgroundInput' = Tail(backgroundInput) /\ UNCHANGED input
    PROVE  PlacesInv'
<1>1. CASE /\ input # <<>> /\ AddJob(Head(input))
           /\ input' = Tail(input) /\ UNCHANGED backgroundInput
  <2> DEFINE e == Head(input)
  <2>1. e \in Entry
    BY <1>1, HeadTailProperties DEF TypeOK
  <2>2. /\ e.job \in Jobs(input) /\ Jobs(Tail(input)) = Jobs(input) \ {e.job}
        /\ Distinct(Tail(input))
    BY <1>1, TailJobs DEF TypeOK, PlacesInv
  <2>3. e.job \notin LaneJobs /\ e.job \notin Jobs(backgroundInput)
    BY <2>2 DEF PlacesInv
  <2>4. LanesApart' /\ LaneJobs' = LaneJobs \cup {e.job}
    <3>1. AddJob(e) /\ LanesApart
      BY <1>1 DEF PlacesInv
    <3> HIDE DEF e
    <3>2. QED
      BY <2>1, <2>3, <3>1, AddKeepsApart
  <2>5. Jobs(input)' = Jobs(input) \ {e.job} /\ Distinct(input)'
    BY <1>1, <2>2 DEF Jobs, Distinct
  <2>6. Jobs(backgroundInput)' = Jobs(backgroundInput) /\ Distinct(backgroundInput)'
    BY <1>1 DEF Jobs, Distinct, PlacesInv
  <2> HIDE DEF e
  <2>7. QED
    BY <2>2, <2>3, <2>4, <2>5, <2>6 DEF PlacesInv
<1>2. CASE /\ backgroundInput # <<>> /\ AddJob(Head(backgroundInput))
           /\ backgroundInput' = Tail(backgroundInput) /\ UNCHANGED input
  <2> DEFINE e == Head(backgroundInput)
  <2>1. e \in Entry
    BY <1>2, HeadTailProperties DEF TypeOK
  <2>2. /\ e.job \in Jobs(backgroundInput)
        /\ Jobs(Tail(backgroundInput)) = Jobs(backgroundInput) \ {e.job}
        /\ Distinct(Tail(backgroundInput))
    BY <1>2, TailJobs DEF TypeOK, PlacesInv
  <2>3. e.job \notin LaneJobs /\ e.job \notin Jobs(input)
    BY <2>2 DEF PlacesInv
  <2>4. LanesApart' /\ LaneJobs' = LaneJobs \cup {e.job}
    <3>1. AddJob(e) /\ LanesApart
      BY <1>2 DEF PlacesInv
    <3> HIDE DEF e
    <3>2. QED
      BY <2>1, <2>3, <3>1, AddKeepsApart
  <2>5. /\ Jobs(backgroundInput)' = Jobs(backgroundInput) \ {e.job}
        /\ Distinct(backgroundInput)'
    BY <1>2, <2>2 DEF Jobs, Distinct
  <2>6. Jobs(input)' = Jobs(input) /\ Distinct(input)'
    BY <1>2 DEF Jobs, Distinct, PlacesInv
  <2> HIDE DEF e
  <2>7. QED
    BY <2>2, <2>3, <2>4, <2>5, <2>6 DEF PlacesInv
<1>3. QED
  BY <1>1, <1>2

\* Initially nothing is accepted, queued or held.
LEMMA InitPlaces == Init => PlacesInv /\ SubmitsOwn
<1> SUFFICES ASSUME Init PROVE PlacesInv /\ SubmitsOwn
  OBVIOUS
<1>1. Len(<<>>) = 0 /\ 1..0 = {}
  OBVIOUS
<1>2. Jobs(<<>>) = {} /\ Distinct(<<>>) /\ LaneJobs = {} /\ LanesApart
  BY <1>1 DEF Jobs, Distinct, LaneJobs, LanesApart, Init
<1>3. SubmitsOwn
  BY DEF Init, SubmitsOwn, Idle
<1>4. QED
  BY <1>2, <1>3 DEF Init, PlacesInv

\* Every step leaves an accepted job in one place, and what a worker is about
\* to submit in none.
LEMMA NextPlaces ==
    IndexInv /\ PlacesInv /\ SubmitsOwn /\ [Next]_vars => PlacesInv' /\ SubmitsOwn'
<1> SUFFICES ASSUME IndexInv, PlacesInv, SubmitsOwn, [Next]_vars
             PROVE  PlacesInv' /\ SubmitsOwn'
  OBVIOUS
<1>a. TypeOK /\ TableOK
  BY DEF IndexInv
<1>b. UNCHANGED <<input, backgroundInput, lanes, accepted>> => PlacesInv'
  <2> SUFFICES ASSUME UNCHANGED <<input, backgroundInput, lanes, accepted>>
               PROVE  PlacesInv'
    OBVIOUS
  <2>1. LaneJobs' = LaneJobs /\ LanesApart'
    BY DEF LaneJobs, Jobs, PlacesInv, LanesApart, Distinct
  <2>2. /\ Jobs(input)' = Jobs(input) /\ Distinct(input)'
        /\ Jobs(backgroundInput)' = Jobs(backgroundInput)
        /\ Distinct(backgroundInput)'
    BY DEF Jobs, Distinct, PlacesInv
  <2>3. QED
    BY <2>1, <2>2 DEF PlacesInv
<1>c. UNCHANGED <<worker, accepted>> => SubmitsOwn'
  BY DEF SubmitsOwn, HeldBy
<1>1. ASSUME NEW j \in Job, Arrive(j) PROVE PlacesInv' /\ SubmitsOwn'
  <2>1. PlacesInv' /\ accepted' = accepted \cup {j}
    BY <1>1, <1>a, SubmitKeepsPlaces DEF Arrive, table
  <2>2. UNCHANGED worker /\ \A w \in Worker : ~HeldBy(w, j)
    BY <1>1 DEF Arrive
  <2>3. SubmitsOwn'
    BY <2>1, <2>2 DEF SubmitsOwn, HeldBy, Idle
  <2>4. QED
    BY <2>1, <2>3
<1>2. CASE Poll
  <2>1. UNCHANGED <<backgroundInput, worker, accepted>>
    BY <1>2 DEF Poll
  <2>2. CASE input # <<>>
    <3>1. AddJob(Head(input)) /\ input' = Tail(input)
      BY <1>2, <2>2 DEF Poll
    <3>2. QED
      BY <1>a, <1>c, <2>1, <2>2, <3>1, TakingKeepsPlaces
  <2>3. CASE input = <<>>
    BY <1>2, <1>b, <1>c, <2>1, <2>3 DEF Poll
  <2>4. QED
    BY <2>2, <2>3
<1>3. CASE TakeInput \/ TakeBackgroundInput
  BY <1>3, <1>a, <1>c, TakingKeepsPlaces DEF TakeInput, TakeBackgroundInput
<1>4. CASE TickerFires \/ Stop
  BY <1>4, <1>b, <1>c DEF TickerFires, Stop, queues, table
<1>5. ASSUME NEW w \in Worker, Dispatch(w) PROVE PlacesInv' /\ SubmitsOwn'
  <2> DEFINE j == Head(lanes[selected].jobs).job
  <2>1. /\ selected \in 1..Len(lanes)
        /\ IF Len(lanes[selected].jobs) = 1
           THEN RemoveEmptyLane(selected) ELSE TakeHead(selected)
    BY <1>5, <1>a DEF Dispatch, IndexInv, TypeOK
  <2>2. /\ accepted' = accepted \ {j} /\ UNCHANGED queues
        /\ worker' = [worker EXCEPT ![w] = [stage |-> "fetching", job |-> j]]
    BY <1>5 DEF Dispatch
  <2>3. j \in LaneJobs /\ LanesApart' /\ LaneJobs' = LaneJobs \ {j}
    BY <1>a, <2>1, DispatchKeepsApart DEF PlacesInv
  <2> HIDE DEF j
  <2>4. /\ Jobs(input)' = Jobs(input) /\ Distinct(input)'
        /\ Jobs(backgroundInput)' = Jobs(backgroundInput)
        /\ Distinct(backgroundInput)'
    BY <2>2 DEF queues, Jobs, Distinct, PlacesInv
  <2>5. PlacesInv'
    BY <2>2, <2>3, <2>4 DEF PlacesInv
  <2>6. j \in accepted
    BY <2>3 DEF PlacesInv
  <2>7. SubmitsOwn'
    <3> SUFFICES ASSUME NEW v \in Worker, worker'[v].stage = "submitting"
                 PROVE  /\ worker'[v].job \notin accepted'
                        /\ \A u \in Worker \ {v} : worker'[u] = Idle \/ worker'[u].job # worker'[v].job
      BY DEF SubmitsOwn, HeldBy
    <3>1. v # w /\ worker'[v] = worker[v]
      BY <1>a, <2>2 DEF TypeOK
    <3>2. /\ worker[v].job \notin accepted
          /\ \A u \in Worker \ {v} : ~HeldBy(u, worker[v].job)
      BY <3>1 DEF SubmitsOwn
    <3>3. ASSUME NEW u \in Worker \ {v}
          PROVE  worker'[u] = Idle \/ worker'[u].job # worker'[v].job
      <4>1. CASE u = w
        <5>1. worker'[u].job = j
          BY <1>a, <2>2, <4>1 DEF TypeOK
        <5>2. QED
          BY <2>6, <3>1, <3>2, <5>1 DEF HeldBy
      <4>2. CASE u # w
        <5>1. worker'[u] = worker[u]
          BY <1>a, <2>2, <4>2 DEF TypeOK
        <5>2. QED
          BY <3>1, <3>2, <5>1 DEF HeldBy
      <4>3. QED
        BY <4>1, <4>2
    <3>4. QED
      BY <2>2, <3>1, <3>2, <3>3
  <2>8. QED
    BY <2>5, <2>7
<1>d. ASSUME NEW w \in Worker, worker' = [worker EXCEPT ![w] = Idle],
             \/ UNCHANGED accepted
             \/ worker[w].stage = "submitting" /\ accepted' = accepted \cup {worker[w].job}
      PROVE  SubmitsOwn'
  <2> SUFFICES ASSUME NEW v \in Worker, worker'[v].stage = "submitting"
               PROVE  /\ worker'[v].job \notin accepted'
                      /\ \A u \in Worker \ {v} : worker'[u] = Idle \/ worker'[u].job # worker'[v].job
    BY DEF SubmitsOwn, HeldBy
  <2>1. v # w /\ worker'[v] = worker[v]
    BY <1>a, <1>d DEF TypeOK, Idle
  <2>2. /\ worker[v].job \notin accepted
        /\ \A u \in Worker \ {v} : ~HeldBy(u, worker[v].job)
    BY <2>1 DEF SubmitsOwn
  <2>3. worker[w].stage = "submitting" => worker[w].job # worker[v].job
    BY <2>1, <2>2 DEF HeldBy, Idle
  <2>4. \A u \in Worker : worker'[u] = worker[u] \/ worker'[u] = Idle
    BY <1>a, <1>d DEF TypeOK
  <2>5. QED
    BY <1>d, <2>1, <2>2, <2>3, <2>4 DEF HeldBy
<1>6. ASSUME NEW w \in Worker, Finish(w) \/ RetryRefused(w)
      PROVE  PlacesInv' /\ SubmitsOwn'
  BY <1>6, <1>b, <1>d DEF Finish, RetryRefused, queues, table
<1>7. ASSUME NEW w \in Worker, WantsRetry(w) PROVE PlacesInv' /\ SubmitsOwn'
  <2>1. PICK j \in FollowUps[worker[w].job] \ accepted :
          /\ \A v \in Worker \ {w} : ~HeldBy(v, j)
          /\ worker' = [worker EXCEPT ![w] = [stage |-> "submitting", job |-> j]]
    BY <1>7 DEF WantsRetry
  <2>2. UNCHANGED <<queues, table, accepted>>
    BY <1>7 DEF WantsRetry
  <2>3. SubmitsOwn'
    <3> SUFFICES ASSUME NEW v \in Worker, worker'[v].stage = "submitting"
                 PROVE  /\ worker'[v].job \notin accepted'
                        /\ \A u \in Worker \ {v} : worker'[u] = Idle \/ worker'[u].job # worker'[v].job
      BY DEF SubmitsOwn, HeldBy
    <3>1. /\ worker'[w] = [stage |-> "submitting", job |-> j]
          /\ \A u \in Worker \ {w} : worker'[u] = worker[u]
      BY <1>a, <2>1 DEF TypeOK
    <3>2. CASE v = w
      BY <2>1, <2>2, <3>1, <3>2 DEF HeldBy
    <3>3. CASE v # w
      <4>1. /\ worker'[v] = worker[v] /\ worker[v].job \notin accepted
            /\ \A u \in Worker \ {v} : ~HeldBy(u, worker[v].job)
        BY <3>1, <3>3 DEF SubmitsOwn
      <4>2. worker[v].job # j
        BY <2>1, <3>3, <4>1 DEF HeldBy, Idle
      <4>3. QED
        BY <2>2, <3>1, <4>1, <4>2 DEF HeldBy
    <3>4. QED
      BY <3>2, <3>3
  <2>4. QED
    BY <1>b, <2>2, <2>3 DEF queues, table
<1>8. ASSUME NEW w \in Worker, SubmitsRetry(w) PROVE PlacesInv' /\ SubmitsOwn'
  <2>1. /\ worker[w].stage = "submitting" /\ Submit(worker[w].job)
        /\ worker' = [worker EXCEPT ![w] = Idle] /\ UNCHANGED lanes
    BY <1>8 DEF SubmitsRetry, table
  <2>2. worker[w].job \in Job /\ worker[w].job \notin accepted
    BY <1>a, <2>1 DEF TypeOK, Busy, Idle, SubmitsOwn
  <2>3. PlacesInv' /\ accepted' = accepted \cup {worker[w].job}
    BY <1>a, <2>1, <2>2, SubmitKeepsPlaces
  <2>4. QED
    BY <1>d, <2>1, <2>3
<1>9. CASE Tick
  <2>1. /\ Jobs(input') = Jobs(input) /\ Distinct(input')
        /\ Jobs(backgroundInput') = Jobs(backgroundInput)
        /\ Distinct(backgroundInput')
    BY <1>9, <1>a, AgedJobs DEF Tick, TypeOK, PlacesInv
  <2>2. LanesApart' /\ LaneJobs' = LaneJobs
    BY <1>9, <1>a, TickKeepsApart DEF PlacesInv
  <2>3. UNCHANGED <<worker, accepted>>
    BY <1>9 DEF Tick
  <2>4. QED
    BY <1>c, <2>1, <2>2, <2>3 DEF PlacesInv
<1>10. CASE UNCHANGED vars
  BY <1>10, <1>b, <1>c DEF vars, queues, table
<1>11. QED
  BY <1>1, <1>2, <1>3, <1>4, <1>5, <1>6, <1>7, <1>8, <1>9, <1>10 DEF Next

THEOREM JobsHavePlaces == Spec => []PlacesInv
<1>1. IndexInv /\ PlacesInv /\ SubmitsOwn /\ [Next]_vars
        => IndexInv' /\ PlacesInv' /\ SubmitsOwn'
  BY NextIndexInv, NextPlaces
<1>2. QED
  BY <1>1, InitIndexInv, InitPlaces, PTL DEF Spec

\* A job whose lane is known stands in no other: its lane has one place in
\* the table.
LEMMA OneLane ==
    ASSUME TableOK, LanesApart, NEW j,
           NEW k \in 1..Len(lanes), j \in Jobs(lanes[k].jobs),
           NEW m \in 1..Len(lanes), j \in Jobs(lanes[m].jobs)
    PROVE  k = m
<1>1. lanes[k].lane = lanes[m].lane
  BY DEF LanesApart
<1>2. laneIndex[lanes[k].lane] = k /\ laneIndex[lanes[m].lane] = m
  BY DEF TableOK
<1>3. QED
  BY <1>1, <1>2

\* Between Submit and the worker that receives it a job is in one place: no
\* shift of lanes, no insertion and no full channel loses or repeats it.
THEOREM QueuedOnceHolds == Spec => []QueuedOnce
<1>1. IndexInv /\ PlacesInv => QueuedOnce
  <2> SUFFICES ASSUME IndexInv, PlacesInv, NEW j \in Job
               PROVE  Cardinality(QueuedAt(j)) = IF j \in accepted THEN 1 ELSE 0
    BY DEF QueuedOnce
  <2> DEFINE front == {<<"input", 0, i>> : i \in {n \in 1..Len(input) : input[n].job = j}}
             back  == {<<"background", 0, i>> :
                        i \in {n \in 1..Len(backgroundInput) :
                                 backgroundInput[n].job = j}}
             in(l) == {<<"lane", l, i>> :
                        i \in {n \in 1..Len(lanes[l].jobs) : lanes[l].jobs[n].job = j}}
             inner == UNION {in(l) : l \in 1..Len(lanes)}
  <2>1. QueuedAt(j) = front \cup back \cup inner
    BY DEF QueuedAt
  <2>2. j \notin Jobs(input) => front = {}
    BY DEF Jobs
  <2>3. j \notin Jobs(backgroundInput) => back = {}
    BY DEF Jobs
  <2>4. \A l \in 1..Len(lanes) : j \notin Jobs(lanes[l].jobs) => in(l) = {}
    BY DEF Jobs
  <2>5. j \notin LaneJobs => inner = {}
    <3>1. j \notin LaneJobs => \A l \in 1..Len(lanes) : in(l) = {}
      BY <2>4 DEF LaneJobs
    <3> HIDE DEF in
    <3>2. QED
      BY <3>1
  <2>6. ASSUME j \in Jobs(input) PROVE \E x : front = {x}
    <3>1. PICK i \in 1..Len(input) : input[i].job = j
      BY <2>6 DEF Jobs
    <3>2. \A n \in 1..Len(input) : input[n].job = j => n = i
      BY <3>1 DEF PlacesInv, Distinct
    <3>3. front = {<<"input", 0, i>>}
      BY <3>1, <3>2
    <3>4. QED
      BY <3>3
  <2>7. ASSUME j \in Jobs(backgroundInput) PROVE \E x : back = {x}
    <3>1. PICK i \in 1..Len(backgroundInput) : backgroundInput[i].job = j
      BY <2>7 DEF Jobs
    <3>2. \A n \in 1..Len(backgroundInput) : backgroundInput[n].job = j => n = i
      BY <3>1 DEF PlacesInv, Distinct
    <3>3. back = {<<"background", 0, i>>}
      BY <3>1, <3>2
    <3>4. QED
      BY <3>3
  <2>8. ASSUME j \in LaneJobs PROVE \E x : inner = {x}
    <3>1. PICK l \in 1..Len(lanes) : j \in Jobs(lanes[l].jobs)
      BY <2>8 DEF LaneJobs
    <3>2. PICK i \in 1..Len(lanes[l].jobs) : lanes[l].jobs[i].job = j
      BY <3>1 DEF Jobs
    <3>3. \A n \in 1..Len(lanes[l].jobs) : lanes[l].jobs[n].job = j => n = i
      BY <3>2 DEF PlacesInv, LanesApart, Distinct
    <3>4. in(l) = {<<"lane", l, i>>}
      BY <3>2, <3>3
    <3>5. \A m \in 1..Len(lanes) : m # l => in(m) = {}
      <4>1. TableOK /\ LanesApart
        BY DEF IndexInv, PlacesInv
      <4>2. \A m \in 1..Len(lanes) : m # l => j \notin Jobs(lanes[m].jobs)
        BY <3>1, <4>1, OneLane
      <4> HIDE DEF in
      <4>3. QED
        BY <2>4, <4>2
    <3> HIDE DEF in
    <3>6. inner = in(l)
      BY <3>5
    <3>7. QED
      BY <3>4, <3>6
  <2> HIDE DEF front, back, inner
  <2>9. CASE j \notin accepted
    <3>1. QueuedAt(j) = {}
      BY <2>1, <2>2, <2>3, <2>5, <2>9 DEF PlacesInv
    <3>2. QED
      BY <2>9, <3>1, FS_EmptySet
  <2>10. CASE j \in accepted
    <3>1. \E x : QueuedAt(j) = {x}
      <4>1. CASE j \in Jobs(input)
        BY <2>1, <2>3, <2>5, <2>6, <4>1 DEF PlacesInv
      <4>2. CASE j \in Jobs(backgroundInput)
        BY <2>1, <2>2, <2>5, <2>7, <4>2 DEF PlacesInv
      <4>3. CASE j \in LaneJobs
        BY <2>1, <2>2, <2>3, <2>8, <4>3 DEF PlacesInv
      <4>4. QED
        BY <2>10, <4>1, <4>2, <4>3 DEF PlacesInv
    <3>2. Cardinality(QueuedAt(j)) = 1
      BY <3>1, FS_Singleton
    <3>3. QED
      BY <2>10, <3>2
  <2>11. QED
    BY <2>9, <2>10
<1>2. IndexInv /\ [Next]_vars => IndexInv'
  BY NextIndexInv
<1>3. QED
  BY <1>1, <1>2, InitIndexInv, JobsHavePlaces, PTL DEF Spec
=============================================================================
