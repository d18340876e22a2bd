-------------------------- MODULE PriceWatch_proofs --------------------------
(***************************************************************************)
(* Theorems about PriceWatch for every set of members, items and bookings, *)
(* every number of jobs and every limit and price.                         *)
(***************************************************************************)
EXTENDS PriceWatch, FiniteSetTheorems, WellFoundedInduction, TLAPS

-----------------------------------------------------------------------------
(* The rows *)

\* A schedule that has counted its misses to the end is stopped, and nobody's.
Counted ==
    \A k \in Key : schedule[k] # None =>
      \/ schedule[k].missed < Strikes
      \/ schedule[k].availability = "unavailable" /\ schedule[k].token = None

\* What TypeOK says of the two tables.
RowsOK ==
    /\ watch \in [Booking -> WatchRow \cup {None}]
    /\ \A b \in Booking : watch[b] # None =>
         schedule[KeyOf(b, watch[b])] # None /\ watch[b].via \in {"shared", b[1]}
    /\ schedule \in [Key -> ScheduleRow \cup {None}]

LEMMA Keys ==
    ASSUME NEW b \in Booking
    PROVE  /\ b[1] \in User /\ b[2] \in Item /\ b = <<b[1], b[2]>>
           /\ \A via \in Transport : <<b[2], via>> \in Key
  <1>1. b \in User \X Item
    BY PriceWatchAssumption DEF PriceWatchAssumption
  <1> QED BY <1>1 DEF Key

LEMMA Constants ==
    /\ "shared" \in Transport /\ GroupOwner \subseteq Transport
    /\ Strikes \in Nat /\ Strikes >= 1 /\ SlowRate \in Rate \cup {SlowRate}
    /\ Price \subseteq Nat
    /\ None \notin Job /\ None \notin WatchRow /\ None \notin ScheduleRow /\ None \notin Check
  BY PriceWatchAssumption, NoneAssumption DEF PriceWatchAssumption, NoneAssumption, Transport

\* The columns of a row.
LEMMA Columns ==
    ASSUME RowsOK
    PROVE  /\ \A b \in Booking : watch[b] # None =>
                 /\ watch[b] \in WatchRow /\ watch[b].via \in Transport
                 /\ KeyOf(b, watch[b]) \in Key
           /\ \A k \in Key : schedule[k] # None => schedule[k] \in ScheduleRow
  <1>1. \A b \in Booking : watch[b] # None => watch[b] \in WatchRow
    BY DEF RowsOK
  <1>2. \A b \in Booking : watch[b] # None => watch[b].via \in Transport
    BY <1>1 DEF WatchRow
  <1>3. \A b \in Booking : watch[b] # None => KeyOf(b, watch[b]) \in Key
    BY <1>2, Keys DEF KeyOf
  <1> QED BY <1>1, <1>2, <1>3 DEF RowsOK

\* What a step leaves of an active watch: it is as it was, it was activated, it
\* moved to another transport, or its price was polled.
Stays(b) ==
    LET row == watch[b]
        old == schedule[KeyOf(b, watch[b])]
        new == schedule'[KeyOf(b, watch'[b])] IN
    /\ row # None /\ row.status = "active"
    /\ watch'[b].via = row.via /\ watch'[b].armed = row.armed
    /\ watch'[b].seen = row.seen /\ watch'[b].moved = row.moved
    /\ new.price = old.price
    /\ new.availability = "unavailable" => old.availability = "unavailable"

Begins(b) ==
    ~watch'[b].armed /\ schedule'[KeyOf(b, watch'[b])].availability = "pending"

Moves(b) == ~watch'[b].armed /\ watch'[b].moved

Sees(b) ==
    LET new == schedule'[KeyOf(b, watch'[b])] IN
    watch'[b].seen = new.price /\ new.availability = "active"

Traced ==
    \A b \in Booking : watch'[b] # None /\ watch'[b].status = "active" =>
      Stays(b) \/ Begins(b) \/ Moves(b) \/ Sees(b)

RowStep == RowsOK' /\ Counted' /\ Traced

LEMMA SameRows ==
    ASSUME RowsOK, Counted, UNCHANGED rows PROVE RowStep
  BY DEF RowsOK, Counted, rows, RowStep, Traced, Stays, KeyOf

LEMMA NewScheduleType == NewSchedule \in ScheduleRow /\ NewSchedule.missed = 0
  BY Constants DEF NewSchedule, ScheduleRow

\* A schedule that is asked for is made if there is none.
LEMMA UpsertedEffect ==
    ASSUME NEW s \in [Key -> ScheduleRow \cup {None}], NEW ks
    PROVE  /\ Upserted(s, ks) \in [Key -> ScheduleRow \cup {None}]
           /\ \A k \in Key : s[k] # None => Upserted(s, ks)[k] = s[k]
           /\ \A k \in Key : k \in ks => Upserted(s, ks)[k] # None
           /\ \A k \in Key : s[k] = None => Upserted(s, ks)[k] \in {None, NewSchedule}
  BY NewScheduleType, Constants DEF Upserted

LEMMA ResetEffect ==
    ASSUME NEW s \in [Key -> ScheduleRow \cup {None}], NEW ks,
           \A k \in Key : k \in ks => s[k] # None
    PROVE  /\ Reset(s, ks) \in [Key -> ScheduleRow \cup {None}]
           /\ \A k \in Key : k \notin ks => Reset(s, ks)[k] = s[k]
           /\ \A k \in Key : k \in ks =>
                 /\ Reset(s, ks)[k] # None /\ Reset(s, ks)[k].availability = "pending"
                 /\ Reset(s, ks)[k].missed = 0 /\ Reset(s, ks)[k].token = None
                 /\ Reset(s, ks)[k].price = s[k].price
  <1> DEFINE r(t) == [t EXCEPT !.availability = "pending", !.missed = 0, !.token = None]
  <1>1. ASSUME NEW t \in ScheduleRow
        PROVE  /\ r(t) \in ScheduleRow /\ r(t).availability = "pending" /\ r(t).missed = 0
               /\ r(t).token = None /\ r(t).price = t.price
    <2>1. 0 \in 0..Strikes
      BY Constants
    <2>2. r(t) \in ScheduleRow
      BY <2>1 DEF ScheduleRow
    <2> QED BY <2>2 DEF ScheduleRow
  <1>2. \A k \in Key : Reset(s, ks)[k] = IF k \in ks THEN r(s[k]) ELSE s[k]
    BY DEF Reset
  <1>3. Reset(s, ks) = [k \in Key |-> IF k \in ks THEN r(s[k]) ELSE s[k]]
    BY DEF Reset
  <1>4. \A k \in Key : s[k] # None => s[k] \in ScheduleRow
    OBVIOUS
  <1> HIDE DEF r
  <1> QED BY <1>1, <1>2, <1>3, <1>4, Constants

\* Activation: the watches bs, whose rows are those of w, and their schedules.
LEMMA ActivateRows ==
    ASSUME RowsOK, Counted, NEW w \in [Booking -> WatchRow \cup {None}],
           NEW bs \in SUBSET Booking, Activate(w, bs),
           \A b \in bs : w[b] # None /\ w[b].via \in {"shared", b[1]},
           \A b \in Booking \ bs : w[b] = watch[b]
    PROVE  /\ RowStep
           /\ \A b \in Booking : watch'[b] # None /\ watch'[b].status = "active" =>
                 b \in bs \/ b \in Active(watch)
           /\ \A k \in Key : (\E b \in bs : k = KeyOf(b, w[b])) =>
                 schedule'[k] # None /\ schedule'[k].token = None
           /\ \A k \in Key : (\A b \in bs : k # KeyOf(b, w[b])) => schedule'[k] = schedule[k]
  <1> DEFINE ks   == {KeyOf(b, w[b]) : b \in bs}
             up   == Upserted(schedule, ks)
             on(t) == [t EXCEPT !.status = "active", !.armed = FALSE, !.seen = 0,
                                !.moved = FALSE]
  <1>1. \A b \in bs : w[b] \in WatchRow /\ w[b].via \in Transport
    BY DEF WatchRow
  <1>2. ks \subseteq Key
    BY <1>1, Keys DEF KeyOf
  <1>3. schedule \in [Key -> ScheduleRow \cup {None}]
    BY DEF RowsOK
  <1> HIDE DEF ks
  <1>4. /\ up \in [Key -> ScheduleRow \cup {None}]
        /\ \A k \in Key : schedule[k] # None => up[k] = schedule[k]
        /\ \A k \in Key : k \in ks => up[k] # None
        /\ \A k \in Key : k \notin ks => up[k] = schedule[k]
    BY <1>3, UpsertedEffect DEF Upserted
  <1>5. schedule' = Reset(up, ks) /\ watch' = Activated(w, bs)
    BY DEF Activate, ks
  <1> HIDE DEF up
  <1>6. /\ schedule' \in [Key -> ScheduleRow \cup {None}]
        /\ \A k \in Key : k \notin ks => schedule'[k] = schedule[k]
        /\ \A k \in Key : k \in ks =>
              /\ schedule'[k] # None /\ schedule'[k].availability = "pending"
              /\ schedule'[k].missed = 0 /\ schedule'[k].token = None
              /\ schedule[k] # None => schedule'[k].price = schedule[k].price
    BY <1>4, <1>5, ResetEffect
  <1>7. ASSUME NEW t \in WatchRow
        PROVE  /\ on(t) \in WatchRow /\ on(t).via = t.via /\ ~on(t).armed
               /\ on(t).status = "active"
    BY <1>7 DEF WatchRow
  <1>8. watch' = [b \in Booking |-> IF b \in bs THEN on(w[b]) ELSE w[b]]
    BY <1>5 DEF Activated
  <1> HIDE DEF on
  <1>9. /\ watch' \in [Booking -> WatchRow \cup {None}]
        /\ \A b \in bs : watch'[b] = on(w[b])
        /\ \A b \in Booking \ bs : watch'[b] = watch[b]
    BY <1>1, <1>7, <1>8
  <1>10. ASSUME NEW b \in bs
         PROVE  /\ watch'[b].via = w[b].via /\ ~watch'[b].armed
                /\ KeyOf(b, watch'[b]) \in ks
    BY <1>1, <1>7, <1>9 DEF KeyOf, ks
  <1>11. ASSUME NEW b \in Booking \ bs, watch'[b] # None
         PROVE  /\ watch[b] # None /\ watch'[b] = watch[b] /\ KeyOf(b, watch[b]) \in Key
                /\ schedule[KeyOf(b, watch[b])] # None
                /\ watch[b].via \in {"shared", b[1]}
    BY <1>9, <1>11, Columns DEF RowsOK
  <1>12. RowsOK'
    <2>1. ASSUME NEW b \in Booking, watch'[b] # None
          PROVE  schedule'[KeyOf(b, watch'[b])] # None /\ watch'[b].via \in {"shared", b[1]}
      <3>1. CASE b \in bs
        BY <1>2, <1>6, <1>10, <3>1
      <3>2. CASE b \notin bs
        BY <1>6, <1>11, <2>1, <3>2
      <3> QED BY <3>1, <3>2
    <2> QED BY <1>6, <1>9, <2>1 DEF RowsOK, KeyOf
  <1>13. Counted'
    <2> SUFFICES ASSUME NEW k \in Key, schedule'[k] # None
                 PROVE  \/ schedule'[k].missed < Strikes
                        \/ schedule'[k].availability = "unavailable" /\ schedule'[k].token = None
      BY DEF Counted
    <2>1. CASE k \in ks
      BY <1>6, <2>1, Constants
    <2>2. CASE k \notin ks
      BY <1>6, <2>2 DEF Counted
    <2> QED BY <2>1, <2>2
  <1>14. Traced
    <2> SUFFICES ASSUME NEW b \in Booking, watch'[b] # None, watch'[b].status = "active"
                 PROVE  Stays(b) \/ Begins(b)
      BY DEF Traced
    <2>1. CASE b \in bs
      BY <1>2, <1>6, <1>10, <2>1 DEF Begins
    <2>2. CASE b \notin bs
      <3>1. /\ watch[b] # None /\ watch'[b] = watch[b] /\ KeyOf(b, watch[b]) \in Key
            /\ schedule[KeyOf(b, watch[b])] # None
        BY <1>11, <2>2
      <3> QED BY <1>6, <3>1 DEF Stays
    <2> QED BY <2>1, <2>2
  <1>15. \A b \in Booking : watch'[b] # None /\ watch'[b].status = "active" =>
            b \in bs \/ b \in Active(watch)
    BY <1>9 DEF Active
  <1>16. \A k \in Key : (\E b \in bs : k = KeyOf(b, w[b])) <=> k \in ks
    BY DEF ks
  <1> QED BY <1>6, <1>12, <1>13, <1>14, <1>15, <1>16 DEF RowStep

\* A member activates watches of his own, whose rows are those of w.
Starts(w, bs) ==
    /\ w \in [Booking -> WatchRow \cup {None}] /\ bs \in SUBSET Booking
    /\ lock # None
    /\ \A b \in bs : w[b] # None /\ w[b].via \in {"shared", b[1]} /\ b[1] = lock.user
    /\ \A b \in Booking \ bs : w[b] = watch[b]
    /\ Activate(w, bs)

LEMMA CreateStarts ==
    ASSUME RowsOK, NEW b \in Booking, NEW via \in Transport, NEW r \in Rate,
           createPriceWatch(b, via, r)
    PROVE  \E w, bs : Starts(w, bs)
  <1> DEFINE row == [status |-> "paused", via |-> via, rate |-> r,
                     armed |-> watch[b] # None /\ watch[b].armed,
                     seen |-> 0, moved |-> FALSE]
             w   == [watch EXCEPT ![b] = row]
  <1>1. lock # None /\ lock.user = b[1] /\ Fits(watch, b, via, r) /\ Activate(w, {b})
    BY DEF createPriceWatch
  <1>2. via \in {"shared", b[1]}
    BY <1>1 DEF Fits
  <1>3. row \in WatchRow
    BY DEF WatchRow
  <1>4. row # None /\ row.via = via
    BY <1>3, Constants
  <1> HIDE DEF row
  <1>5. /\ w \in [Booking -> WatchRow \cup {None}] /\ w[b] = row
        /\ \A c \in Booking \ {b} : w[c] = watch[c]
    BY <1>3 DEF RowsOK
  <1>6. Activate(w, {b})
    BY <1>1 DEF row
  <1> HIDE DEF w
  <1>7. Starts(w, {b})
    BY <1>1, <1>2, <1>4, <1>5, <1>6 DEF Starts
  <1> QED BY <1>7

LEMMA ResumeStarts ==
    ASSUME RowsOK, NEW b \in Booking, resumePriceWatch(b) \/ resumeFromExtension(b)
    PROVE  \E w, bs : Starts(w, bs)
  <1>1. lock # None /\ lock.user = b[1] /\ watch[b] # None /\ Activate(watch, {b})
    BY DEF resumePriceWatch, resumeFromExtension
  <1>2. Starts(watch, {b})
    BY <1>1 DEF Starts, RowsOK
  <1> QED BY <1>2

LEMMA AllStarts ==
    ASSUME RowsOK, NEW u \in User, startAllPriceWatches(u)
    PROVE  \E w, bs : Starts(w, bs)
  <1>1. PICK bs \in SUBSET {b \in Booking : b[1] = u /\ watch[b] # None} : Activate(watch, bs)
    BY DEF startAllPriceWatches
  <1>2. lock # None /\ lock.user = u
    BY DEF startAllPriceWatches
  <1>3. Starts(watch, bs)
    BY <1>1, <1>2 DEF Starts, RowsOK
  <1> QED BY <1>3

LEMMA UpdateRows ==
    ASSUME RowsOK, Counted, NEW b \in Booking, NEW via \in Transport, NEW r \in Rate,
           updatePriceWatch(b, via, r)
    PROVE  RowStep /\ Active(watch)' = Active(watch)
           /\ \A k \in Key : schedule'[k] = schedule[k] \/ schedule'[k] = NewSchedule
  <1> DEFINE row == [watch[b] EXCEPT !.via = via, !.rate = r,
                        !.armed = @ /\ via = watch[b].via,
                        !.seen = IF via = watch[b].via THEN @ ELSE 0,
                        !.moved = @ \/ (b \in Active(watch) /\ via # watch[b].via)]
             k   == <<b[2], via>>
  <1>1. /\ watch[b] # None /\ watch[b] \in WatchRow /\ Fits(watch, b, via, r)
        /\ schedule' = Upserted(schedule, {k})
    BY Columns DEF updatePriceWatch
  <1>2. via \in {"shared", b[1]} /\ k \in Key
    BY <1>1, Keys DEF Fits
  <1>3. watch' = [watch EXCEPT ![b] = row]
    BY <1>1 DEF updatePriceWatch, RowsOK
  <1>4. PICK a \in BOOLEAN, m \in BOOLEAN :
           /\ a = (watch[b].armed /\ via = watch[b].via)
           /\ m = (watch[b].moved \/ (b \in Active(watch) /\ via # watch[b].via))
    OBVIOUS
  <1>5. row = [watch[b] EXCEPT !.via = via, !.rate = r, !.armed = a,
                  !.seen = IF via = watch[b].via THEN @ ELSE 0, !.moved = m]
    BY <1>4
  <1>6. /\ row \in WatchRow /\ row.via = via /\ row.status = watch[b].status
        /\ row.armed = a /\ row.moved = m
        /\ via = watch[b].via => row.seen = watch[b].seen
    <2> HIDE DEF row
    <2> QED BY <1>1, <1>5 DEF WatchRow
  <1>7. row # None
    BY <1>6, Constants
  <1> HIDE DEF row, k
  <1>8. /\ watch' \in [Booking -> WatchRow \cup {None}] /\ watch'[b] = row
        /\ \A c \in Booking : c # b => watch'[c] = watch[c]
    BY <1>3, <1>6 DEF RowsOK
  <1>9. schedule \in [Key -> ScheduleRow \cup {None}]
    BY DEF RowsOK
  <1>10. /\ schedule' \in [Key -> ScheduleRow \cup {None}]
         /\ \A q \in Key : schedule[q] # None => schedule'[q] = schedule[q]
         /\ schedule'[k] # None
         /\ \A q \in Key : schedule[q] = None => schedule'[q] \in {None, NewSchedule}
    BY <1>1, <1>2, <1>9, UpsertedEffect
  <1>11. KeyOf(b, row) = k
    BY <1>6 DEF KeyOf, k
  <1>12. ASSUME NEW c \in Booking, c # b, watch'[c] # None
         PROVE  /\ watch[c] # None /\ watch'[c] = watch[c] /\ KeyOf(c, watch[c]) \in Key
                /\ schedule[KeyOf(c, watch[c])] # None
                /\ schedule'[KeyOf(c, watch[c])] = schedule[KeyOf(c, watch[c])]
                /\ watch[c].via \in {"shared", c[1]}
    BY <1>8, <1>10, <1>12, Columns DEF RowsOK
  <1>13. RowsOK'
    <2>1. ASSUME NEW c \in Booking, watch'[c] # None
          PROVE  schedule'[KeyOf(c, watch'[c])] # None /\ watch'[c].via \in {"shared", c[1]}
      <3>1. CASE c = b
        BY <1>2, <1>6, <1>8, <1>10, <1>11, <3>1
      <3>2. CASE c # b
        BY <1>12, <2>1, <3>2
      <3> QED BY <3>1, <3>2
    <2> QED BY <1>8, <1>10, <2>1 DEF RowsOK, KeyOf
  <1>14. Counted'
    BY <1>10, NewScheduleType, Constants DEF Counted
  <1>15. Traced
    <2> SUFFICES ASSUME NEW c \in Booking, watch'[c] # None, watch'[c].status = "active"
                 PROVE  Stays(c) \/ Moves(c)
      BY DEF Traced
    <2>1. CASE c = b /\ via = watch[b].via
      <3>1. watch[b].armed \in BOOLEAN /\ watch[b].moved \in BOOLEAN
        BY <1>1 DEF WatchRow
      <3>2. a = watch[b].armed /\ m = watch[b].moved
        BY <1>4, <2>1, <3>1
      <3>3. KeyOf(b, watch[b]) = k /\ schedule[KeyOf(b, watch[b])] # None
        BY <1>1, <2>1 DEF KeyOf, k, RowsOK
      <3> QED BY <1>1, <1>2, <1>6, <1>8, <1>10, <1>11, <2>1, <3>2, <3>3 DEF Stays
    <2>2. CASE c = b /\ via # watch[b].via
      <3>1. b \in Active(watch)
        BY <1>1, <1>6, <1>8, <2>2 DEF Active
      <3>2. ~a /\ m
        BY <1>4, <2>2, <3>1
      <3> QED BY <1>6, <1>8, <2>2, <3>2 DEF Moves
    <2>3. CASE c # b
      BY <1>12, <2>3 DEF Stays
    <2> QED BY <2>1, <2>2, <2>3
  <1>16. Active(watch)' = Active(watch)
    BY <1>1, <1>6, <1>7, <1>8 DEF Active
  <1> QED BY <1>9, <1>10, <1>13, <1>14, <1>15, <1>16 DEF RowStep

\* The rows bs are put to rest, and the schedules are what they were but for
\* what the workers write.
LEMMA RestRows ==
    ASSUME RowsOK, NEW bs \in SUBSET Booking, NEW status \in {"paused", "stopped"},
           NEW disarm \in BOOLEAN, watch' = Rested(bs, status, disarm),
           \A b \in bs : watch[b] # None
    PROVE  /\ watch' \in [Booking -> WatchRow \cup {None}]
           /\ \A b \in bs : watch'[b].via = watch[b].via /\ watch'[b].status = status
           /\ \A b \in Booking \ bs : watch'[b] = watch[b]
           /\ \A b \in Booking : watch'[b] # None => watch[b] # None
           /\ Active(watch)' \subseteq Active(watch)
  <1> DEFINE off(t) == [t EXCEPT !.status = status, !.armed = @ /\ ~disarm,
                                 !.seen = 0, !.moved = FALSE]
  <1>1. ASSUME NEW t \in WatchRow
        PROVE  off(t) \in WatchRow /\ off(t).via = t.via /\ off(t).status = status
    <2>1. PICK a \in BOOLEAN : a = (t.armed /\ ~disarm)
      OBVIOUS
    <2>2. off(t) = [t EXCEPT !.status = status, !.armed = a, !.seen = 0, !.moved = FALSE]
      BY <2>1
    <2> HIDE DEF off
    <2> QED BY <2>2 DEF WatchRow
  <1>2. watch' = [b \in Booking |-> IF b \in bs THEN off(watch[b]) ELSE watch[b]]
    BY DEF Rested
  <1>3. \A b \in bs : watch[b] \in WatchRow
    BY DEF RowsOK
  <1> HIDE DEF off
  <1>4. /\ watch' \in [Booking -> WatchRow \cup {None}]
        /\ \A b \in bs : watch'[b] = off(watch[b])
        /\ \A b \in Booking \ bs : watch'[b] = watch[b]
    BY <1>1, <1>2, <1>3 DEF RowsOK
  <1>5. \A b \in bs : watch'[b].via = watch[b].via /\ watch'[b].status = status
    BY <1>1, <1>3, <1>4
  <1>6. Active(watch)' \subseteq Active(watch)
    BY <1>4, <1>5 DEF Active
  <1> QED BY <1>4, <1>5, <1>6

\* Pauses, reconciled limits and policies.
LEMMA PauseRows ==
    ASSUME RowsOK, Counted, NEW bs \in SUBSET Booking, NEW disarm \in BOOLEAN,
           watch' = Rested(bs, "paused", disarm), \A b \in bs : watch[b] # None,
           UNCHANGED schedule
    PROVE  RowStep /\ Active(watch)' \subseteq Active(watch)
  <1>1. /\ watch' \in [Booking -> WatchRow \cup {None}]
        /\ \A b \in bs : watch'[b].via = watch[b].via /\ watch'[b].status = "paused"
        /\ \A b \in Booking \ bs : watch'[b] = watch[b]
        /\ \A b \in Booking : watch'[b] # None => watch[b] # None
        /\ Active(watch)' \subseteq Active(watch)
    BY RestRows
  <1>2. \A b \in Booking : watch'[b] # None =>
           watch[b] # None /\ watch'[b].via = watch[b].via
    BY <1>1
  <1>3. RowsOK'
    BY <1>1, <1>2 DEF RowsOK, KeyOf
  <1>4. Counted'
    BY DEF Counted
  <1>5. Traced
    BY <1>1 DEF Traced, Stays
  <1> QED BY <1>1, <1>3, <1>4, <1>5 DEF RowStep

\* A deletion commits: what is left is on schedules that are left.
LEMMA DeleteRows ==
    ASSUME RowsOK, Counted, deleting \in Deletion \cup {None}, commitDelete
    PROVE  RowStep /\ Active(watch)' \subseteq Active(watch)
  <1> DEFINE b == deleting.of
             k == KeyOf(b, watch[b])
             gone == IF deleting.lastOfItem THEN {c \in Booking : c[2] = b[2]} ELSE {b}
             out(q) == (q = k /\ deleting.last) \/ (q[1] = b[2] /\ deleting.lastOfItem)
  <1>1. /\ deleting.last => On(watch, k) = {b}
        /\ watch' = [c \in Booking |-> IF c \in gone THEN None ELSE watch[c]]
        /\ schedule' = [q \in Key |-> IF out(q) THEN None ELSE schedule[q]]
    BY DEF commitDelete
  <1>2. b \in Booking /\ b \in gone
    BY DEF commitDelete, Deletion
  <1>3. \A c \in Booking : watch'[c] # None => c \notin gone /\ watch'[c] = watch[c]
    BY <1>1
  <1>4. \A q \in Key : schedule'[q] # None => schedule'[q] = schedule[q]
    BY <1>1
  <1>5. ASSUME NEW c \in Booking, watch'[c] # None
        PROVE  /\ KeyOf(c, watch[c]) \in Key /\ schedule[KeyOf(c, watch[c])] # None
               /\ watch[c].via \in {"shared", c[1]}
               /\ schedule'[KeyOf(c, watch[c])] = schedule[KeyOf(c, watch[c])]
    <2>1. watch[c] # None /\ c \notin gone
      BY <1>3, <1>5
    <2>2. /\ KeyOf(c, watch[c]) \in Key /\ schedule[KeyOf(c, watch[c])] # None
          /\ watch[c].via \in {"shared", c[1]}
      BY <2>1, Columns DEF RowsOK
    <2>3. ~out(KeyOf(c, watch[c]))
      <3>1. ASSUME deleting.last, KeyOf(c, watch[c]) = k PROVE FALSE
        <4>1. c \in On(watch, k)
          BY <2>1, <3>1 DEF On
        <4> QED BY <1>1, <1>2, <2>1, <3>1, <4>1
      <3>2. ASSUME deleting.lastOfItem, KeyOf(c, watch[c])[1] = b[2] PROVE FALSE
        BY <2>1, <3>2 DEF KeyOf
      <3> QED BY <3>1, <3>2
    <2> QED BY <1>1, <2>2, <2>3
  <1> HIDE DEF b, k, gone, out
  <1>6. /\ watch' \in [Booking -> WatchRow \cup {None}]
        /\ schedule' \in [Key -> ScheduleRow \cup {None}]
    BY <1>1 DEF RowsOK
  <1>7. RowsOK'
    BY <1>3, <1>5, <1>6 DEF RowsOK, KeyOf
  <1>8. Counted'
    BY <1>4 DEF Counted
  <1>9. Traced
    BY <1>3, <1>5 DEF Traced, Stays
  <1>10. Active(watch)' \subseteq Active(watch)
    BY <1>3 DEF Active
  <1> QED BY <1>7, <1>8, <1>9, <1>10 DEF RowStep

\* A group's schedules go: their watches rest on the shared schedules.
LEMMA GroupRows ==
    ASSUME RowsOK, Counted, NEW u \in GroupOwner, commitDeleteGroup(u)
    PROVE  RowStep /\ Active(watch)' \subseteq Active(watch)
  <1> DEFINE gone   == dropping[u]
             rested == {b \in Booking : watch[b] # None /\ KeyOf(b, watch[b]) \in gone}
             ks     == {<<g[1], "shared">> : g \in gone}
             off(t) == [t EXCEPT !.status = "paused", !.armed = @ /\ ~TRUE, !.seen = 0,
                                 !.moved = FALSE]
             down(t) == [off(t) EXCEPT !.via = "shared", !.rate = SlowRate]
  <1>1. CASE UNCHANGED rows
    BY <1>1, SameRows DEF rows, Active
  <1>2. CASE ~UNCHANGED rows
    <2>1. /\ gone = SchedulesOf(u)
          /\ watch' = [b \in Booking |-> IF b \in rested
               THEN [Rested(rested, "paused", TRUE)[b] EXCEPT !.via = "shared", !.rate = SlowRate]
               ELSE watch[b]]
          /\ schedule' = [k \in Key |-> IF k \in gone THEN None
               ELSE Upserted(schedule, ks)[k]]
      BY <1>2 DEF commitDeleteGroup, rows
    <2>2. watch' = [b \in Booking |-> IF b \in rested THEN down(watch[b]) ELSE watch[b]]
      <3>1. \A b \in rested : Rested(rested, "paused", TRUE)[b] = off(watch[b])
        BY DEF Rested
      <3> QED BY <2>1, <3>1
    <2>3. \A k \in Key : k \in gone <=> k[2] = u /\ schedule[k] # None
      BY <2>1 DEF SchedulesOf
    <2>4. u # "shared"
      BY PriceWatchAssumption DEF PriceWatchAssumption
    <2>5. ASSUME NEW t \in WatchRow
          PROVE  down(t) \in WatchRow /\ down(t).via = "shared" /\ down(t).status = "paused"
      <3>1. PICK a \in BOOLEAN : a = (t.armed /\ ~TRUE)
        OBVIOUS
      <3>2. off(t) = [t EXCEPT !.status = "paused", !.armed = a, !.seen = 0, !.moved = FALSE]
        BY <3>1
      <3> HIDE DEF off
      <3>3. off(t) \in WatchRow /\ off(t).status = "paused"
        BY <3>2 DEF WatchRow
      <3> QED BY <3>3, Constants DEF WatchRow
    <2>6. schedule \in [Key -> ScheduleRow \cup {None}]
      BY DEF RowsOK
    <2> DEFINE up == Upserted(schedule, ks)
    <2>7. /\ up \in [Key -> ScheduleRow \cup {None}]
          /\ \A k \in Key : schedule[k] # None => up[k] = schedule[k]
          /\ \A k \in Key : k \in ks => up[k] # None
          /\ \A k \in Key : schedule[k] = None => up[k] \in {None, NewSchedule}
      BY <2>6, UpsertedEffect
    <2>8. schedule' = [k \in Key |-> IF k \in gone THEN None ELSE up[k]]
      BY <2>1
    <2>9. \A b \in rested : watch[b] # None /\ KeyOf(b, watch[b]) \in gone
      OBVIOUS
    <2>10. \A b \in Booking \ rested : watch[b] # None => KeyOf(b, watch[b]) \notin gone
      OBVIOUS
    <2>11. \A b \in rested : <<b[2], "shared">> \in ks
      BY <2>9 DEF KeyOf
    <2> HIDE DEF up, off, down, rested, gone, ks
    <2>12. /\ watch' \in [Booking -> WatchRow \cup {None}]
           /\ \A b \in Booking : b \in rested => watch'[b] = down(watch[b])
           /\ \A b \in Booking : b \notin rested => watch'[b] = watch[b]
      BY <2>2, <2>5, <2>9 DEF RowsOK
    <2>13. ASSUME NEW b \in Booking, b \in rested
           PROVE  /\ watch'[b].via = "shared" /\ watch'[b].status = "paused"
                  /\ schedule'[KeyOf(b, watch'[b])] # None
      <3>1. watch[b] \in WatchRow
        BY <2>9, <2>13 DEF RowsOK
      <3>2. watch'[b].via = "shared" /\ watch'[b].status = "paused"
        BY <2>5, <2>12, <2>13, <3>1
      <3>3. <<b[2], "shared">> \in Key /\ <<b[2], "shared">> \in ks
        BY <2>11, <2>13, Keys, Constants
      <3>4. <<b[2], "shared">> \notin gone
        BY <2>3, <2>4, <3>3
      <3> QED BY <2>7, <2>8, <3>2, <3>3, <3>4 DEF KeyOf
    <2>14. ASSUME NEW b \in Booking, b \notin rested, watch'[b] # None
           PROVE  /\ watch[b] # None /\ watch'[b] = watch[b] /\ KeyOf(b, watch[b]) \in Key
                  /\ schedule[KeyOf(b, watch[b])] # None
                  /\ schedule'[KeyOf(b, watch[b])] = schedule[KeyOf(b, watch[b])]
                  /\ watch[b].via \in {"shared", b[1]}
      <3>1. watch[b] # None /\ watch'[b] = watch[b]
        BY <2>12, <2>14
      <3>2. /\ KeyOf(b, watch[b]) \in Key /\ schedule[KeyOf(b, watch[b])] # None
            /\ watch[b].via \in {"shared", b[1]}
        BY <3>1, Columns DEF RowsOK
      <3>3. KeyOf(b, watch[b]) \notin gone
        BY <2>10, <2>14, <3>1
      <3> QED BY <2>7, <2>8, <3>1, <3>2, <3>3
    <2>15. RowsOK'
      <3>1. schedule' \in [Key -> ScheduleRow \cup {None}]
        BY <2>7, <2>8
      <3>2. ASSUME NEW b \in Booking, watch'[b] # None
            PROVE  schedule'[KeyOf(b, watch'[b])] # None /\ watch'[b].via \in {"shared", b[1]}
        <4>1. CASE b \in rested
          BY <2>13, <4>1
        <4>2. CASE b \notin rested
          BY <2>14, <3>2, <4>2
        <4> QED BY <4>1, <4>2
      <3> QED BY <2>12, <3>1, <3>2 DEF RowsOK, KeyOf
    <2>16. Counted'
      <3>1. \A k \in Key : schedule'[k] # None =>
               (schedule[k] # None /\ schedule'[k] = schedule[k]) \/ schedule'[k] = NewSchedule
        BY <2>7, <2>8
      <3> QED BY <3>1, NewScheduleType, Constants DEF Counted
    <2>17. Traced
      <3> SUFFICES ASSUME NEW b \in Booking, watch'[b] # None, watch'[b].status = "active"
                   PROVE  Stays(b)
        BY DEF Traced
      <3>1. b \notin rested
        BY <2>13
      <3> QED BY <2>14, <3>1 DEF Stays
    <2>18. Active(watch)' \subseteq Active(watch)
      <3> SUFFICES ASSUME NEW b \in Booking, watch'[b] # None, watch'[b].status = "active"
                   PROVE  watch[b] # None /\ watch[b].status = "active"
        BY DEF Active
      <3>1. b \notin rested
        BY <2>13
      <3> QED BY <2>14, <3>1
    <2> QED BY <2>15, <2>16, <2>17, <2>18 DEF RowStep
  <1> QED BY <1>1, <1>2

\* One schedule is written: a watch of it is as it was, stops, or is polled.
LEMMA AnswerRows ==
    ASSUME RowsOK, Counted, NEW k \in Key, schedule[k] # None, NEW row \in ScheduleRow,
           row.missed < Strikes \/ (row.availability = "unavailable" /\ row.token = None),
           schedule' = [schedule EXCEPT ![k] = row],
           watch' \in [Booking -> WatchRow \cup {None}],
           \A b \in Booking : watch'[b] # None =>
             watch[b] # None /\ watch'[b].via = watch[b].via,
           \A b \in Booking : watch'[b] # None /\ watch'[b].status = "active" =>
             /\ watch[b].status = "active"
             /\ \/ /\ watch'[b] = watch[b]
                   /\ KeyOf(b, watch[b]) = k =>
                        /\ row.price = schedule[k].price
                        /\ row.availability = "unavailable" =>
                             schedule[k].availability = "unavailable"
                \/ /\ KeyOf(b, watch[b]) = k
                   /\ watch'[b].seen = row.price /\ row.availability = "active"
    PROVE  RowStep /\ Active(watch)' \subseteq Active(watch)
  <1>1. row # None
    BY Constants
  <1>2. /\ schedule' \in [Key -> ScheduleRow \cup {None}]
        /\ schedule'[k] = row
        /\ \A q \in Key : q # k => schedule'[q] = schedule[q]
    BY DEF RowsOK
  <1>3. ASSUME NEW b \in Booking, watch'[b] # None
        PROVE  /\ KeyOf(b, watch'[b]) = KeyOf(b, watch[b]) /\ KeyOf(b, watch[b]) \in Key
               /\ schedule[KeyOf(b, watch[b])] # None
               /\ schedule'[KeyOf(b, watch[b])] # None
               /\ watch'[b].via \in {"shared", b[1]}
    <2>1. watch[b] # None /\ watch'[b].via = watch[b].via
      BY <1>3
    <2>2. /\ KeyOf(b, watch[b]) \in Key /\ schedule[KeyOf(b, watch[b])] # None
          /\ watch[b].via \in {"shared", b[1]}
      BY <2>1, Columns DEF RowsOK
    <2> QED BY <1>1, <1>2, <2>1, <2>2 DEF KeyOf
  <1>4. RowsOK'
    BY <1>2, <1>3 DEF RowsOK, KeyOf
  <1>5. Counted'
    BY <1>1, <1>2 DEF Counted
  <1>6. Traced
    <2> SUFFICES ASSUME NEW b \in Booking, watch'[b] # None, watch'[b].status = "active"
                 PROVE  Stays(b) \/ Sees(b)
      BY DEF Traced
    <2>1. watch[b] # None /\ watch[b].status = "active"
      OBVIOUS
    <2>2. CASE KeyOf(b, watch[b]) = k /\ watch'[b].seen = row.price /\ row.availability = "active"
      BY <1>2, <1>3, <2>2 DEF Sees
    <2>3. CASE /\ watch'[b] = watch[b]
               /\ KeyOf(b, watch[b]) = k =>
                    /\ row.price = schedule[k].price
                    /\ row.availability = "unavailable" =>
                         schedule[k].availability = "unavailable"
      BY <1>2, <1>3, <2>1, <2>3 DEF Stays
    <2> QED BY <2>2, <2>3
  <1>7. Active(watch)' \subseteq Active(watch)
    BY DEF Active
  <1> QED BY <1>4, <1>5, <1>6, <1>7 DEF RowStep

LEMMA ClaimRows ==
    ASSUME RowsOK, Counted, NEW j \in Job, NEW k \in Key, ClaimPriceWatchTargets(j, k)
    PROVE  RowStep /\ Active(watch)' \subseteq Active(watch)
  <1> DEFINE row == [schedule[k] EXCEPT !.token = j]
  <1>1. /\ schedule[k] # None /\ schedule[k].availability # "unavailable"
        /\ schedule' = [schedule EXCEPT ![k] = row] /\ watch' = watch
    BY DEF ClaimPriceWatchTargets, RowsOK
  <1>2. schedule[k] \in ScheduleRow
    BY <1>1, Columns
  <1>3. schedule[k].missed < Strikes
    BY <1>1 DEF Counted
  <1>4. /\ row \in ScheduleRow /\ row.missed = schedule[k].missed
        /\ row.price = schedule[k].price /\ row.availability = schedule[k].availability
    BY <1>2 DEF ScheduleRow
  <1> HIDE DEF row
  <1>5. watch' \in [Booking -> WatchRow \cup {None}]
    BY <1>1 DEF RowsOK
  <1> QED BY <1>1, <1>3, <1>4, <1>5, AnswerRows

LEMMA ObservedRows ==
    ASSUME RowsOK, Counted, job \in [Job -> Check \cup {None}], NEW j \in Job,
           NEW p \in Price, ApplyPriceWatchObservation(j, p)
    PROVE  RowStep /\ Active(watch)' \subseteq Active(watch)
  <1> DEFINE k == job[j].key
             polled == On(watch, k) \cap Active(watch)
             row == [Answered(schedule[k]) EXCEPT !.availability = "active", !.missed = 0,
                                                  !.price = p]
             up(t) == [t EXCEPT !.armed = TRUE, !.seen = p]
  <1>1. /\ job[j] # None /\ schedule[k] # None
        /\ schedule' = [schedule EXCEPT ![k] = row]
        /\ watch' = [b \in Booking |-> IF b \in polled THEN up(watch[b]) ELSE watch[b]]
    BY DEF ApplyPriceWatchObservation, Mine, RowsOK
  <1>2. k \in Key
    BY <1>1 DEF Check
  <1>3. /\ row \in ScheduleRow /\ row.missed = 0 /\ row.price = p
        /\ row.availability = "active"
    <2>1. schedule[k] \in ScheduleRow
      <3> HIDE DEF row, up, polled, k
      <3> QED BY <1>1, <1>2, Columns
    <2>2. 0 \in 0..Strikes
      BY Constants
    <2> QED BY <2>1, <2>2 DEF ScheduleRow, Answered
  <1>4. ASSUME NEW t \in WatchRow
        PROVE  /\ up(t) \in WatchRow /\ up(t).via = t.via /\ up(t).status = t.status
               /\ up(t).seen = p
    BY DEF WatchRow
  <1>5. \A b \in Booking : b \in polled <=>
           watch[b] # None /\ watch[b].status = "active" /\ KeyOf(b, watch[b]) = k
    BY DEF On, Active
  <1>6. \A b \in Booking : watch[b] # None => watch[b] \in WatchRow
    BY DEF RowsOK
  <1> HIDE DEF row, up, polled, k
  <1>7. /\ watch' \in [Booking -> WatchRow \cup {None}]
        /\ \A b \in Booking : b \in polled => watch'[b] = up(watch[b])
        /\ \A b \in Booking : b \notin polled => watch'[b] = watch[b]
    BY <1>1, <1>4, <1>5, <1>6 DEF RowsOK
  <1>8. \A b \in Booking : watch'[b] # None =>
           watch[b] # None /\ watch'[b].via = watch[b].via
    BY <1>4, <1>5, <1>6, <1>7
  <1>9. ASSUME NEW b \in Booking, watch'[b] # None, watch'[b].status = "active"
        PROVE  /\ watch[b].status = "active"
               /\ \/ /\ watch'[b] = watch[b]
                     /\ KeyOf(b, watch[b]) = k =>
                          /\ row.price = schedule[k].price
                          /\ row.availability = "unavailable" =>
                               schedule[k].availability = "unavailable"
                  \/ /\ KeyOf(b, watch[b]) = k
                     /\ watch'[b].seen = row.price /\ row.availability = "active"
    BY <1>3, <1>4, <1>5, <1>6, <1>7, <1>9
  <1>10. row.missed < Strikes
    BY <1>3, Constants
  <1>11. row.missed < Strikes \/ (row.availability = "unavailable" /\ row.token = None)
    BY <1>10
  <1>12. \A b \in Booking : watch'[b] # None /\ watch'[b].status = "active" =>
            /\ watch[b].status = "active"
            /\ \/ /\ watch'[b] = watch[b]
                  /\ KeyOf(b, watch[b]) = k =>
                       /\ row.price = schedule[k].price
                       /\ row.availability = "unavailable" =>
                            schedule[k].availability = "unavailable"
               \/ /\ KeyOf(b, watch[b]) = k
                  /\ watch'[b].seen = row.price /\ row.availability = "active"
    BY <1>9
  <1> QED BY <1>1, <1>2, <1>3, <1>7, <1>8, <1>11, <1>12, AnswerRows

LEMMA UnavailableRows ==
    ASSUME RowsOK, Counted, job \in [Job -> Check \cup {None}], NEW j \in Job,
           RecordPriceWatchUnavailable(j)
    PROVE  RowStep /\ Active(watch)' \subseteq Active(watch)
  <1> DEFINE k == job[j].key
             missed == schedule[k].missed + 1
             stopped == IF missed >= Strikes THEN On(watch, k) \cap Active(watch) ELSE {}
             row == [Answered(schedule[k]) EXCEPT !.missed = missed,
                        !.availability = IF missed >= Strikes THEN "unavailable" ELSE @]
  <1>1. /\ job[j] # None /\ schedule[k] # None /\ schedule[k].token = j
        /\ schedule' = [schedule EXCEPT ![k] = row]
        /\ watch' = Rested(stopped, "stopped", TRUE)
    BY DEF RecordPriceWatchUnavailable, Mine, RowsOK
  <1>2. k \in Key
    BY <1>1 DEF Check
  <1>3. schedule[k] \in ScheduleRow /\ schedule[k].missed \in 0..Strikes
    <2>1. schedule[k] \in ScheduleRow
      BY <1>1, <1>2, Columns
    <2> QED BY <2>1 DEF ScheduleRow
  <1>4. schedule[k].missed < Strikes
    BY <1>1, <1>2, Constants DEF Counted
  <1>5. missed \in 0..Strikes
    BY <1>3, <1>4, Constants
  <1>6. /\ row \in ScheduleRow /\ row.missed = missed /\ row.token = None
        /\ row.price = schedule[k].price
        /\ missed >= Strikes => row.availability = "unavailable"
        /\ ~(missed >= Strikes) => row.availability = schedule[k].availability
    <2> HIDE DEF missed
    <2> QED BY <1>3, <1>5 DEF ScheduleRow, Answered
  <1>7. \A b \in Booking : b \in stopped <=>
           /\ watch[b] # None /\ watch[b].status = "active" /\ KeyOf(b, watch[b]) = k
           /\ missed >= Strikes
    BY DEF On, Active
  <1>8. stopped \in SUBSET Booking
    BY DEF On
  <1> HIDE DEF row, stopped, k, missed
  <1>9. /\ watch' \in [Booking -> WatchRow \cup {None}]
        /\ \A b \in stopped : watch'[b].via = watch[b].via /\ watch'[b].status = "stopped"
        /\ \A b \in Booking \ stopped : watch'[b] = watch[b]
        /\ \A b \in Booking : watch'[b] # None => watch[b] # None
    BY <1>1, <1>7, <1>8, RestRows
  <1>10. \A b \in Booking : watch'[b] # None =>
            watch[b] # None /\ watch'[b].via = watch[b].via
    BY <1>9
  <1>11. ASSUME NEW b \in Booking, watch'[b] # None, watch'[b].status = "active"
         PROVE  /\ watch[b].status = "active" /\ watch'[b] = watch[b]
                /\ KeyOf(b, watch[b]) = k =>
                     /\ row.price = schedule[k].price
                     /\ row.availability = "unavailable" =>
                          schedule[k].availability = "unavailable"
    <2>1. b \notin stopped
      BY <1>9, <1>11
    <2>2. watch[b] # None /\ watch'[b] = watch[b] /\ watch[b].status = "active"
      BY <1>9, <1>11, <2>1
    <2> QED BY <1>6, <1>7, <2>1, <2>2
  <1>12. row.missed < Strikes \/ (row.availability = "unavailable" /\ row.token = None)
    BY <1>5, <1>6, Constants
  <1> QED BY <1>1, <1>2, <1>6, <1>9, <1>10, <1>11, <1>12, AnswerRows

LEMMA ErrorRows ==
    ASSUME RowsOK, Counted, job \in [Job -> Check \cup {None}], NEW j \in Job,
           RecordPriceWatchError(j)
    PROVE  RowStep /\ Active(watch)' \subseteq Active(watch)
  <1> DEFINE k == job[j].key
             row == [Answered(schedule[k]) EXCEPT !.missed = 0]
  <1>1. /\ job[j] # None /\ schedule[k] # None
        /\ schedule' = [schedule EXCEPT ![k] = row] /\ watch' = watch
    BY DEF RecordPriceWatchError, Mine, RowsOK
  <1>2. k \in Key
    BY <1>1 DEF Check
  <1>3. /\ row \in ScheduleRow /\ row.missed = 0 /\ row.price = schedule[k].price
        /\ row.availability = schedule[k].availability
    <2>1. schedule[k] \in ScheduleRow /\ 0 \in 0..Strikes
      BY <1>1, <1>2, Columns, Constants
    <2> QED BY <2>1 DEF ScheduleRow, Answered
  <1> HIDE DEF row, k
  <1>4. watch' \in [Booking -> WatchRow \cup {None}]
    BY <1>1 DEF RowsOK
  <1>5. row.missed < Strikes
    BY <1>3, Constants
  <1> QED BY <1>1, <1>2, <1>3, <1>4, <1>5, AnswerRows

-----------------------------------------------------------------------------
(* The steps *)

\* What TypeOK says of the other variables.
OtherOK ==
    /\ group \in [GroupOwner -> 0..MaxWorking]
    /\ limit \in [User -> Limit] /\ budget \in Budget \cup {SharedMaxRpm}
    /\ job \in [Job -> Check \cup {None}]
    /\ lock \in Hold \cup {None}
    /\ deleting \in Deletion \cup {None}
    /\ dropping \in [GroupOwner -> (SUBSET Key) \cup {None}]
    /\ owed \in [User -> BOOLEAN]

LEMMA TypeParts == TypeOK <=> RowsOK /\ OtherOK
  BY DEF TypeOK, RowsOK, OtherOK

\* No schedule gets a claim, no check begins and no watch becomes active.
Quiet ==
    /\ RowStep
    /\ Active(watch)' \subseteq Active(watch)
    /\ \A k \in Key : schedule'[k] # None =>
         \/ schedule'[k].token = None
         \/ schedule[k] # None /\ schedule'[k].token = schedule[k].token
    /\ \A j \in Job : job'[j] \in {job[j], None}
    /\ lock' \in {lock, None} /\ limit' = limit /\ owed' = owed

LEMMA QuietSame ==
    ASSUME RowsOK, Counted, UNCHANGED rows, \A j \in Job : job'[j] \in {job[j], None},
           lock' \in {lock, None}, limit' = limit, owed' = owed
    PROVE  Quiet
  <1>1. watch' = watch /\ schedule' = schedule
    BY DEF rows
  <1>2. RowStep
    BY SameRows
  <1>3. Active(watch)' \subseteq Active(watch)
    BY <1>1 DEF Active
  <1> QED BY <1>1, <1>2, <1>3 DEF Quiet

LEMMA QuietMember ==
    ASSUME RowsOK, Counted, NEW b \in Booking, NEW via \in Transport, NEW r \in Rate,
           updatePriceWatch(b, via, r)
    PROVE  Quiet
  <1>1. /\ RowStep /\ Active(watch)' = Active(watch)
        /\ \A k \in Key : schedule'[k] = schedule[k] \/ schedule'[k] = NewSchedule
    BY UpdateRows
  <1>2. job' = job /\ lock' = lock /\ limit' = limit /\ owed' = owed
    BY DEF updatePriceWatch
  <1> QED BY <1>1, <1>2 DEF Quiet, NewSchedule

LEMMA QuietPause ==
    ASSUME RowsOK, Counted, NEW u \in User, NEW bs, Pause(u, bs)
    PROVE  Quiet
  <1>1. /\ bs \subseteq Active(watch) /\ watch' = Rested(bs, "paused", FALSE)
        /\ UNCHANGED <<schedule, limit, job, lock, owed>>
    BY DEF Pause, ActiveOf
  <1>2. bs \in SUBSET Booking /\ \A b \in bs : watch[b] # None
    BY <1>1 DEF Active
  <1>3. RowStep /\ Active(watch)' \subseteq Active(watch)
    BY <1>1, <1>2, PauseRows
  <1> QED BY <1>1, <1>3 DEF Quiet

LEMMA QuietPolicy ==
    ASSUME RowsOK, Counted, NEW us \in SUBSET User, NEW ts, applyFeaturePolicyChanges(us, ts)
    PROVE  Quiet
  <1> DEFINE bs == Impact(us, ts)
  <1>1. /\ watch' = Rested(bs, "paused", TRUE)
        /\ UNCHANGED <<schedule, limit, job, lock, owed>>
    BY DEF applyFeaturePolicyChanges
  <1>2. bs \in SUBSET Booking /\ \A b \in bs : watch[b] # None
    BY DEF Impact, Active
  <1> HIDE DEF bs
  <1>3. RowStep /\ Active(watch)' \subseteq Active(watch)
    BY <1>1, <1>2, PauseRows
  <1> QED BY <1>1, <1>3 DEF Quiet

LEMMA QuietDelete ==
    ASSUME RowsOK, Counted, OtherOK, commitDelete
    PROVE  Quiet
  <1>1. deleting \in Deletion \cup {None}
    BY DEF OtherOK
  <1>2. RowStep /\ Active(watch)' \subseteq Active(watch)
    BY <1>1, DeleteRows
  <1>3. \A k \in Key : schedule'[k] # None => schedule'[k] = schedule[k]
    BY DEF commitDelete
  <1>4. UNCHANGED <<limit, job, lock, owed>>
    BY DEF commitDelete
  <1> QED BY <1>2, <1>3, <1>4 DEF Quiet

LEMMA QuietGroup ==
    ASSUME RowsOK, Counted, NEW u \in GroupOwner, commitDeleteGroup(u)
    PROVE  Quiet
  <1>1. RowStep /\ Active(watch)' \subseteq Active(watch)
    BY GroupRows
  <1>2. \A k \in Key : schedule'[k] # None =>
           \/ schedule[k] # None /\ schedule'[k] = schedule[k]
           \/ schedule'[k] = NewSchedule
    BY DEF commitDeleteGroup, rows, Upserted
  <1>3. UNCHANGED <<limit, job, lock, owed>>
    BY DEF commitDeleteGroup
  <1> QED BY <1>1, <1>2, <1>3 DEF Quiet, NewSchedule

LEMMA QuietAnswer ==
    ASSUME RowsOK, Counted, OtherOK, NEW j \in Job,
           \/ \E p \in Price : ApplyPriceWatchObservation(j, p)
           \/ RecordPriceWatchUnavailable(j) \/ RecordPriceWatchError(j)
    PROVE  Quiet
  <1> DEFINE k == job[j].key
  <1>1. job \in [Job -> Check \cup {None}]
    BY DEF OtherOK
  <1>2. RowStep /\ Active(watch)' \subseteq Active(watch)
    BY <1>1, ObservedRows, UnavailableRows, ErrorRows
  <1>3. /\ job[j] # None /\ schedule[k] # None /\ job' = [job EXCEPT ![j] = None]
        /\ UNCHANGED <<limit, lock, owed>>
    BY DEF ApplyPriceWatchObservation, RecordPriceWatchUnavailable, RecordPriceWatchError, Mine
  <1>4. k \in Key
    BY <1>1, <1>3 DEF Check
  <1>5. schedule[k] \in ScheduleRow
    BY <1>3, <1>4 DEF RowsOK
  <1> DEFINE s == Answered(schedule[k])
  <1>6. s \in ScheduleRow /\ s.token = None
    BY <1>5 DEF Answered, ScheduleRow
  <1>7. \E row : row.token = None /\ schedule' = [schedule EXCEPT ![k] = row]
    <2>1. CASE \E p \in Price : ApplyPriceWatchObservation(j, p)
      <3>1. PICK p \in Price : ApplyPriceWatchObservation(j, p)
        BY <2>1
      <3> DEFINE row == [s EXCEPT !.availability = "active", !.missed = 0, !.price = p]
      <3>2. schedule' = [schedule EXCEPT ![k] = row]
        BY <1>4, <3>1 DEF ApplyPriceWatchObservation, RowsOK
      <3> HIDE DEF s
      <3>3. row.token = None
        BY <1>6 DEF ScheduleRow
      <3> QED BY <3>2, <3>3
    <2>2. CASE RecordPriceWatchUnavailable(j)
      <3> DEFINE missed == schedule[k].missed + 1
                 row == [s EXCEPT !.missed = missed,
                           !.availability = IF missed >= Strikes THEN "unavailable" ELSE @]
      <3>1. schedule' = [schedule EXCEPT ![k] = row]
        BY <1>4, <2>2 DEF RecordPriceWatchUnavailable
      <3> HIDE DEF s, missed
      <3>2. row.token = None
        BY <1>6 DEF ScheduleRow
      <3> QED BY <3>1, <3>2
    <2>3. CASE RecordPriceWatchError(j)
      <3> DEFINE row == [s EXCEPT !.missed = 0]
      <3>1. schedule' = [schedule EXCEPT ![k] = row]
        BY <1>4, <2>3 DEF RecordPriceWatchError, RowsOK
      <3> HIDE DEF s
      <3>2. row.token = None
        BY <1>6 DEF ScheduleRow
      <3> QED BY <3>1, <3>2
    <2> QED BY <2>1, <2>2, <2>3
  <1> HIDE DEF k
  <1>8. schedule'[k].token = None /\ \A q \in Key \ {k} : schedule'[q] = schedule[q]
    BY <1>4, <1>7 DEF RowsOK
  <1>9. \A i \in Job : job'[i] \in {job[i], None}
    BY <1>1, <1>3
  <1> QED BY <1>2, <1>3, <1>8, <1>9 DEF Quiet

\* A step starts watches, admits, lowers a limit, reconciles, claims, or is quiet.
LEMMA Steps ==
    ASSUME RowsOK, Counted, OtherOK, [Next]_vars
    PROVE  \/ \E w, bs : Starts(w, bs)
           \/ \E u \in User : Admit(u) \/ reconcilePriceWatchLimits(u)
           \/ \E us \in SUBSET User, n \in Limit : setPriceWatchLimit(us, n)
           \/ \E j \in Job, k \in Key : ClaimPriceWatchTargets(j, k)
           \/ Quiet
  <1>1. CASE UNCHANGED vars
    BY <1>1, QuietSame DEF vars
  <1>2. ASSUME NEW u \in User, startAllPriceWatches(u) PROVE \E w, bs : Starts(w, bs)
    BY <1>2, AllStarts
  <1>3. ASSUME NEW u \in User, stopAllPriceWatches(u) PROVE Quiet
    BY <1>3, QuietPause DEF stopAllPriceWatches
  <1>4. CASE Refuse
    BY <1>4, QuietSame DEF Refuse
  <1>5. ASSUME NEW us \in SUBSET User, NEW n \in Limit, setGlobalPriceWatchLimit(us, n)
        PROVE  setPriceWatchLimit(us, n)
    BY <1>5 DEF setGlobalPriceWatchLimit
  <1>6. ASSUME NEW us \in SUBSET User, NEW ts, applyFeaturePolicyChanges(us, ts)
        PROVE  Quiet
    BY <1>6, QuietPolicy
  <1>7. ASSUME NEW u \in User, NEW n \in Limit, setUserPriceWatchLimit(u, n)
        PROVE  \E us \in SUBSET User : setPriceWatchLimit(us, n)
    BY <1>7 DEF setUserPriceWatchLimit
  <1>8. ASSUME NEW rpm \in Budget, updatePriceWatchRuntimeSettings(rpm) PROVE Quiet
    BY <1>8, QuietSame DEF updatePriceWatchRuntimeSettings
  <1>9. ASSUME NEW b \in Booking, NEW via \in Transport, NEW r \in Rate,
               createPriceWatch(b, via, r) \/ updatePriceWatch(b, via, r)
        PROVE  Quiet \/ \E w, bs : Starts(w, bs)
    BY <1>9, CreateStarts, QuietMember
  <1>10. ASSUME NEW b \in Booking,
                \/ resumePriceWatch(b) \/ resumeFromExtension(b) \/ pausePriceWatch(b)
                \/ pauseFromExtension(b) \/ deletePriceWatch(b) \/ deleteExtensionPriceWatch(b)
         PROVE  Quiet \/ \E w, bs : Starts(w, bs)
    <2>1. CASE resumePriceWatch(b) \/ resumeFromExtension(b)
      BY <2>1, ResumeStarts
    <2>2. CASE pausePriceWatch(b) \/ pauseFromExtension(b)
      BY <2>2, Keys, QuietPause DEF pausePriceWatch, pauseFromExtension
    <2>3. CASE deletePriceWatch(b) \/ deleteExtensionPriceWatch(b)
      BY <2>3, QuietSame DEF deletePriceWatch, deleteExtensionPriceWatch
    <2> QED BY <1>10, <2>1, <2>2, <2>3
  <1>11. CASE commitDelete
    BY <1>11, QuietDelete
  <1>12. CASE failDelete
    BY <1>12, QuietSame DEF failDelete
  <1>13. ASSUME NEW u \in GroupOwner,
                \/ updateProxyGroup(u) \/ startProxyGroupCheck(u)
                \/ \E n \in 0..MaxWorking : completeProxyCheck(u, n)
                \/ deleteProxyGroup(u) \/ commitDeleteGroup(u)
         PROVE  Quiet
    <2>1. CASE \/ updateProxyGroup(u) \/ startProxyGroupCheck(u)
               \/ \E n \in 0..MaxWorking : completeProxyCheck(u, n)
      BY <2>1, QuietSame DEF updateProxyGroup, startProxyGroupCheck, completeProxyCheck, Regroup
    <2>2. CASE deleteProxyGroup(u)
      BY <2>2, QuietSame DEF deleteProxyGroup
    <2>3. CASE commitDeleteGroup(u)
      BY <2>3, QuietGroup
    <2> QED BY <1>13, <2>1, <2>2, <2>3
  <1>14. ASSUME NEW j \in Job, NEW p \in Price, ApplyPriceWatchObservation(j, p)
         PROVE  Quiet
    BY <1>14, QuietAnswer
  <1>15. ASSUME NEW j \in Job, RecordPriceWatchUnavailable(j) \/ RecordPriceWatchError(j)
         PROVE  Quiet
    BY <1>15, QuietAnswer
  <1>16. ASSUME NEW j \in Job, DropResult(j)
         PROVE  Quiet
    <2>1. \A i \in Job : job'[i] \in {job[i], None}
      BY <1>16 DEF DropResult, OtherOK
    <2> QED BY <1>16, <2>1, QuietSame DEF DropResult
  <1> QED BY <1>1, <1>2, <1>3, <1>4, <1>5, <1>6, <1>7, <1>8, <1>9, <1>10, <1>11, <1>12,
             <1>13, <1>14, <1>15, <1>16 DEF Next

\* Who starts watches had the locks; the watches are his, as many as he has room for.
LEMMA StartsEffect ==
    ASSUME RowsOK, Counted, NEW w, NEW bs, Starts(w, bs)
    PROVE  /\ RowStep
           /\ \A b \in Booking : watch'[b] # None /\ watch'[b].status = "active" =>
                 b \in Active(watch) \/ (b \in bs /\ b[1] = lock.user)
           /\ bs \subseteq Booking /\ \A b \in bs : b[1] = lock.user
           /\ Cardinality(bs) <= lock.room
           /\ lock # None /\ lock' = None
           /\ UNCHANGED <<group, limit, budget, deleting, dropping, owed>>
           /\ \E ks : /\ Overtake(ks)
                      /\ \A k \in Key : k \in ks =>
                            schedule'[k] # None /\ schedule'[k].token = None
                      /\ \A k \in Key : k \notin ks => schedule'[k] = schedule[k]
  <1>1. Activate(w, bs) /\ bs \in SUBSET Booking /\ lock # None
    BY DEF Starts
  <1>2. /\ RowStep
        /\ \A b \in Booking : watch'[b] # None /\ watch'[b].status = "active" =>
              b \in bs \/ b \in Active(watch)
        /\ \A k \in Key : (\E b \in bs : k = KeyOf(b, w[b])) =>
              schedule'[k] # None /\ schedule'[k].token = None
        /\ \A k \in Key : (\A b \in bs : k # KeyOf(b, w[b])) => schedule'[k] = schedule[k]
    BY ActivateRows DEF Starts
  <1>3. \A b \in bs : b[1] = lock.user
    BY DEF Starts
  <1> DEFINE ks == {KeyOf(b, w[b]) : b \in bs}
  <1>4. /\ Overtake(ks) /\ Cardinality(bs) <= lock.room /\ lock' = None
        /\ UNCHANGED <<group, limit, budget, deleting, dropping, owed>>
    BY <1>1 DEF Activate
  <1>5. /\ \A k \in Key : k \in ks => schedule'[k] # None /\ schedule'[k].token = None
        /\ \A k \in Key : k \notin ks => schedule'[k] = schedule[k]
    BY <1>2
  <1> HIDE DEF ks
  <1> QED BY <1>1, <1>2, <1>3, <1>4, <1>5

-----------------------------------------------------------------------------
(* The types *)

LEMMA MinOfTwo ==
    ASSUME NEW a \in Nat, NEW b \in Nat
    PROVE  Min({a, b}) = IF a <= b THEN a ELSE b
  <1>1. CASE a <= b
    <2>1. \A x \in {a, b} : (\A y \in {a, b} : x <= y) <=> x = a
      BY <1>1
    <2> QED BY <1>1, <2>1 DEF Min
  <1>2. CASE ~(a <= b)
    <2>1. \A x \in {a, b} : (\A y \in {a, b} : x <= y) <=> x = b
      BY <1>2
    <2> QED BY <1>2, <2>1 DEF Min
  <1> QED BY <1>1, <1>2

LEMMA FiniteActive ==
    ASSUME NEW w, NEW u
    PROVE  /\ IsFiniteSet(Active(w)) /\ Cardinality(Active(w)) \in Nat
           /\ IsFiniteSet({b \in Active(w) : b[1] = u})
           /\ Cardinality({b \in Active(w) : b[1] = u}) \in Nat
  <1>1. IsFiniteSet(Booking) /\ Active(w) \subseteq Booking
    BY PriceWatchAssumption DEF PriceWatchAssumption, Active
  <1>2. IsFiniteSet(Active(w))
    BY <1>1, FS_Subset
  <1>3. IsFiniteSet({b \in Active(w) : b[1] = u})
    BY <1>2, FS_Subset
  <1> QED BY <1>2, <1>3, FS_CardinalityType

LEMMA SlotsFree ==
    ASSUME OtherOK, NEW u \in User
    PROVE  /\ Slots(u) \in Nat
           /\ Slots(u) > 0 => Cardinality(ActiveOf(u)) + Slots(u) = limit[u]
  <1>1. limit[u] \in Nat
    BY PriceWatchAssumption DEF PriceWatchAssumption, OtherOK
  <1>2. Cardinality(ActiveOf(u)) \in Nat
    BY FiniteActive DEF ActiveOf
  <1> QED BY <1>1, <1>2, MinOfTwo DEF Slots

LEMMA OvertakeType ==
    ASSUME OtherOK, NEW ks, Overtake(ks)
    PROVE  /\ job' \in [Job -> Check \cup {None}]
           /\ \A j \in Job : job[j] = None => job'[j] = None
           /\ \A j \in Job : job[j] # None =>
                /\ job'[j] # None /\ job'[j].key = job[j].key
                /\ job[j].key \notin ks => job'[j] = job[j]
  <1>1. \A j \in Job : job[j] # None => job[j] \in Check
    BY DEF OtherOK
  <1>2. ASSUME NEW c \in Check
        PROVE  [c EXCEPT !.late = TRUE] \in Check /\ [c EXCEPT !.late = TRUE].key = c.key
    BY DEF Check
  <1>3. \A j \in Job : job'[j] = IF job[j] # None /\ job[j].key \in ks
                                 THEN [job[j] EXCEPT !.late = TRUE] ELSE job[j]
    BY DEF Overtake
  <1>4. \A j \in Job : job'[j] \in Check \cup {None}
    BY <1>1, <1>2, <1>3
  <1>5. job' = [j \in Job |-> job'[j]]
    BY DEF Overtake
  <1>6. job' \in [Job -> Check \cup {None}]
    BY <1>4, <1>5
  <1>7. \A j \in Job : job[j] = None => job'[j] = None
    BY <1>3
  <1>8. \A j \in Job : job[j] # None => job'[j] # None /\ job'[j].key = job[j].key
    BY <1>1, <1>2, <1>3, Constants
  <1>9. \A j \in Job : job[j] # None /\ job[j].key \notin ks => job'[j] = job[j]
    BY <1>3
  <1> QED BY <1>6, <1>7, <1>8, <1>9

LEMMA NextOthers ==
    ASSUME RowsOK, Counted, OtherOK, [Next]_vars
    PROVE  OtherOK'
  <1> USE DEF OtherOK
  <1>1. CASE UNCHANGED vars
    BY <1>1 DEF vars
  <1>2. ASSUME NEW w, NEW bs, Starts(w, bs) PROVE OtherOK'
    <2>1. PICK ks : Overtake(ks)
      BY <1>2, StartsEffect
    <2>2. job' \in [Job -> Check \cup {None}]
      BY <2>1, OvertakeType
    <2>3. lock' = None /\ UNCHANGED <<group, limit, budget, deleting, dropping, owed>>
      BY <1>2, StartsEffect
    <2> QED BY <2>2, <2>3
  <1>3. ASSUME NEW u \in User,
               Admit(u) \/ startAllPriceWatches(u) \/ stopAllPriceWatches(u)
               \/ reconcilePriceWatchLimits(u)
        PROVE  OtherOK'
    <2>1. CASE Admit(u)
      <3>1. [user |-> u, room |-> Slots(u)] \in Hold
        BY SlotsFree DEF Hold
      <3> QED BY <2>1, <3>1 DEF Admit
    <2>2. CASE startAllPriceWatches(u)
      BY <1>2, <2>2, AllStarts
    <2>3. CASE stopAllPriceWatches(u)
      BY <2>3 DEF stopAllPriceWatches, Pause
    <2>4. CASE reconcilePriceWatchLimits(u)
      <3>1. PICK a \in BOOLEAN : a = (owed[u] /\ lock # None /\ lock.user = u)
        OBVIOUS
      <3>2. owed' = [owed EXCEPT ![u] = a]
        BY <2>4, <3>1 DEF reconcilePriceWatchLimits
      <3>3. UNCHANGED <<group, limit, budget, job, lock, deleting, dropping>>
        BY <2>4 DEF reconcilePriceWatchLimits
      <3> QED BY <3>2, <3>3
    <2> QED BY <1>3, <2>1, <2>2, <2>3, <2>4
  <1>4. CASE Refuse
    BY <1>4 DEF Refuse
  <1>5. ASSUME NEW us, NEW n \in Limit, setPriceWatchLimit(us, n) PROVE OtherOK'
    <2>1. limit' \in [User -> Limit]
      BY <1>5 DEF setPriceWatchLimit
    <2>2. owed' \in [User -> BOOLEAN]
      <3>1. \A u \in User : (owed[u] \/ (u \in us /\ n < limit[u])) \in BOOLEAN
        OBVIOUS
      <3>2. owed' = [u \in User |-> owed[u] \/ (u \in us /\ n < limit[u])]
        BY <1>5 DEF setPriceWatchLimit
      <3> QED BY <3>2
    <2>3. UNCHANGED <<group, budget, job, lock, deleting, dropping>>
      BY <1>5 DEF setPriceWatchLimit
    <2> QED BY <2>1, <2>2, <2>3
  <1>6. ASSUME NEW us, NEW ts, applyFeaturePolicyChanges(us, ts) PROVE OtherOK'
    BY <1>6 DEF applyFeaturePolicyChanges
  <1>7. ASSUME NEW rpm \in Budget, updatePriceWatchRuntimeSettings(rpm) PROVE OtherOK'
    BY <1>7 DEF updatePriceWatchRuntimeSettings
  <1>8. ASSUME NEW b \in Booking, NEW via \in Transport, NEW r \in Rate,
               createPriceWatch(b, via, r) \/ updatePriceWatch(b, via, r)
        PROVE  OtherOK'
    <2>1. CASE createPriceWatch(b, via, r)
      BY <1>2, <2>1, CreateStarts
    <2>2. CASE updatePriceWatch(b, via, r)
      BY <2>2 DEF updatePriceWatch
    <2> QED BY <1>8, <2>1, <2>2
  <1>9. ASSUME NEW b \in Booking,
               \/ resumePriceWatch(b) \/ resumeFromExtension(b) \/ pausePriceWatch(b)
               \/ pauseFromExtension(b) \/ deletePriceWatch(b) \/ deleteExtensionPriceWatch(b)
        PROVE  OtherOK'
    <2>1. CASE resumePriceWatch(b) \/ resumeFromExtension(b)
      BY <1>2, <2>1, ResumeStarts
    <2>2. CASE pausePriceWatch(b) \/ pauseFromExtension(b)
      BY <2>2 DEF pausePriceWatch, pauseFromExtension, Pause
    <2>3. CASE deletePriceWatch(b) \/ deleteExtensionPriceWatch(b)
      <3>1. PICK l \in BOOLEAN, m \in BOOLEAN :
               /\ l = (On(watch, KeyOf(b, watch[b])) = {b})
               /\ m = ({c \in Booking : c[2] = b[2] /\ watch[c] # None} = {b})
        OBVIOUS
      <3>2. deleting' = [of |-> b, last |-> l, lastOfItem |-> m]
        BY <2>3, <3>1 DEF deletePriceWatch, deleteExtensionPriceWatch
      <3>3. deleting' \in Deletion
        BY <3>2 DEF Deletion
      <3>4. UNCHANGED <<group, limit, budget, job, lock, dropping, owed>>
        BY <2>3 DEF deletePriceWatch, deleteExtensionPriceWatch
      <3> QED BY <3>3, <3>4
    <2> QED BY <1>9, <2>1, <2>2, <2>3
  <1>10. CASE commitDelete \/ failDelete
    BY <1>10 DEF commitDelete, failDelete
  <1>11. ASSUME NEW u \in GroupOwner,
                \/ updateProxyGroup(u) \/ startProxyGroupCheck(u)
                \/ \E n \in 0..MaxWorking : completeProxyCheck(u, n)
                \/ deleteProxyGroup(u) \/ commitDeleteGroup(u)
         PROVE  OtherOK'
    <2>1. 0 \in 0..MaxWorking
      BY PriceWatchAssumption DEF PriceWatchAssumption
    <2>2. CASE \/ updateProxyGroup(u) \/ startProxyGroupCheck(u)
               \/ \E n \in 0..MaxWorking : completeProxyCheck(u, n)
      BY <2>1, <2>2 DEF updateProxyGroup, startProxyGroupCheck, completeProxyCheck, Regroup
    <2>3. CASE deleteProxyGroup(u)
      BY <2>3 DEF deleteProxyGroup, SchedulesOf
    <2>4. CASE commitDeleteGroup(u)
      <3>1. group' \in [GroupOwner -> 0..MaxWorking]
        BY <2>1, <2>4 DEF commitDeleteGroup
      <3>2. dropping' = [dropping EXCEPT ![u] = None]
        BY <2>4 DEF commitDeleteGroup
      <3>3. UNCHANGED <<limit, budget, job, lock, deleting, owed>>
        BY <2>4 DEF commitDeleteGroup
      <3>4. dropping' \in [GroupOwner -> (SUBSET Key) \cup {None}]
        BY <3>2
      <3> QED BY <3>1, <3>3, <3>4
    <2> QED BY <1>11, <2>2, <2>3, <2>4
  <1>12. ASSUME NEW j \in Job, NEW k \in Key, ClaimPriceWatchTargets(j, k) PROVE OtherOK'
    BY <1>12 DEF ClaimPriceWatchTargets, Check
  <1>13. ASSUME NEW j \in Job, NEW p \in Price, ApplyPriceWatchObservation(j, p)
         PROVE  OtherOK'
    BY <1>13 DEF ApplyPriceWatchObservation
  <1>14. ASSUME NEW j \in Job, RecordPriceWatchUnavailable(j) PROVE OtherOK'
    BY <1>14 DEF RecordPriceWatchUnavailable
  <1>15. ASSUME NEW j \in Job, RecordPriceWatchError(j) \/ DropResult(j) PROVE OtherOK'
    BY <1>15 DEF RecordPriceWatchError, DropResult
  <1> HIDE DEF OtherOK
  <1> QED BY <1>1, <1>3, <1>4, <1>5, <1>6, <1>7, <1>8, <1>9, <1>10, <1>11, <1>12, <1>13,
             <1>14, <1>15 DEF Next, setGlobalPriceWatchLimit, setUserPriceWatchLimit

LEMMA NextRows ==
    ASSUME RowsOK, Counted, OtherOK, [Next]_vars
    PROVE  RowStep
  <1>1. ASSUME NEW w, NEW bs, Starts(w, bs) PROVE RowStep
    BY <1>1, StartsEffect
  <1>2. ASSUME NEW u \in User, Admit(u) PROVE RowStep
    BY <1>2, SameRows DEF Admit
  <1>3. ASSUME NEW u \in User, reconcilePriceWatchLimits(u) PROVE RowStep
    <2>1. PICK bs \in SUBSET ActiveOf(u) : watch' = Rested(bs, "paused", TRUE) /\ UNCHANGED schedule
      BY <1>3 DEF reconcilePriceWatchLimits
    <2>2. bs \in SUBSET Booking /\ \A b \in bs : watch[b] # None
      BY DEF ActiveOf, Active
    <2> QED BY <2>1, <2>2, PauseRows
  <1>4. ASSUME NEW us, NEW n \in Limit, setPriceWatchLimit(us, n) PROVE RowStep
    BY <1>4, SameRows DEF setPriceWatchLimit
  <1>5. ASSUME NEW j \in Job, NEW k \in Key, ClaimPriceWatchTargets(j, k) PROVE RowStep
    BY <1>5, ClaimRows
  <1> QED BY <1>1, <1>2, <1>3, <1>4, <1>5, Steps DEF Quiet

LEMMA InitTypes == ASSUME Init PROVE RowsOK /\ Counted /\ OtherOK
  <1>1. RowsOK /\ Counted
    BY DEF Init, RowsOK, Counted
  <1>2. group \in [GroupOwner -> 0..MaxWorking]
    BY PriceWatchAssumption DEF PriceWatchAssumption, Init
  <1>3. /\ limit \in [User -> Limit] /\ budget \in Budget \cup {SharedMaxRpm}
        /\ job \in [Job -> Check \cup {None}]
        /\ lock \in Hold \cup {None}
        /\ deleting \in Deletion \cup {None}
        /\ owed \in [User -> BOOLEAN]
    BY DEF Init
  <1>4. dropping \in [GroupOwner -> (SUBSET Key) \cup {None}]
    BY DEF Init
  <1> QED BY <1>1, <1>2, <1>3, <1>4 DEF OtherOK

Types == RowsOK /\ Counted /\ OtherOK

LEMMA NextTypes == Types /\ [Next]_vars => Types'
  BY NextRows, NextOthers DEF Types, RowStep

LEMMA AlwaysTypes == Spec => []Types
  <1>1. Init => Types
    BY InitTypes DEF Types
  <1> QED BY <1>1, NextTypes, PTL DEF Spec

\* The tables keep their columns' types, a watch never references a schedule
\* that is gone or another member's group, whatever deletions overlap it
\* (deletePriceWatch, deleteProxyGroup), and no schedule outlives its strikes.
THEOREM PriceTypes == Spec => []TypeOK
  <1>1. Types => TypeOK
    BY TypeParts DEF Types
  <1> QED BY <1>1, AlwaysTypes, PTL

-----------------------------------------------------------------------------
(* What a drop is measured from, and what an active watch rests on *)

LEMMA Subscribed ==
    ASSUME NEW k, NEW b
    PROVE  b \in Subscribers(k) <=>
             /\ b \in Booking /\ watch[b] # None /\ watch[b].status = "active"
             /\ KeyOf(b, watch[b]) = k /\ watch[b].armed
  BY DEF Subscribers, On, Active

\* Every subscriber of an active watch's schedule saw the price it carries.
THEOREM DropWasSeenHolds == Spec => []DropWasSeen
  <1>1. Init => DropWasSeen
    BY DEF Init, DropWasSeen, Subscribers, On
  <1>2. Types /\ DropWasSeen /\ [Next]_vars => DropWasSeen'
    <2> SUFFICES ASSUME Types, DropWasSeen, [Next]_vars, NEW k \in Key,
                        NEW b \in Subscribers(k)'
                 PROVE  watch'[b].seen = schedule'[k].price
      BY DEF DropWasSeen
    <2>1. /\ b \in Booking /\ watch'[b] # None /\ watch'[b].status = "active"
          /\ KeyOf(b, watch'[b]) = k /\ watch'[b].armed
      BY DEF Subscribers, On, Active, KeyOf
    <2>2. Stays(b) \/ Sees(b)
      BY <2>1, NextRows DEF Types, RowStep, Traced, Begins, Moves
    <2>3. CASE Sees(b)
      BY <2>1, <2>3 DEF Sees
    <2>4. CASE Stays(b)
      <3>1. /\ watch[b] # None /\ watch[b].status = "active" /\ watch[b].armed
            /\ KeyOf(b, watch[b]) = k /\ watch'[b].seen = watch[b].seen
            /\ schedule'[k].price = schedule[k].price
        BY <2>1, <2>4 DEF Stays, KeyOf
      <3>2. b \in Subscribers(k)
        BY <2>1, <3>1, Subscribed
      <3> QED BY <3>1, <3>2 DEF DropWasSeen
    <2> QED BY <2>2, <2>3, <2>4
  <1> QED BY <1>1, <1>2, AlwaysTypes, PTL DEF Spec

\* An active watch that was not moved rests on a schedule that is polled.
THEOREM ActiveIsPolledHolds == Spec => []ActiveIsPolled
  <1>1. Init => ActiveIsPolled
    BY DEF Init, ActiveIsPolled, Active
  <1>2. Types /\ ActiveIsPolled /\ [Next]_vars => ActiveIsPolled'
    <2> SUFFICES ASSUME Types, ActiveIsPolled, [Next]_vars, NEW b \in Booking,
                        watch'[b] # None, watch'[b].status = "active", ~watch'[b].moved
                 PROVE  schedule'[KeyOf(b, watch'[b])].availability # "unavailable"
      BY DEF ActiveIsPolled, Active, KeyOf
    <2>1. Stays(b) \/ Begins(b) \/ Sees(b)
      BY NextRows DEF Types, RowStep, Traced, Moves
    <2>2. CASE Stays(b)
      <3>1. b \in Active(watch) /\ ~watch[b].moved
        BY <2>2 DEF Stays, Active
      <3> QED BY <2>2, <3>1 DEF Stays, ActiveIsPolled
    <2> QED BY <2>1, <2>2 DEF Begins, Sees
  <1> QED BY <1>1, <1>2, AlwaysTypes, PTL DEF Spec

-----------------------------------------------------------------------------
(* Late results *)

\* A check that an activation overtook has lost its claim.
LateLost ==
    \A j \in Job : job[j] # None /\ job[j].late => ~Mine(j)

LEMMA NextLate ==
    ASSUME Types, LateLost, [Next]_vars PROVE LateLost'
  <1> SUFFICES ASSUME NEW j \in Job, job'[j] # None, job'[j].late,
                      schedule'[job'[j].key] # None, schedule'[job'[j].key].token = j
               PROVE  FALSE
    BY DEF LateLost, Mine
  <1>1. /\ job \in [Job -> Check \cup {None}]
        /\ job' \in [Job -> Check \cup {None}]
    BY NextTypes DEF Types, OtherOK
  <1>2. job'[j].key \in Key
    BY <1>1 DEF Check
  <1>3. j # None
    BY Constants
  <1>4. ASSUME job'[j] = job[j],
               schedule[job'[j].key] # None, schedule'[job'[j].key].token = schedule[job'[j].key].token
        PROVE  FALSE
    BY <1>4 DEF LateLost, Mine
  <1>5. ASSUME NEW w, NEW bs, Starts(w, bs) PROVE FALSE
    <2>1. PICK ks : /\ Overtake(ks)
                    /\ \A k \in Key : k \in ks =>
                          schedule'[k] # None /\ schedule'[k].token = None
                    /\ \A k \in Key : k \notin ks => schedule'[k] = schedule[k]
      BY <1>5, StartsEffect DEF Types
    <2>2. job[j] # None /\ job'[j].key = job[j].key /\ (job[j].key \notin ks => job'[j] = job[j])
      BY <2>1, OvertakeType DEF Types
    <2> QED BY <1>2, <1>3, <1>4, <2>1, <2>2
  <1>6. ASSUME UNCHANGED <<job, schedule>> PROVE FALSE
    BY <1>4, <1>6
  <1>7. ASSUME NEW i \in Job, NEW k \in Key, ClaimPriceWatchTargets(i, k) PROVE FALSE
    <2>1. /\ job' = [job EXCEPT ![i] = [key |-> k, late |-> FALSE]]
          /\ schedule[k] # None /\ schedule' = [schedule EXCEPT ![k].token = i]
      BY <1>7 DEF ClaimPriceWatchTargets
    <2>2. j # i /\ job'[j] = job[j]
      BY <1>1, <2>1
    <2>3. schedule[k] \in ScheduleRow /\ schedule'[k].token = i
      <3>1. schedule[k] \in ScheduleRow
        BY <2>1 DEF Types, RowsOK
      <3>2. schedule'[k] = [schedule[k] EXCEPT !.token = i]
        BY <2>1 DEF Types, RowsOK
      <3> QED BY <3>1, <3>2 DEF ScheduleRow
    <2>4. job'[j].key # k
      BY <2>2, <2>3
    <2>5. schedule'[job'[j].key] = schedule[job'[j].key]
      BY <1>2, <2>1, <2>4 DEF Types, RowsOK
    <2> QED BY <1>4, <2>2, <2>5
  <1>8. CASE Quiet
    <2>1. job'[j] = job[j]
      BY <1>8 DEF Quiet
    <2> QED BY <1>2, <1>3, <1>4, <1>8, <2>1 DEF Quiet
  <1>9. ASSUME NEW u \in User, Admit(u) \/ reconcilePriceWatchLimits(u) PROVE FALSE
    BY <1>6, <1>9 DEF Admit, reconcilePriceWatchLimits, rows
  <1>10. ASSUME NEW us, NEW n \in Limit, setPriceWatchLimit(us, n) PROVE FALSE
    BY <1>6, <1>10 DEF setPriceWatchLimit, rows
  <1> QED BY <1>5, <1>7, <1>8, <1>9, <1>10, Steps DEF Types

LEMMA AlwaysLate == Spec => [](Types /\ LateLost)
  <1>1. Init => LateLost
    BY DEF Init, LateLost
  <1>2. Types /\ LateLost /\ [Next]_vars => LateLost'
    BY NextLate
  <1> QED BY <1>1, <1>2, AlwaysTypes, PTL DEF Spec

\* A check ends with its claim, or leaves the tables as they were.
LEMMA ChecksEnd ==
    ASSUME Types, [Next]_vars, NEW j \in Job, job[j] # None, job'[j] = None, ~Mine(j)
    PROVE  UNCHANGED rows
  <1>1. job \in [Job -> Check \cup {None}]
    BY DEF Types, OtherOK
  <1>2. job' # job
    OBVIOUS
  <1>3. ASSUME NEW w, NEW bs, Starts(w, bs) PROVE FALSE
    <2>1. PICK ks : Overtake(ks)
      BY <1>3, StartsEffect DEF Types
    <2> QED BY <2>1, OvertakeType DEF Types
  <1>4. ASSUME NEW u \in User,
               Admit(u) \/ startAllPriceWatches(u) \/ stopAllPriceWatches(u)
               \/ reconcilePriceWatchLimits(u)
        PROVE  FALSE
    BY <1>2, <1>3, <1>4, AllStarts
       DEF Types, Admit, stopAllPriceWatches, Pause, reconcilePriceWatchLimits
  <1>5. ASSUME NEW us, NEW n, setPriceWatchLimit(us, n) PROVE FALSE
    BY <1>2, <1>5 DEF setPriceWatchLimit
  <1>6. ASSUME NEW us, NEW ts, applyFeaturePolicyChanges(us, ts) PROVE FALSE
    BY <1>2, <1>6 DEF applyFeaturePolicyChanges
  <1>7. ASSUME NEW b \in Booking, NEW via \in Transport, NEW r \in Rate,
               createPriceWatch(b, via, r) \/ updatePriceWatch(b, via, r)
        PROVE  FALSE
    BY <1>2, <1>3, <1>7, CreateStarts DEF Types, updatePriceWatch
  <1>8. ASSUME NEW b \in Booking,
               \/ resumePriceWatch(b) \/ resumeFromExtension(b) \/ pausePriceWatch(b)
               \/ pauseFromExtension(b) \/ deletePriceWatch(b) \/ deleteExtensionPriceWatch(b)
        PROVE  FALSE
    BY <1>2, <1>3, <1>8, ResumeStarts
       DEF Types, pausePriceWatch, pauseFromExtension, Pause, deletePriceWatch,
           deleteExtensionPriceWatch
  <1>9. ASSUME NEW u \in GroupOwner,
               \/ updateProxyGroup(u) \/ startProxyGroupCheck(u)
               \/ \E n \in 0..MaxWorking : completeProxyCheck(u, n)
               \/ deleteProxyGroup(u) \/ commitDeleteGroup(u)
        PROVE  FALSE
    BY <1>2, <1>9 DEF updateProxyGroup, startProxyGroupCheck, completeProxyCheck, Regroup,
                      deleteProxyGroup, commitDeleteGroup
  <1>10. ASSUME NEW i \in Job, NEW k \in Key, ClaimPriceWatchTargets(i, k) PROVE FALSE
    <2>1. job[i] = None /\ job' = [job EXCEPT ![i] = [key |-> k, late |-> FALSE]]
      BY <1>10 DEF ClaimPriceWatchTargets
    <2> QED BY <1>1, <2>1
  <1>11. ASSUME NEW i \in Job,
                \/ \E p \in Price : ApplyPriceWatchObservation(i, p)
                \/ RecordPriceWatchUnavailable(i) \/ RecordPriceWatchError(i)
         PROVE  FALSE
    <2>1. Mine(i) /\ job' = [job EXCEPT ![i] = None]
      BY <1>11 DEF ApplyPriceWatchObservation, RecordPriceWatchUnavailable,
                   RecordPriceWatchError
    <2> QED BY <1>1, <2>1
  <1>12. ASSUME NEW i \in Job, DropResult(i) PROVE UNCHANGED rows
    BY <1>12 DEF DropResult
  <1>13. CASE UNCHANGED vars
    BY <1>13 DEF vars
  <1>14. ASSUME Refuse \/ commitDelete \/ failDelete
                \/ \E rpm \in Budget : updatePriceWatchRuntimeSettings(rpm)
         PROVE  FALSE
    BY <1>2, <1>14 DEF Refuse, commitDelete, failDelete, updatePriceWatchRuntimeSettings
  <1> QED BY <1>4, <1>5, <1>6, <1>7, <1>8, <1>9, <1>10, <1>11, <1>12, <1>13, <1>14
          DEF Next, setGlobalPriceWatchLimit, setUserPriceWatchLimit

\* The result of a check that an activation overtook changes neither table.
THEOREM LateResultHolds == Spec => LateResultIgnored
  <1>1. Types /\ LateLost /\ [Next]_vars
          => [\A j \in Job : job[j] # None /\ job[j].late /\ job'[j] = None
                => UNCHANGED rows]_vars
    BY ChecksEnd DEF LateLost
  <1> QED BY <1>1, AlwaysLate, PTL DEF Spec, LateResultIgnored

-----------------------------------------------------------------------------
(* The limit *)

\* Who was admitted has a slot for every watch he may activate.
Room(u) == IF lock # None /\ lock.user = u THEN lock.room ELSE 0

RoomKept ==
    \A u \in User : ~owed[u] => Cardinality(ActiveOf(u)) + Room(u) <= limit[u]

LEMMA RoomType ==
    ASSUME OtherOK, NEW u
    PROVE  Room(u) \in Nat /\ Cardinality(ActiveOf(u)) \in Nat /\ IsFiniteSet(ActiveOf(u))
  BY FiniteActive DEF OtherOK, Hold, Room, ActiveOf

LEMMA LimitType ==
    ASSUME OtherOK, NEW u \in User PROVE limit[u] \in Nat
  BY PriceWatchAssumption DEF PriceWatchAssumption, OtherOK

LEMMA FewerActive ==
    ASSUME NEW u, NEW bs \in SUBSET Booking,
           \A b \in Booking : watch'[b] # None /\ watch'[b].status = "active" /\ b[1] = u =>
             b \in Active(watch) \/ b \in bs
    PROVE  /\ Cardinality(ActiveOf(u))' \in Nat
           /\ Cardinality(ActiveOf(u))' <= Cardinality(ActiveOf(u)) + Cardinality(bs)
  <1>1. IsFiniteSet(Booking)
    BY PriceWatchAssumption DEF PriceWatchAssumption
  <1>2. IsFiniteSet(bs) /\ IsFiniteSet(ActiveOf(u))
    BY <1>1, FS_Subset, FiniteActive DEF ActiveOf
  <1>3. /\ IsFiniteSet(ActiveOf(u) \cup bs)
        /\ Cardinality(ActiveOf(u) \cup bs) =
             Cardinality(ActiveOf(u)) + Cardinality(bs) - Cardinality(ActiveOf(u) \cap bs)
    BY <1>2, FS_Union
  <1>4. PICK new : new = ActiveOf(u)'
    OBVIOUS
  <1>5. new \in SUBSET (ActiveOf(u) \cup bs)
    BY <1>4 DEF ActiveOf, Active
  <1>6. IsFiniteSet(new) /\ Cardinality(new) <= Cardinality(ActiveOf(u) \cup bs)
    BY <1>3, <1>5, FS_Subset
  <1>7. IsFiniteSet(ActiveOf(u) \cap bs)
    BY <1>2, FS_Subset
  <1>8. /\ Cardinality(new) \in Nat /\ Cardinality(ActiveOf(u)) \in Nat
        /\ Cardinality(bs) \in Nat /\ Cardinality(ActiveOf(u) \cap bs) \in Nat
        /\ Cardinality(ActiveOf(u) \cup bs) \in Nat
    BY <1>2, <1>3, <1>6, <1>7, FS_CardinalityType
  <1>9. Cardinality(ActiveOf(u))' = Cardinality(new)
    BY <1>4
  <1> HIDE DEF ActiveOf
  <1> QED BY <1>3, <1>6, <1>8, <1>9

LEMMA SameOrFewer ==
    ASSUME NEW u, Active(watch)' \subseteq Active(watch)
    PROVE  /\ Cardinality(ActiveOf(u))' \in Nat
           /\ Cardinality(ActiveOf(u))' <= Cardinality(ActiveOf(u))
  <1>1. \A b \in Booking : watch'[b] # None /\ watch'[b].status = "active" /\ b[1] = u =>
           b \in Active(watch) \/ b \in {}
    BY DEF Active
  <1>2. {} \in SUBSET Booking
    OBVIOUS
  <1>3. /\ Cardinality(ActiveOf(u))' \in Nat
        /\ Cardinality(ActiveOf(u))' <= Cardinality(ActiveOf(u)) + Cardinality({})
    BY <1>1, <1>2, FewerActive
  <1>4. Cardinality({}) = 0 /\ Cardinality(ActiveOf(u)) \in Nat
    BY FS_EmptySet, FiniteActive DEF ActiveOf
  <1> QED BY <1>3, <1>4

LEMMA NextRoom ==
    ASSUME Types, RoomKept, [Next]_vars PROVE RoomKept'
  <1> SUFFICES ASSUME NEW u \in User, ~owed'[u]
               PROVE  Cardinality(ActiveOf(u))' + Room(u)' <= limit'[u]
    BY DEF RoomKept
  <1>1. RowsOK /\ Counted /\ OtherOK
    BY DEF Types
  <1>2. /\ Room(u) \in Nat /\ Cardinality(ActiveOf(u)) \in Nat /\ limit[u] \in Nat
        /\ ~owed[u] => Cardinality(ActiveOf(u)) + Room(u) <= limit[u]
    BY <1>1, RoomType, LimitType DEF RoomKept
  <1>3. ASSUME NEW w, NEW bs, Starts(w, bs)
        PROVE  Cardinality(ActiveOf(u))' + Room(u)' <= limit'[u]
    <2>1. /\ \A b \in Booking : watch'[b] # None /\ watch'[b].status = "active" =>
                b \in Active(watch) \/ (b \in bs /\ b[1] = lock.user)
          /\ bs \in SUBSET Booking /\ Cardinality(bs) <= lock.room
          /\ lock # None /\ lock' = None /\ limit' = limit /\ owed' = owed
      BY <1>1, <1>3, StartsEffect
    <2>2. Room(u)' = 0
      BY <2>1 DEF Room
    <2>3. CASE lock.user = u
      <3>1. /\ Cardinality(ActiveOf(u))' \in Nat
            /\ Cardinality(ActiveOf(u))' <= Cardinality(ActiveOf(u)) + Cardinality(bs)
        BY <2>1, FewerActive
      <3>2. Room(u) = lock.room
        BY <2>1, <2>3 DEF Room
      <3>3. Cardinality(bs) \in Nat
        <4>1. IsFiniteSet(Booking)
          BY PriceWatchAssumption DEF PriceWatchAssumption
        <4> QED BY <2>1, <4>1, FS_Subset, FS_CardinalityType
      <3> QED BY <1>2, <2>1, <2>2, <3>1, <3>2, <3>3
    <2>4. CASE lock.user # u
      <3>1. \A b \in Booking : watch'[b] # None /\ watch'[b].status = "active" /\ b[1] = u =>
               b \in Active(watch) \/ b \in {}
        BY <2>1, <2>4
      <3>2. /\ Cardinality(ActiveOf(u))' \in Nat
            /\ Cardinality(ActiveOf(u))' <= Cardinality(ActiveOf(u)) + Cardinality({})
        BY <3>1, FewerActive
      <3>3. Cardinality({}) = 0
        BY FS_EmptySet
      <3> QED BY <1>2, <2>1, <2>2, <3>2, <3>3
    <2> QED BY <2>3, <2>4
  <1>4. ASSUME NEW v \in User, Admit(v)
        PROVE  Cardinality(ActiveOf(u))' + Room(u)' <= limit'[u]
    <2>1. /\ lock = None /\ Slots(v) > 0 /\ lock' = [user |-> v, room |-> Slots(v)]
          /\ watch' = watch /\ limit' = limit /\ owed' = owed
      BY <1>4 DEF Admit, rows
    <2>2. Cardinality(ActiveOf(u))' = Cardinality(ActiveOf(u))
      BY <2>1 DEF ActiveOf
    <2>3. CASE v = u
      <3>1. Cardinality(ActiveOf(u)) + Slots(u) = limit[u]
        BY <1>1, <2>1, <2>3, SlotsFree
      <3>2. Room(u)' = IF lock' # None THEN Slots(u) ELSE 0
        BY <2>1, <2>3 DEF Room
      <3>3. Slots(u) \in Nat
        BY <1>1, SlotsFree
      <3> QED BY <1>2, <2>1, <2>2, <3>1, <3>2, <3>3
    <2>4. CASE v # u
      <3>1. Room(u)' = 0 /\ Room(u) = 0
        BY <2>1, <2>4 DEF Room
      <3> QED BY <1>2, <2>1, <2>2, <3>1
    <2> QED BY <2>3, <2>4
  <1>5. ASSUME NEW v \in User, reconcilePriceWatchLimits(v)
        PROVE  Cardinality(ActiveOf(u))' + Room(u)' <= limit'[u]
    <2>1. PICK bs \in SUBSET ActiveOf(v) :
             /\ Cardinality(ActiveOf(v) \ bs) = Min({limit[v], Cardinality(ActiveOf(v))})
             /\ watch' = Rested(bs, "paused", TRUE)
             /\ owed' = [owed EXCEPT ![v] = @ /\ lock # None /\ lock.user = v]
             /\ UNCHANGED <<limit, lock>>
      BY <1>5 DEF reconcilePriceWatchLimits
    <2>2. bs \in SUBSET Booking /\ \A b \in bs : watch[b] # None
      BY DEF ActiveOf, Active
    <2>3. /\ Active(watch)' \subseteq Active(watch)
          /\ \A b \in bs : watch'[b].status = "paused"
      BY <1>1, <2>1, <2>2, RestRows
    <2>4. /\ Cardinality(ActiveOf(u))' \in Nat
          /\ Cardinality(ActiveOf(u))' <= Cardinality(ActiveOf(u))
      BY <2>3, SameOrFewer
    <2>5. Room(u)' = Room(u)
      BY <2>1 DEF Room
    <2>6. CASE ~owed[u]
      BY <1>2, <2>1, <2>4, <2>5, <2>6
    <2>7. CASE owed[u]
      <3>1. owed \in [User -> BOOLEAN]
        BY <1>1 DEF OtherOK
      <3>2. v = u /\ ~(lock # None /\ lock.user = u)
        BY <2>1, <2>7, <3>1
      <3>3. Room(u)' = 0
        BY <2>5, <3>2 DEF Room
      <3>4. ActiveOf(u)' \subseteq ActiveOf(u) \ bs
        BY <2>3 DEF ActiveOf, Active
      <3>5. Cardinality(ActiveOf(u) \ bs) <= limit[u]
        BY <1>2, <2>1, <3>2, MinOfTwo
      <3>6. PICK new : new = ActiveOf(u)'
        OBVIOUS
      <3>7. Cardinality(new) <= Cardinality(ActiveOf(u) \ bs) /\ Cardinality(new) \in Nat
        <4>1. IsFiniteSet(ActiveOf(u) \ bs)
          BY <1>1, RoomType, FS_Difference
        <4>2. new \in SUBSET (ActiveOf(u) \ bs)
          BY <3>4, <3>6
        <4> QED BY <4>1, <4>2, FS_Subset, FS_CardinalityType
      <3>8. Cardinality(ActiveOf(u) \ bs) \in Nat
        BY <1>1, RoomType, FS_Difference, FS_CardinalityType
      <3> QED BY <1>2, <2>1, <3>3, <3>5, <3>6, <3>7, <3>8
    <2> QED BY <2>6, <2>7
  <1>6. ASSUME NEW us \in SUBSET User, NEW n \in Limit, setPriceWatchLimit(us, n)
        PROVE  Cardinality(ActiveOf(u))' + Room(u)' <= limit'[u]
    <2>1. /\ watch' = watch /\ lock' = lock
          /\ owed'[u] = (owed[u] \/ (u \in us /\ n < limit[u]))
          /\ limit'[u] = IF u \in us THEN n ELSE limit[u]
      BY <1>6 DEF setPriceWatchLimit, rows
    <2>2. Cardinality(ActiveOf(u))' = Cardinality(ActiveOf(u)) /\ Room(u)' = Room(u)
      BY <2>1 DEF ActiveOf, Room
    <2>3. n \in Nat
      BY PriceWatchAssumption DEF PriceWatchAssumption
    <2>4. ~owed[u] /\ ~(u \in us /\ n < limit[u])
      BY <2>1
    <2> QED BY <1>2, <2>1, <2>2, <2>3, <2>4
  <1>7. ASSUME NEW j \in Job, NEW k \in Key, ClaimPriceWatchTargets(j, k)
        PROVE  Cardinality(ActiveOf(u))' + Room(u)' <= limit'[u]
    <2>1. watch' = watch /\ lock' = lock /\ limit' = limit /\ owed' = owed
      BY <1>7 DEF ClaimPriceWatchTargets
    <2>2. Cardinality(ActiveOf(u))' = Cardinality(ActiveOf(u)) /\ Room(u)' = Room(u)
      BY <2>1 DEF ActiveOf, Room
    <2> QED BY <1>2, <2>1, <2>2
  <1>8. ASSUME Quiet
        PROVE  Cardinality(ActiveOf(u))' + Room(u)' <= limit'[u]
    <2>1. /\ Active(watch)' \subseteq Active(watch)
          /\ lock' \in {lock, None} /\ limit' = limit /\ owed' = owed
      BY <1>8 DEF Quiet
    <2>2. /\ Cardinality(ActiveOf(u))' \in Nat
          /\ Cardinality(ActiveOf(u))' <= Cardinality(ActiveOf(u))
      BY <2>1, SameOrFewer
    <2>3. Room(u)' = Room(u) \/ Room(u)' = 0
      BY <2>1 DEF Room
    <2> QED BY <1>2, <2>1, <2>2, <2>3
  <1> QED BY <1>1, <1>3, <1>4, <1>5, <1>6, <1>7, <1>8, Steps

\* Whoever's limit was not lowered behind his back keeps to it: between
\* assertPriceWatchSlot and the write that uses the slot, nobody takes it.
THEOREM LimitKeptHolds == Spec => []LimitKept
  <1>1. Init => RoomKept
    <2> SUFFICES ASSUME Init, NEW u \in User
                 PROVE  Cardinality(ActiveOf(u)) + Room(u) <= limit[u]
      BY DEF RoomKept
    <2>1. ActiveOf(u) = {} /\ Room(u) = 0
      BY DEF Init, ActiveOf, Active, Room
    <2>2. limit[u] \in Nat
      BY InitTypes, LimitType
    <2> QED BY <2>1, <2>2, FS_EmptySet
  <1>2. Types /\ RoomKept => LimitKept
    <2> SUFFICES ASSUME Types, RoomKept, NEW u \in User, ~owed[u]
                 PROVE  Cardinality(ActiveOf(u)) <= limit[u]
      BY DEF LimitKept
    <2> QED BY RoomType, LimitType DEF Types, RoomKept
  <1> QED BY <1>1, <1>2, NextRoom, AlwaysTypes, PTL DEF Spec

-----------------------------------------------------------------------------
(* The budget *)

\* A nonempty set of numbers has a least one.
LEMMA LeastNat ==
    ASSUME NEW T \in SUBSET Nat, T # {} PROVE \E x \in T : \A y \in T : x <= y
  <1> DEFINE less == OpToRel(<, Nat)
  <1>1. IsWellFoundedOn(less, Nat)
    BY NatLessThanWellFounded
  <1>2. PICK x \in T : \A y \in T : ~(<<y, x>> \in less)
    <2> HIDE DEF less
    <2> QED BY <1>1, WFMin
  <1>3. ASSUME NEW y \in T, y < x PROVE FALSE
    <2>1. <<y, x>> \in less
      BY <1>3 DEF OpToRel
    <2> QED BY <1>2, <2>1
  <1> QED BY <1>3

\* Some booking of a set is the fastest one: it has the fewest faster ones.
LEMMA SomeFastest ==
    ASSUME NEW w, NEW bs, IsFiniteSet(bs), bs # {}, \A b \in bs : w[b].rate \in Nat
    PROVE  \E m \in bs : Fastest(w, bs) = w[m].rate
  <1> DEFINE above(b) == {c \in bs : w[c].rate > w[b].rate}
             counts   == {Cardinality(above(b)) : b \in bs}
             rates    == {w[b].rate : b \in bs}
  <1>1. \A b \in bs : IsFiniteSet(above(b)) /\ Cardinality(above(b)) \in Nat
    BY FS_Subset, FS_CardinalityType
  <1>2. PICK m \in bs : \A b \in bs : Cardinality(above(m)) <= Cardinality(above(b))
    <2>1. counts \in SUBSET Nat /\ counts # {}
      BY <1>1
    <2>2. PICK n \in counts : \A k \in counts : n <= k
      BY <2>1, LeastNat
    <2> QED BY <2>2
  <1>3. \A b \in bs : w[m].rate >= w[b].rate
    <2> SUFFICES ASSUME NEW b \in bs, w[b].rate > w[m].rate PROVE FALSE
      OBVIOUS
    <2>1. above(b) \in SUBSET above(m) /\ b \in above(m) /\ b \notin above(b)
      OBVIOUS
    <2>2. Cardinality(above(b)) <= Cardinality(above(m))
          /\ Cardinality(above(b)) # Cardinality(above(m))
      <3> HIDE DEF above
      <3> QED BY <1>1, <2>1, FS_Subset
    <2> HIDE DEF above
    <2> QED BY <1>1, <1>2, <2>2
  <1>4. Max(rates) \in rates /\ \A y \in rates : Max(rates) >= y
    <2>1. \E x \in rates : \A y \in rates : x >= y
      BY <1>3
    <2> HIDE DEF rates
    <2> QED BY <2>1 DEF Max
  <1> QED BY <1>4 DEF Fastest

\* What SharedRate counts.
Checks(w) == UNION {{b[2]} \X (1..w[b].rate) : b \in Using(w, "shared")}

Rows == [Booking -> WatchRow \cup {None}]

LEMMA RateType ==
    ASSUME NEW w \in Rows, NEW b \in Booking, w[b] # None PROVE w[b].rate \in Nat
  BY PriceWatchAssumption DEF PriceWatchAssumption, Rows, WatchRow

LEMMA FiniteChecks ==
    ASSUME NEW w \in Rows PROVE IsFiniteSet(Checks(w))
  <1> DEFINE bs    == Using(w, "shared")
             of(b) == {b[2]} \X (1..w[b].rate)
             parts == {of(b) : b \in bs}
             f     == [b \in bs |-> of(b)]
  <1>1. IsFiniteSet(bs)
    BY PriceWatchAssumption, FS_Subset DEF PriceWatchAssumption, Using, Active
  <1>2. \A b \in bs : w[b].rate \in Nat
    BY RateType DEF Using, Active
  <1>3. \A b \in bs : IsFiniteSet(of(b))
    <2> SUFFICES ASSUME NEW b \in bs PROVE IsFiniteSet(of(b))
      OBVIOUS
    <2>1. PICK n \in Nat : n = w[b].rate
      BY <1>2
    <2>2. IsFiniteSet({b[2]})
      BY FS_Singleton
    <2>3. IsFiniteSet(1..n)
      BY FS_Interval
    <2>4. IsFiniteSet({b[2]} \X (1..n))
      BY <2>2, <2>3, FS_Product
    <2> QED BY <2>1, <2>4
  <1> HIDE DEF of, bs
  <1>4. f \in Surjection(bs, parts)
    BY DEF Surjection
  <1>5. IsFiniteSet(parts)
    <2> HIDE DEF f, parts
    <2> QED BY <1>1, <1>4, FS_Surjection
  <1>6. IsFiniteSet(UNION parts)
    <2>1. \A p \in parts : IsFiniteSet(p)
      BY <1>3
    <2> HIDE DEF parts
    <2> QED BY <1>5, <2>1, FS_UNION
  <1> QED BY <1>6 DEF Checks, of, bs

\* What was projected for a booking is what the schedules make with it: the
\* checks of the others, and of its own those beyond the fastest of them.
LEMMA Booked ==
    ASSUME NEW w \in Rows, NEW v \in Rows, NEW b \in Booking, NEW rate \in Nat,
           b \in Using(v, "shared") => v[b].rate = rate,
           \A c \in Booking \ {b} : c \in Using(v, "shared") =>
             c \in Using(w, "shared") /\ v[c].rate = w[c].rate,
           Projected(w, b, "shared", rate) <= SharedMaxRpm
    PROVE  SharedRate(v) <= SharedMaxRpm
  <1> DEFINE others == [w EXCEPT ![b] = None]
             same   == On(others, <<b[2], "shared">>) \cap Active(others)
             old    == Fastest(others, same)
             more   == {b[2]} \X ((old + 1)..rate)
  <1>1. others \in Rows /\ others[b] = None /\ \A c \in Booking \ {b} : others[c] = w[c]
    BY DEF Rows
  <1> HIDE DEF others
  <1>2. \A c \in Using(v, "shared") \ {b} :
           c \in Using(others, "shared") /\ others[c].rate = v[c].rate
    BY <1>1 DEF Using, Active
  <1>3. \A c \in same : c \in Using(others, "shared") /\ c[2] = b[2] /\ c \in Booking
                        /\ others[c].rate \in Nat
    <2>1. \A c \in same : c \in Using(others, "shared") /\ c[2] = b[2] /\ c \in Booking
                          /\ others[c] # None
      BY DEF On, Active, Using, KeyOf
    <2> QED BY <1>1, <2>1, RateType
  <1>4. old \in Nat /\ {b[2]} \X (1..old) \subseteq Checks(others)
    <2>1. CASE same = {}
      BY <2>1 DEF Fastest
    <2>2. CASE same # {}
      <3>1. IsFiniteSet(same)
        BY PriceWatchAssumption, FS_Subset DEF PriceWatchAssumption, Active
      <3> HIDE DEF same
      <3>2. PICK m \in same : old = others[m].rate
        BY <1>3, <2>2, <3>1, SomeFastest
      <3> HIDE DEF old
      <3> QED BY <1>3, <3>2 DEF Checks
    <2> QED BY <2>1, <2>2
  <1> HIDE DEF old
  <1>5. IsFiniteSet(more) /\ Cardinality(more) = Max({old, rate}) - old
    <2>1. IsFiniteSet({b[2]}) /\ Cardinality({b[2]}) = 1
      BY FS_Singleton
    <2>2. /\ IsFiniteSet((old + 1)..rate)
          /\ Cardinality((old + 1)..rate) = IF old + 1 > rate THEN 0 ELSE rate - old
      BY <1>4, FS_Interval
    <2>3. IsFiniteSet(more) /\ Cardinality(more) = 1 * Cardinality((old + 1)..rate)
      BY <2>1, <2>2, FS_Product
    <2>4. Max({old, rate}) = IF old >= rate THEN old ELSE rate
      BY <1>4 DEF Max
    <2> HIDE DEF more
    <2> QED BY <1>4, <2>2, <2>3, <2>4
  <1>6. Checks(v) \subseteq Checks(others) \cup more
    <2> SUFFICES ASSUME NEW c \in Using(v, "shared"), NEW n \in 1..v[c].rate
                 PROVE  <<c[2], n>> \in Checks(others) \cup more
      BY DEF Checks
    <2>1. CASE c # b
      BY <1>2, <2>1 DEF Checks
    <2>2. CASE c = b
      <3>1. n \in 1..rate
        BY <2>2
      <3>2. n \in 1..old \/ n \in (old + 1)..rate
        BY <1>4, <3>1
      <3> QED BY <1>4, <2>2, <3>2
    <2> QED BY <2>1, <2>2
  <1>7. Cardinality(Checks(v)) <= Cardinality(Checks(others)) + Cardinality(more)
    <2> HIDE DEF more
    <2>1. IsFiniteSet(Checks(others)) /\ IsFiniteSet(more)
      BY <1>1, <1>5, FiniteChecks
    <2>2. /\ IsFiniteSet(Checks(others) \cup more)
          /\ Cardinality(Checks(others) \cup more) =
               Cardinality(Checks(others)) + Cardinality(more)
                 - Cardinality(Checks(others) \cap more)
      BY <2>1, FS_Union
    <2>3. /\ Cardinality(Checks(v)) <= Cardinality(Checks(others) \cup more)
          /\ IsFiniteSet(Checks(v)) /\ IsFiniteSet(Checks(others) \cap more)
      BY <1>6, <2>1, <2>2, FS_Subset
    <2>4. /\ Cardinality(Checks(v)) \in Nat /\ Cardinality(Checks(others)) \in Nat
          /\ Cardinality(more) \in Nat /\ Cardinality(Checks(others) \cup more) \in Nat
          /\ Cardinality(Checks(others) \cap more) \in Nat
      BY <2>1, <2>2, <2>3, FS_CardinalityType
    <2> QED BY <2>2, <2>3, <2>4
  <1>8. Projected(w, b, "shared", rate) =
          Cardinality(Checks(others)) - old + Max({old, rate})
    BY DEF Projected, SharedRate, Checks, old, others
  <1>9. SharedRate(v) = Cardinality(Checks(v))
    BY DEF SharedRate, Checks
  <1>10. /\ Cardinality(Checks(v)) \in Nat /\ Cardinality(Checks(others)) \in Nat
         /\ Max({old, rate}) \in Nat /\ SharedMaxRpm \in Nat
    <2>1. Max({old, rate}) = IF old >= rate THEN old ELSE rate
      BY <1>4 DEF Max
    <2>2. IsFiniteSet(Checks(v)) /\ IsFiniteSet(Checks(others))
      BY <1>1, FiniteChecks
    <2> QED BY <1>4, <2>1, <2>2, FS_CardinalityType, PriceWatchAssumption
            DEF PriceWatchAssumption
  <1> HIDE DEF more
  <1> QED BY <1>4, <1>5, <1>7, <1>8, <1>9, <1>10

\* Admission to the shared transport keeps the budget that it reads, whatever
\* watches share schedules: the others' rates are counted as they are when the
\* new one is added.
THEOREM AdmittedHolds == Spec => AdmittedWithinBudget
  <1>1. ASSUME Types, Types',
               NEW b \in Booking, NEW r \in Rate,
               \/ createPriceWatch(b, "shared", r)
               \/ updatePriceWatch(b, "shared", r)
               \/ resumePriceWatch(b) /\ watch[b].via = "shared"
               \/ startAllPriceWatches(b[1]) /\ b \in Using(watch', "shared") \ Active(watch)
        PROVE  SharedRate(watch') <= SharedMaxRpm
    <2>1. watch \in Rows /\ watch' \in Rows /\ r \in Nat
      BY <1>1, PriceWatchAssumption DEF Types, RowsOK, Rows, PriceWatchAssumption
    <2>2. CASE createPriceWatch(b, "shared", r)
      <3> DEFINE new == [watch EXCEPT ![b] = [status |-> "paused", via |-> "shared",
                           rate |-> r, armed |-> watch[b] # None /\ watch[b].armed,
                           seen |-> 0, moved |-> FALSE]]
      <3>1. watch' = Activated(new, {b}) /\ Projected(watch, b, "shared", r) <= SharedMaxRpm
        BY <2>2 DEF createPriceWatch, Activate, Fits
      <3> PICK armed \in BOOLEAN : armed = (watch[b] # None /\ watch[b].armed)
        OBVIOUS
      <3>2. /\ new[b] = [status |-> "paused", via |-> "shared", rate |-> r,
                         armed |-> armed, seen |-> 0, moved |-> FALSE]
            /\ \A c \in Booking \ {b} : new[c] = watch[c]
        BY <2>1 DEF Rows
      <3> HIDE DEF new
      <3>3. /\ watch'[b] = [new[b] EXCEPT !.status = "active", !.armed = FALSE,
                                           !.seen = 0, !.moved = FALSE]
            /\ \A c \in Booking \ {b} : watch'[c] = new[c]
        BY <3>1 DEF Activated
      <3>4. watch'[b].rate = r
        BY <3>2, <3>3
      <3>5. watch'[b].rate = r /\ \A c \in Booking \ {b} : watch'[c] = watch[c]
        BY <3>2, <3>3, <3>4
      <3>6. \A c \in Booking \ {b} : c \in Using(watch', "shared") =>
              c \in Using(watch, "shared") /\ watch'[c].rate = watch[c].rate
        BY <3>5 DEF Using, Active
      <3> QED BY <2>1, <3>1, <3>5, <3>6, Booked
    <2>3. CASE updatePriceWatch(b, "shared", r)
      <3>1. Projected(watch, b, "shared", r) <= SharedMaxRpm /\ watch[b] # None
        BY <2>3 DEF updatePriceWatch, Fits
      <3>2. watch[b] \in WatchRow
        BY <2>1, <3>1 DEF Rows
      <3>3. watch'[b].rate = r /\ \A c \in Booking \ {b} : watch'[c] = watch[c]
        BY <2>1, <2>3, <3>2 DEF updatePriceWatch, Rows, WatchRow
      <3>4. \A c \in Booking \ {b} : c \in Using(watch', "shared") =>
              c \in Using(watch, "shared") /\ watch'[c].rate = watch[c].rate
        BY <3>3 DEF Using, Active
      <3> QED BY <2>1, <3>1, <3>3, <3>4, Booked
    <2>4. CASE resumePriceWatch(b) /\ watch[b].via = "shared"
      <3>1. /\ watch' = Activated(watch, {b}) /\ watch[b] # None
            /\ Projected(watch, b, "shared", watch[b].rate) <= SharedMaxRpm
        BY <2>4 DEF resumePriceWatch, Activate, Fits
      <3>2. watch[b] \in WatchRow /\ watch[b].rate \in Nat
        BY <2>1, <3>1, RateType DEF Rows
      <3>3. watch'[b].rate = watch[b].rate /\ \A c \in Booking \ {b} : watch'[c] = watch[c]
        BY <3>1, <3>2 DEF Activated, WatchRow
      <3>4. \A c \in Booking \ {b} : c \in Using(watch', "shared") =>
              c \in Using(watch, "shared") /\ watch'[c].rate = watch[c].rate
        BY <3>3 DEF Using, Active
      <3> QED BY <2>1, <3>1, <3>2, <3>3, <3>4, Booked
    <2>5. CASE startAllPriceWatches(b[1]) /\ b \in Using(watch', "shared") \ Active(watch)
      <3>1. PICK bs \in SUBSET {c \in Booking : watch[c] # None} :
              /\ \A c \in bs : Fits(Activated(watch, bs), c, watch[c].via, watch[c].rate)
              /\ watch' = Activated(watch, bs)
        BY <2>5 DEF startAllPriceWatches, Activate
      <3>2. b \in bs
        BY <2>5, <3>1 DEF Activated, Using, Active
      <3>3. watch[b] \in WatchRow /\ watch[b].rate \in Nat
        BY <2>1, <3>1, <3>2, RateType DEF Rows
      <3>4. watch'[b].rate = watch[b].rate /\ watch'[b].via = watch[b].via
        BY <3>1, <3>2, <3>3 DEF Activated, WatchRow
      <3>5. watch[b].via = "shared"
        BY <2>5, <3>4 DEF Using
      <3>6. Projected(watch', b, "shared", watch[b].rate) <= SharedMaxRpm
        BY <3>1, <3>2, <3>5 DEF Fits
      <3> QED BY <2>1, <3>3, <3>4, <3>6, Booked
    <2> QED BY <1>1, <2>2, <2>3, <2>4, <2>5
  <1>2. Types /\ Types' => [(\E b \in Booking, r \in Rate :
                  \/ createPriceWatch(b, "shared", r)
                  \/ updatePriceWatch(b, "shared", r)
                  \/ resumePriceWatch(b) /\ watch[b].via = "shared"
                  \/ startAllPriceWatches(b[1]) /\ b \in Using(watch', "shared") \ Active(watch))
                => SharedRate(watch') <= SharedMaxRpm]_vars
    BY <1>1
  <1> QED BY <1>2, AlwaysTypes, PTL DEF AdmittedWithinBudget
=============================================================================
