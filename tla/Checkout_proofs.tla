--------------------------- MODULE Checkout_proofs ---------------------------
(***************************************************************************)
(* Theorems about Checkout for every set of browsers, pages, items, limits *)
(* and quotes, and every length of the list of attempts.                   *)
(***************************************************************************)
EXTENDS Checkout, FiniteSetTheorems, SequenceTheorems, TLAPS

-----------------------------------------------------------------------------
(* Sequences *)

\* The elements that are kept: every one of them has a place of its own among
\* the first Cardinality(kept) places, so that no place is left without one.
LEMMA FilterKeeps ==
    ASSUME NEW S, NEW s \in Seq(S), NEW T
    PROVE  /\ Filter(s, T) \in Seq(S)
           /\ ToSet(Filter(s, T)) = ToSet(s) \cap T
  <1> DEFINE kept    == {k \in DOMAIN s : s[k] \in T}
             size    == Cardinality(kept)
             rank(k) == Cardinality({j \in kept : j < k})
             at(n)   == CHOOSE k \in kept : rank(k) = n - 1
  <1>1. DOMAIN s = 1..Len(s) /\ Len(s) \in Nat /\ \A k \in 1..Len(s) : s[k] \in S
    OBVIOUS
  <1>2. IsFiniteSet(kept) /\ size \in Nat
    <2>1. IsFiniteSet(1..Len(s))
      BY <1>1, FS_Interval
    <2> QED BY <1>1, <2>1, FS_Subset, FS_CardinalityType
  <1>3. \A k \in kept : rank(k) \in 0..(size - 1)
    <2> SUFFICES ASSUME NEW k \in kept PROVE rank(k) \in 0..(size - 1)
      OBVIOUS
    <2>1. k \in Nat /\ {j \in kept : j < k} \in SUBSET kept
      BY <1>1
    <2>2. IsFiniteSet({j \in kept : j < k}) /\ rank(k) \in Nat /\ rank(k) <= size
      BY <1>2, <2>1, FS_Subset, FS_CardinalityType
    <2>3. {j \in kept : j < k} # kept
      BY <2>1
    <2>4. size # rank(k)
      BY <1>2, <2>1, <2>3, FS_Subset
    <2> QED BY <1>2, <2>2, <2>4
  <1>4. \A j, k \in kept : j < k => rank(j) < rank(k)
    <2> SUFFICES ASSUME NEW j \in kept, NEW k \in kept, j < k
                 PROVE  rank(j) < rank(k)
      OBVIOUS
    <2>1. j \in Nat /\ k \in Nat /\ \A i \in kept : i \in Nat
      BY <1>1
    <2>2. {i \in kept : i < j} \in SUBSET {i \in kept : i < k}
      BY <2>1
    <2>3. {i \in kept : i < j} # {i \in kept : i < k}
      BY <2>1
    <2>4. IsFiniteSet({i \in kept : i < k})
      BY <1>2, FS_Subset
    <2>5. rank(j) <= rank(k) /\ rank(j) # rank(k)
      BY <2>2, <2>3, <2>4, FS_Subset
    <2> HIDE DEF rank
    <2>6. rank(j) \in Int /\ rank(k) \in Int
      BY <1>2, <1>3
    <2> QED BY <2>5, <2>6
  <1> HIDE DEF rank
  <1>5. \A j, k \in kept : rank(j) = rank(k) => j = k
    <2>1. \A j, k \in kept : j \in Nat /\ k \in Nat
      BY <1>1
    <2>2. \A k \in kept : rank(k) \in Int
      BY <1>2, <1>3
    <2> HIDE DEF kept
    <2> QED BY <1>4, <2>1, <2>2
  <1>6. \A n \in 1..size : \E k \in kept : rank(k) = n - 1
    <2> DEFINE f == [k \in kept |-> rank(k)]
               D == 0..(size - 1)
    <2>1. f \in Injection(kept, D)
      BY <1>3, <1>5 DEF Injection, IsInjective
    <2>2. IsFiniteSet(D) /\ Cardinality(D) = size
      <3> HIDE DEF size
      <3>1. size - 1 \in Int /\ 0 \in Int
        BY <1>2
      <3>2. /\ IsFiniteSet(D)
            /\ Cardinality(D) = IF 0 > size - 1 THEN 0 ELSE (size - 1) - 0 + 1
        BY <3>1, FS_Interval
      <3> QED BY <1>2, <3>2
    <2>3. f \in Surjection(kept, D)
      <3> HIDE DEF f, D, kept
      <3> QED BY <1>2, <2>1, <2>2, FS_Injection
    <2>4. \A d \in D : \E k \in kept : f[k] = d
      BY <2>3 DEF Surjection
    <2>5. \A k \in kept : f[k] = rank(k)
      OBVIOUS
    <2> HIDE DEF f, kept
    <2>6. \A n \in 1..size : n - 1 \in D
      BY <1>2
    <2> QED BY <2>4, <2>5, <2>6
  <1>7. \A n \in 1..size : at(n) \in kept /\ rank(at(n)) = n - 1
    BY <1>6
  <1>8. \A k \in kept : rank(k) + 1 \in 1..size /\ at(rank(k) + 1) = k
    <2> SUFFICES ASSUME NEW k \in kept
                 PROVE  rank(k) + 1 \in 1..size /\ at(rank(k) + 1) = k
      OBVIOUS
    <2>1. rank(k) + 1 \in 1..size /\ (rank(k) + 1) - 1 = rank(k)
      BY <1>2, <1>3
    <2>2. at(rank(k) + 1) \in kept /\ rank(at(rank(k) + 1)) = rank(k)
      BY <1>7, <2>1
    <2> QED BY <1>5, <2>1, <2>2
  <1>9. Filter(s, T) = [n \in 1..size |-> s[at(n)]]
    BY DEF Filter, rank
  <1> HIDE DEF at, kept
  <1>10. \A n \in 1..size : at(n) \in 1..Len(s) /\ s[at(n)] \in T
    BY <1>1, <1>7 DEF kept
  <1>11. \A n \in 1..Len(s) : s[n] \in T => n \in kept
    BY <1>1 DEF kept
  <1>12. Filter(s, T) \in [1..size -> S]
    BY <1>1, <1>9, <1>10
  <1>13. Filter(s, T) \in Seq(S)
    BY <1>2, <1>12, SeqDef
  <1>14. ToSet(Filter(s, T)) \subseteq ToSet(s) \cap T
    BY <1>1, <1>9, <1>10 DEF ToSet
  <1>15. ToSet(s) \cap T \subseteq ToSet(Filter(s, T))
    BY <1>1, <1>8, <1>9, <1>11 DEF ToSet
  <1> QED BY <1>13, <1>14, <1>15

LEMMA ConcatSet ==
    ASSUME NEW S, NEW s \in Seq(S), NEW t \in Seq(S)
    PROVE  s \o t \in Seq(S) /\ ToSet(s \o t) = ToSet(s) \cup ToSet(t)
  <1>1. /\ s \o t \in Seq(S) /\ Len(s \o t) = Len(s) + Len(t)
        /\ \A i \in 1..Len(s) + Len(t) :
              (s \o t)[i] = IF i <= Len(s) THEN s[i] ELSE t[i - Len(s)]
    BY ConcatProperties
  <1> DEFINE u == s \o t
  <1>2. /\ Len(s) \in Nat /\ Len(t) \in Nat
        /\ DOMAIN s = 1..Len(s) /\ DOMAIN t = 1..Len(t) /\ DOMAIN u = 1..Len(u)
    BY <1>1
  <1> HIDE DEF u
  <1>3. \A i \in 1..Len(s) : i \in 1..Len(u) /\ u[i] = s[i]
    BY <1>1, <1>2 DEF u
  <1>4. \A i \in 1..Len(t) : Len(s) + i \in 1..Len(u) /\ u[Len(s) + i] = t[i]
    BY <1>1, <1>2 DEF u
  <1>5. \A i \in 1..Len(u) : \/ i \in 1..Len(s) /\ u[i] = s[i]
                             \/ i - Len(s) \in 1..Len(t) /\ u[i] = t[i - Len(s)]
    BY <1>1, <1>2 DEF u
  <1>6. ToSet(u) = ToSet(s) \cup ToSet(t)
    <2>1. ASSUME NEW x \in ToSet(u) PROVE x \in ToSet(s) \cup ToSet(t)
      BY <1>2, <1>5, <2>1 DEF ToSet
    <2>2. ToSet(s) \subseteq ToSet(u)
      BY <1>2, <1>3 DEF ToSet
    <2>3. ToSet(t) \subseteq ToSet(u)
      BY <1>2, <1>4 DEF ToSet
    <2> QED BY <2>1, <2>2, <2>3
  <1> QED BY <1>1, <1>6 DEF u

LEMMA PrefixSet ==
    ASSUME NEW S, NEW s \in Seq(S), NEW n \in Nat, n <= Len(s)
    PROVE  SubSeq(s, 1, n) \in Seq(S) /\ ToSet(SubSeq(s, 1, n)) \subseteq ToSet(s)
  <1>1. \A i \in 1..n : s[i] \in S
    OBVIOUS
  <1>2. /\ SubSeq(s, 1, n) \in Seq(S) /\ Len(SubSeq(s, 1, n)) = n
        /\ \A i \in 1..n : SubSeq(s, 1, n)[i] = s[i]
    BY <1>1, SubSeqProperties
  <1>3. DOMAIN SubSeq(s, 1, n) = 1..n /\ 1..n \subseteq DOMAIN s
    BY <1>2
  <1> QED BY <1>2, <1>3 DEF ToSet

\* Saving an attempt keeps every automatic one.
LEMMA LimitKeeps ==
    ASSUME NEW s \in Seq(Attempt)
    PROVE  /\ LimitCheckoutAttempts(s) \in Seq(Attempt)
           /\ ToSet(LimitCheckoutAttempts(s)) \subseteq ToSet(s)
           /\ \A a \in ToSet(s) : IsAuto(a) => a \in ToSet(LimitCheckoutAttempts(s))
  <1> DEFINE auto   == Filter(s, {a \in ToSet(s) : IsAuto(a)})
             review == Filter(s, {a \in ToSet(s) : ~IsAuto(a)})
             n      == IF Len(review) < MaxReview THEN Len(review) ELSE MaxReview
  <1>1. auto \in Seq(Attempt) /\ ToSet(auto) = {a \in ToSet(s) : IsAuto(a)}
    BY FilterKeeps
  <1>2. review \in Seq(Attempt) /\ ToSet(review) \subseteq ToSet(s)
    BY FilterKeeps
  <1> HIDE DEF auto, review
  <1>3. n \in Nat /\ n <= Len(review)
    BY <1>2, CheckoutAssumption DEF CheckoutAssumption
  <1>4. LimitCheckoutAttempts(s) = auto \o SubSeq(review, 1, n)
    BY DEF LimitCheckoutAttempts, auto, review
  <1> HIDE DEF n
  <1>5. /\ SubSeq(review, 1, n) \in Seq(Attempt)
        /\ ToSet(SubSeq(review, 1, n)) \subseteq ToSet(s)
    BY <1>2, <1>3, PrefixSet
  <1>6. /\ LimitCheckoutAttempts(s) \in Seq(Attempt)
        /\ ToSet(LimitCheckoutAttempts(s)) = ToSet(auto) \cup ToSet(SubSeq(review, 1, n))
    <2> DEFINE first == SubSeq(review, 1, n)
    <2>1. first \in Seq(Attempt) /\ auto \in Seq(Attempt)
      BY <1>1, <1>5
    <2> HIDE DEF first
    <2>2. auto \o first \in Seq(Attempt) /\ ToSet(auto \o first) = ToSet(auto) \cup ToSet(first)
      BY <2>1, ConcatSet
    <2> QED BY <1>4, <2>2 DEF first
  <1> QED BY <1>1, <1>5, <1>6

-----------------------------------------------------------------------------
(* Types *)

Stored(b) == ToSet(attempts[b])

\* A preparation is not None, and an open page is not Idle.
LEMMA Facts ==
    /\ None \notin Task
    /\ \A p \in Page : Host[p] \in Browser
    /\ Limit \subseteq Nat /\ Quote \subseteq Nat /\ 0 \notin Limit
    /\ MaxOpens \in Nat
  BY CheckoutAssumption DEF CheckoutAssumption, Task, Preference

LEMMA Rows ==
    ASSUME TypeOK
    PROVE  /\ \A p \in Page : page[p] # Idle =>
                 /\ page[p].pc \in {"loaded", "ready", "authorized", "sent"}
                 /\ page[p].item \in Item /\ page[p].limit \in Preference
           /\ \A b \in Browser, i \in Item : task[b][i] # None => task[b][i] \in Task
           /\ \A p \in Page : page[p].pc # "idle" => page[p] # Idle
           /\ \A b \in Browser : attempts[b] \in Seq(Attempt) /\ Stored(b) \subseteq Attempt
  <1>1. \A b \in Browser : Stored(b) \subseteq Attempt
    BY DEF Stored, ToSet, TypeOK
  <1> QED BY <1>1 DEF TypeOK, PageState, Idle

\* An attempt put in front of s: what is kept.
LEMMA PushEffect ==
    ASSUME TypeOK, NEW b \in Browser, NEW a \in Attempt, NEW s \in Seq(Attempt),
           Store(b, <<a>> \o s)
    PROVE  /\ attempts' \in [Browser -> Seq(Attempt)]
           /\ \A c \in Browser \ {b} : attempts'[c] = attempts[c]
           /\ Stored(b)' \subseteq ToSet(s) \cup {a}
           /\ \A x \in ToSet(s) \cup {a} : IsAuto(x) => x \in Stored(b)'
  <1> DEFINE front == <<a>>
             t     == front \o s
  <1>1. front \in Seq(Attempt) /\ ToSet(front) = {a}
    BY DEF ToSet
  <1> HIDE DEF front
  <1>2. t \in Seq(Attempt) /\ ToSet(t) = {a} \cup ToSet(s)
    BY <1>1, ConcatSet
  <1>3. attempts' = [attempts EXCEPT ![b] = LimitCheckoutAttempts(t)]
    BY DEF Store, front
  <1> HIDE DEF t
  <1>4. /\ LimitCheckoutAttempts(t) \in Seq(Attempt)
        /\ ToSet(LimitCheckoutAttempts(t)) \subseteq ToSet(t)
        /\ \A x \in ToSet(t) : IsAuto(x) => x \in ToSet(LimitCheckoutAttempts(t))
    BY <1>2, LimitKeeps
  <1>5. /\ attempts' \in [Browser -> Seq(Attempt)]
        /\ attempts'[b] = LimitCheckoutAttempts(t)
        /\ \A c \in Browser \ {b} : attempts'[c] = attempts[c]
    BY <1>3, <1>4 DEF TypeOK
  <1> QED BY <1>2, <1>4, <1>5 DEF Stored

\* The attempts in T are taken out of the list.
LEMMA DropEffect ==
    ASSUME TypeOK, NEW b \in Browser, NEW T,
           attempts' = [attempts EXCEPT ![b] = Filter(@, ToSet(@) \ T)]
    PROVE  /\ attempts' \in [Browser -> Seq(Attempt)]
           /\ \A c \in Browser \ {b} : attempts'[c] = attempts[c]
           /\ Stored(b)' = Stored(b) \ T
  <1>1. attempts[b] \in Seq(Attempt)
    BY DEF TypeOK
  <1> DEFINE t == Filter(attempts[b], ToSet(attempts[b]) \ T)
  <1>2. t \in Seq(Attempt) /\ ToSet(t) = ToSet(attempts[b]) \cap (ToSet(attempts[b]) \ T)
    BY <1>1, FilterKeeps
  <1>3. attempts' = [attempts EXCEPT ![b] = t]
    OBVIOUS
  <1> HIDE DEF t
  <1>4. /\ attempts' \in [Browser -> Seq(Attempt)] /\ attempts'[b] = t
        /\ \A c \in Browser \ {b} : attempts'[c] = attempts[c]
    BY <1>2, <1>3 DEF TypeOK
  <1> QED BY <1>2, <1>4 DEF Stored

LEMMA SetTaskType ==
    ASSUME TypeOK, NEW b \in Browser, NEW i \in Item, NEW t \in Task \cup {None},
           SetTask(b, i, t)
    PROVE  /\ task' \in [Browser -> [Item -> Task \cup {None}]]
           /\ task'[b][i] = t
           /\ \A c \in Browser, j \in Item : <<c, j>> # <<b, i>> => task'[c][j] = task[c][j]
  BY DEF TypeOK, SetTask

LEMMA SettleType ==
    ASSUME TypeOK, NEW b \in Browser, NEW i \in Item, Settle(b, i)
    PROVE  /\ task' \in [Browser -> [Item -> Task \cup {None}]]
           /\ task'[b][i] = None
           /\ \A c \in Browser, j \in Item : <<c, j>> # <<b, i>> => task'[c][j] = task[c][j]
           /\ page' \in [Page -> PageState]
           /\ \A p \in Page : page'[p] \in {page[p], Idle}
  <1>1. SetTask(b, i, None)
    BY DEF Settle
  <1>2. \A p \in Page : page'[p] \in {page[p], Idle} /\ page'[p] \in PageState
    BY DEF Settle, TypeOK, PageState
  <1>3. page' \in [Page -> PageState]
    BY <1>2 DEF Settle
  <1> QED BY <1>1, <1>2, <1>3, SetTaskType

LEMMA InitType == Init => TypeOK
  <1> SUFFICES ASSUME Init PROVE TypeOK
    OBVIOUS
  <1>1. Idle \in PageState /\ 0 \in Preference /\ <<>> \in Seq(Attempt)
    BY DEF PageState, Preference
  <1>2. /\ claimed \in [Item -> Preference] /\ page \in [Page -> PageState]
        /\ attempts \in [Browser -> Seq(Attempt)] /\ floor \in [Browser -> Nat]
        /\ task \in [Browser -> [Item -> Task \cup {None}]]
    BY <1>1 DEF Init
  <1>3. opened \in 0..MaxOpens /\ started \in Nat
    BY Facts DEF Init
  <1>4. enabled \in BOOLEAN /\ limit \in Preference /\ run = {} /\ sent = {} /\ paid = {}
    BY <1>1 DEF Init
  <1> QED BY <1>2, <1>3, <1>4 DEF TypeOK

\* What a page shows.
LEMMA ShowType ==
    ASSUME TypeOK, NEW p \in Page, NEW s \in PageState, Show(p, s)
    PROVE  /\ page' \in [Page -> PageState] /\ page'[p] = s
           /\ \A q \in Page \ {p} : page'[q] = page[q]
  BY DEF TypeOK, Show

LEMMA NextType == TypeOK /\ [Next]_vars => TypeOK'
  <1> SUFFICES ASSUME TypeOK, [Next]_vars PROVE TypeOK'
    OBVIOUS
  <1> USE DEF server, history
  <1>1. ASSUME NEW on \in BOOLEAN, SetCheckoutModuleEnabled(on) PROVE TypeOK'
    BY <1>1 DEF SetCheckoutModuleEnabled, TypeOK, Preference
  <1>2. ASSUME NEW l \in Preference, SaveCheckoutPreferences(l) PROVE TypeOK'
    BY <1>2 DEF SaveCheckoutPreferences, TypeOK
  <1>3. ASSUME NEW p \in Page, NEW i \in Item, OpenItemCheckout(p, i) PROVE TypeOK'
    <2>1. [pc |-> "loaded", item |-> i, limit |-> limit] \in PageState
      BY DEF TypeOK, PageState
    <2>2. page' \in [Page -> PageState]
      BY <1>3, <2>1, ShowType DEF OpenItemCheckout
    <2>3. opened' \in 0..MaxOpens
      BY <1>3, Facts DEF OpenItemCheckout, TypeOK
    <2> QED BY <1>3, <2>2, <2>3 DEF OpenItemCheckout, TypeOK
  <1>4. ASSUME NEW p \in Page, CheckReadiness(p) PROVE TypeOK'
    <2>1. page[p] # Idle /\ [page[p] EXCEPT !.pc = "ready"] \in PageState
      BY <1>4, Rows DEF CheckReadiness, TypeOK, PageState, Idle
    <2>2. page' \in [Page -> PageState]
      BY <1>4, <2>1, ShowType DEF CheckReadiness
    <2> QED BY <1>4, <2>2 DEF CheckReadiness, TypeOK
  <1>5. ASSUME NEW p \in Page, Authorize(p) PROVE TypeOK'
    <2>1. page[p] # Idle /\ [page[p] EXCEPT !.pc = "authorized"] \in PageState
      BY <1>5, Rows DEF Authorize, TypeOK, PageState, Idle
    <2>2. Idle \in PageState
      BY DEF PageState
    <2>3. page' \in [Page -> PageState]
      BY <1>5, <2>1, <2>2, ShowType DEF Authorize
    <2>4. page[p].item \in Item
      BY <2>1, Rows
    <2>5. claimed' \in [Item -> Preference]
      BY <1>5, <2>4 DEF Authorize, TypeOK
    <2> QED BY <1>5, <2>3, <2>5 DEF Authorize, TypeOK
  <1>6. ASSUME NEW p \in Page, HandleBrowserBuy(p) PROVE TypeOK'
    <2>1. page[p] # Idle /\ [page[p] EXCEPT !.pc = "sent"] \in PageState
      BY <1>6, Rows DEF HandleBrowserBuy, TypeOK, PageState, Idle
    <2>2. page' \in [Page -> PageState]
      BY <1>6, <2>1, ShowType DEF HandleBrowserBuy
    <2>3. page[p].item \in Item /\ page[p].limit \in Preference /\ Host[p] \in Browser
      BY <2>1, Rows, Facts
    <2>4. [pc |-> "tab", limit |-> page[p].limit, id |-> 0] \in Task
      BY <2>3 DEF Task
    <2>5. task' \in [Browser -> [Item -> Task \cup {None}]]
      BY <1>6, <2>3, <2>4 DEF HandleBrowserBuy, TypeOK
    <2> QED BY <1>6, <2>2, <2>5 DEF HandleBrowserBuy, TypeOK
  <1>7. ASSUME NEW p \in Page, GiveUp(p) PROVE TypeOK'
    <2>1. Idle \in PageState
      BY DEF PageState
    <2>2. page' \in [Page -> PageState]
      BY <1>7, <2>1, ShowType DEF GiveUp
    <2> QED BY <1>7, <2>2 DEF GiveUp, TypeOK
  <1>8. ASSUME NEW b \in Browser, NEW i \in Item, SaveAttempt(b, i) PROVE TypeOK'
    <2> DEFINE a == [item |-> i, id |-> started + 1, limit |-> task[b][i].limit,
                     url |-> FALSE]
               t == [task[b][i] EXCEPT !.pc = "run", !.id = started + 1]
               u == [task[b][i] EXCEPT !.pc = "found"]
    <2>1. task[b][i] \in Task /\ started \in Nat /\ attempts[b] \in Seq(Attempt)
      BY <1>8, Rows DEF SaveAttempt, TypeOK
    <2>2. a \in Attempt /\ t \in Task /\ u \in Task /\ started + 1 \in Nat
      <3>1. started + 1 \in Nat /\ task[b][i].limit \in Preference
        BY <2>1 DEF Task
      <3>2. a \in Attempt
        BY <3>1 DEF Attempt
      <3>3. u \in Task /\ t \in Task
        BY <2>1, <3>1 DEF Task
      <3> QED BY <3>1, <3>2, <3>3
    <2> HIDE DEF a, t, u
    <2>3. CASE SetTask(b, i, u) /\ UNCHANGED <<attempts, started>>
      <3>1. task' \in [Browser -> [Item -> Task \cup {None}]]
        BY <2>2, <2>3, SetTaskType
      <3> QED BY <1>8, <2>3, <3>1 DEF SaveAttempt, TypeOK
    <2>4. CASE started' = started + 1 /\ Store(b, <<a>> \o attempts[b]) /\ SetTask(b, i, t)
      <3>1. task' \in [Browser -> [Item -> Task \cup {None}]]
        BY <2>2, <2>4, SetTaskType
      <3>2. attempts' \in [Browser -> Seq(Attempt)]
        BY <2>1, <2>2, <2>4, PushEffect
      <3> QED BY <1>8, <2>2, <2>4, <3>1, <3>2 DEF SaveAttempt, TypeOK
    <2> QED BY <1>8, <2>3, <2>4 DEF SaveAttempt, a, t, u
  <1>9. ASSUME NEW b \in Browser, NEW i \in Item, EndWithoutRun(b, i) PROVE TypeOK'
    BY <1>9, SettleType DEF EndWithoutRun, TypeOK
  <1>10. ASSUME NEW b \in Browser, NEW i \in Item, SendRun(b, i) PROVE TypeOK'
    <2> DEFINE r == [browser |-> b, item |-> i, id |-> task[b][i].id,
                     limit |-> task[b][i].limit, pc |-> "account"]
               t == [task[b][i] EXCEPT !.pc = "await"]
    <2>1. task[b][i] \in Task
      BY <1>10, Rows DEF SendRun
    <2>2. r \in Run /\ t \in Task
      BY <2>1 DEF Run, Task
    <2> HIDE DEF r, t
    <2>3. CASE run' = run \cup {r} /\ SetTask(b, i, t) /\ UNCHANGED page
      <3>1. task' \in [Browser -> [Item -> Task \cup {None}]]
        BY <2>2, <2>3, SetTaskType
      <3> QED BY <1>10, <2>2, <2>3, <3>1 DEF SendRun, TypeOK
    <2>4. CASE Settle(b, i) /\ UNCHANGED run
      BY <1>10, <2>4, SettleType DEF SendRun, TypeOK
    <2> QED BY <1>10, <2>3, <2>4 DEF SendRun, r, t
  <1>11. ASSUME NEW b \in Browser, NEW i \in Item, ResponseLost(b, i) PROVE TypeOK'
    BY <1>11, SettleType DEF ResponseLost, TypeOK
  <1>12. ASSUME NEW b \in Browser, WorkerStops(b) PROVE TypeOK'
    <2>1. Idle \in PageState
      BY DEF PageState
    <2> QED BY <1>12, <2>1 DEF WorkerStops, TypeOK
  <1>13. ASSUME NEW b \in Browser, ClearLocalExtensionState(b) PROVE TypeOK'
    BY <1>13 DEF ClearLocalExtensionState, TypeOK
  <1>14. ASSUME NEW b \in Browser, Expire(b) PROVE TypeOK'
    BY <1>14, DropEffect DEF Expire, TypeOK
  <1>15. ASSUME NEW r \in run, CheckAccount(r) \/ Pay(r) \/ PrepareCheckout(r)
                                \/ TabLost(r)
         PROVE TypeOK'
    <2>1. /\ r \in Run /\ run \subseteq Run
          /\ \A pc \in {"prepare", "pay", "mismatch", "failed", "ok"} :
                [r EXCEPT !.pc = pc] \in Run
      BY DEF TypeOK, Run
    <2>2. [browser |-> r.browser, item |-> r.item, id |-> r.id]
            \in [browser : Browser, item : Item, id : Nat]
      BY <2>1 DEF Run
    <2>3. \A q \in Quote : [item |-> r.item, quote |-> q, id |-> r.id]
                             \in [item : Item, quote : Quote, id : Nat]
      BY <2>1 DEF Run
    <2>4. CASE CheckAccount(r)
      BY <2>1, <2>4 DEF CheckAccount, Advance, TypeOK
    <2>5. CASE PrepareCheckout(r)
      BY <2>1, <2>2, <2>5 DEF PrepareCheckout, Advance, TypeOK
    <2>6. CASE Pay(r)
      BY <2>1, <2>3, <2>6 DEF Pay, Advance, TypeOK
    <2>7. CASE TabLost(r)
      BY <2>7 DEF TabLost, TypeOK
    <2> QED BY <1>15, <2>4, <2>5, <2>6, <2>7
  <1>16. ASSUME NEW r \in run, TakeAnswer(r) PROVE TypeOK'
    <2> DEFINE b == r.browser
               i == r.item
               gone == {a \in AttemptFor(b, i) : a.id = r.id}
               a == [item |-> i, id |-> r.id, limit |-> r.limit, url |-> TRUE]
               others == Filter(attempts[b], ToSet(attempts[b]) \ AttemptFor(b, i))
    <2>1. r \in Run /\ run' \subseteq Run
      BY <1>16 DEF TypeOK, TakeAnswer
    <2>2. b \in Browser /\ i \in Item /\ a \in Attempt
      BY <2>1 DEF Run, Attempt
    <2>3. attempts[b] \in Seq(Attempt)
      BY <2>2 DEF TypeOK
    <2>4. others \in Seq(Attempt)
      BY <2>3, FilterKeeps
    <2> HIDE DEF gone, a, others
    <2>5. attempts' \in [Browser -> Seq(Attempt)]
      <3>1. \/ attempts' = [attempts EXCEPT ![b] = Filter(@, ToSet(@) \ gone)]
            \/ Store(b, <<a>> \o others)
            \/ UNCHANGED attempts
        BY <1>16 DEF TakeAnswer, gone, a, others
      <3> QED BY <2>2, <2>4, <3>1, DropEffect, PushEffect DEF TypeOK
    <2>6. /\ task' \in [Browser -> [Item -> Task \cup {None}]]
          /\ page' \in [Page -> PageState]
      <3>1. Settle(b, i) \/ UNCHANGED <<page, task>>
        BY <1>16 DEF TakeAnswer
      <3> QED BY <2>2, <3>1, SettleType DEF TypeOK
    <2> QED BY <1>16, <2>1, <2>5, <2>6 DEF TakeAnswer, TypeOK
  <1>17. CASE UNCHANGED vars
    BY <1>17 DEF vars, TypeOK
  <1>18. CASE Settings
    BY <1>1, <1>2, <1>18 DEF Settings
  <1>19. ASSUME NEW p \in Page, Handoff(p) PROVE TypeOK'
    BY <1>3, <1>4, <1>5, <1>6, <1>7, <1>19 DEF Handoff
  <1>20. ASSUME NEW b \in Browser, Worker(b) PROVE TypeOK'
    BY <1>8, <1>9, <1>10, <1>11, <1>12, <1>13, <1>14, <1>20 DEF Worker
  <1>21. CASE Bridge
    BY <1>15, <1>16, <1>21 DEF Bridge
  <1> QED BY <1>17, <1>18, <1>19, <1>20, <1>21 DEF Next

\* Every variable keeps its type, and the list of attempts its shape.
THEOREM CheckoutTypes == Spec => []TypeOK
  BY InitType, NextType, PTL DEF Spec

-----------------------------------------------------------------------------
(* Payments *)

\* An automatic purchase of an item is in one hand at a time: the page that was
\* authorized, the preparation it started, the run in the tab, the payment.
Pays(r) == r.limit # 0 /\ r.pc \in {"account", "prepare", "pay"}

Prepares(b, i) ==
    /\ task[b][i] # None
    /\ task[b][i].limit # 0
    /\ task[b][i].pc \in {"tab", "run"}

Permits(i) ==
    {<<"page", p>> : p \in {q \in Page : page[q].pc = "authorized" /\ page[q].item = i}}
    \cup {<<"task", b>> : b \in {c \in Browser : Prepares(c, i)}}
    \cup {<<"run", r>> : r \in {q \in run : q.item = i /\ Pays(q)}}
    \cup {<<"paid", x>> : x \in {y \in paid : y.item = i}}

OnePermit == \A i \in Item : \A h, k \in Permits(i) : h = k

\* Whoever is about to pay goes by the limit that was claimed.
Claimed ==
    /\ \A p \in Page : page[p].pc \in {"ready", "authorized"} => page[p].limit # 0
    /\ \A p \in Page : page[p].pc = "authorized" => claimed[page[p].item] = page[p].limit
    /\ \A b \in Browser, i \in Item :
          task[b][i] # None /\ task[b][i].limit # 0 => claimed[i] = task[b][i].limit
    /\ \A r \in run : r.limit # 0 => claimed[r.item] = r.limit
    /\ \A r \in run : r.pc = "pay" => r.limit # 0
    /\ \A x \in paid : claimed[x.item] # 0 /\ x.quote <= claimed[x.item]

PaymentInv == OnePermit /\ Claimed

\* An item that was never claimed is in nobody's hands.
LEMMA NoPermit ==
    ASSUME TypeOK, PaymentInv, NEW i \in Item, claimed[i] = 0
    PROVE  Permits(i) = {}
  <1>1. \A p \in Page : page[p].pc = "authorized" => page[p].item # i
    BY DEF PaymentInv, Claimed
  <1>2. \A b \in Browser : ~Prepares(b, i)
    BY DEF PaymentInv, Claimed, Prepares
  <1>3. \A r \in run : r.item = i => ~Pays(r)
    BY DEF PaymentInv, Claimed, Pays
  <1>4. \A x \in paid : x.item # i
    BY DEF PaymentInv, Claimed
  <1> QED BY <1>1, <1>2, <1>3, <1>4 DEF Permits

\* A permit that is passed on is not doubled.
LEMMA PassedOn ==
    ASSUME OnePermit, NEW i \in Item, NEW h \in Permits(i), NEW k,
           Permits(i)' \subseteq (Permits(i) \ {h}) \cup {k}
    PROVE  \A x, y \in Permits(i)' : x = y
  BY DEF OnePermit

\* Steps that pass nothing on: pages close or open, preparations go on or end,
\* runs end.
Quiet ==
    /\ claimed' = claimed /\ paid' = paid /\ run' \subseteq run
    /\ \A p \in Page : \/ page'[p] = page[p]
                       \/ page'[p].pc \notin {"ready", "authorized"}
                       \/ page'[p].pc = "ready" /\ page'[p].limit # 0
    /\ \A b \in Browser, i \in Item :
          task'[b][i] # None /\ task'[b][i].limit # 0 =>
             /\ task[b][i] # None /\ task[b][i].limit = task'[b][i].limit
             /\ task'[b][i].pc \in {"tab", "run"} => task[b][i].pc \in {"tab", "run"}

LEMMA QuietKeeps ==
    ASSUME PaymentInv, Quiet PROVE PaymentInv'
  <1>1. \A i \in Item : Permits(i)' \subseteq Permits(i)
    <2> SUFFICES ASSUME NEW i \in Item PROVE Permits(i)' \subseteq Permits(i)
      OBVIOUS
    <2>1. \A p \in Page : page'[p].pc = "authorized" /\ page'[p].item = i
                          => page[p].pc = "authorized" /\ page[p].item = i
      BY DEF Quiet
    <2>2. \A b \in Browser : Prepares(b, i)' => Prepares(b, i)
      BY DEF Quiet, Prepares
    <2>3. \A r \in run' : r \in run
      BY DEF Quiet
    <2>4. paid' = paid
      BY DEF Quiet
    <2> QED BY <2>1, <2>2, <2>3, <2>4 DEF Permits, Pays
  <1>2. OnePermit'
    BY <1>1 DEF OnePermit, PaymentInv
  <1>3. Claimed'
    BY DEF Claimed, PaymentInv, Quiet
  <1> QED BY <1>2, <1>3 DEF PaymentInv

LEMMA InitPayments == Init => PaymentInv
  <1> SUFFICES ASSUME Init PROVE PaymentInv
    OBVIOUS
  <1>1. \A i \in Item : Permits(i) = {}
    BY DEF Init, Permits, Prepares, Pays, Idle
  <1> QED BY <1>1 DEF Init, PaymentInv, OnePermit, Claimed, Idle

\* A first claim of an item concerns no purchase there is.
LEMMA FreshClaim ==
    ASSUME TypeOK, Claimed, NEW i \in Item, claimed[i] = 0, NEW l \in Preference, l # 0,
           claimed' = [claimed EXCEPT ![i] = l], UNCHANGED <<task, run, paid>>,
           \A q \in Page : \/ page'[q] = page[q]
                           \/ page'[q].pc \notin {"ready", "authorized"}
                           \/ /\ page'[q].pc = "authorized"
                              /\ page'[q].item = i /\ page'[q].limit = l
    PROVE  Claimed'
  <1>1. \A j \in Item : claimed'[j] = IF j = i THEN l ELSE claimed[j]
    BY DEF TypeOK
  <1>2. \A q \in Page : page[q].pc = "authorized" =>
           page[q].item \in Item /\ page[q].item # i
    BY Rows DEF Claimed, Idle
  <1>3. \A r \in run : r.item \in Item /\ (r.limit # 0 => r.item # i)
    BY DEF Claimed, TypeOK, Run
  <1>4. \A x \in paid : x.item \in Item /\ x.item # i
    BY DEF Claimed, TypeOK
  <1>5. \A q \in Page : page'[q].pc \in {"ready", "authorized"} => page'[q].limit # 0
    BY DEF Claimed
  <1>6. \A q \in Page : page'[q].pc = "authorized" => claimed'[page'[q].item] = page'[q].limit
    BY <1>1, <1>2 DEF Claimed
  <1>7. \A b \in Browser, j \in Item :
           task[b][j] # None /\ task[b][j].limit # 0 => claimed'[j] = task[b][j].limit
    BY <1>1 DEF Claimed
  <1>8. \A r \in run : r.limit # 0 => claimed'[r.item] = r.limit
    BY <1>1, <1>3 DEF Claimed
  <1>9. \A x \in paid : claimed'[x.item] # 0 /\ x.quote <= claimed'[x.item]
    BY <1>1, <1>4 DEF Claimed
  <1>10. \A r \in run : r.pc = "pay" => r.limit # 0
    BY DEF Claimed
  <1> QED BY <1>5, <1>6, <1>7, <1>8, <1>9, <1>10 DEF Claimed

\* The claim hands out the permit of an item that had none.
LEMMA AuthorizePayments ==
    ASSUME TypeOK, PaymentInv, NEW p \in Page, Authorize(p) PROVE PaymentInv'
  <1>0. PICK i : i = page[p].item
    OBVIOUS
  <1> DEFINE s == [page[p] EXCEPT !.pc = "authorized"]
  <1>1. /\ page[p] # Idle /\ i \in Item /\ page[p].limit \in Preference
        /\ page[p].pc = "ready" /\ page[p].limit # 0 /\ Idle \in PageState
    BY <1>0, Rows DEF Authorize, Idle, PaymentInv, Claimed, PageState
  <1>2. s \in PageState /\ s.pc = "authorized" /\ s.item = i /\ s.limit = page[p].limit
    BY <1>0, <1>1, Rows DEF TypeOK, PageState, Idle
  <1>3. CASE Show(p, Idle) /\ UNCHANGED claimed
    <2>1. Quiet
      BY <1>1, <1>3, ShowType DEF Authorize, Quiet, history, Idle
    <2> QED BY <2>1, QuietKeeps
  <1>4. CASE claimed[i] = 0 /\ limit = page[p].limit /\ Show(p, Idle)
             /\ claimed' = [claimed EXCEPT ![i] = limit]
    <2>2. page'[p] = Idle /\ \A q \in Page \ {p} : page'[q] = page[q]
      BY <1>1, <1>4, ShowType
    <2>3. \A j \in Item : Permits(j)' \subseteq Permits(j)
      BY <1>1, <2>2 DEF Authorize, history, Permits, Prepares, Pays, Idle
    <2>4. Permits(i) = {}
      BY <1>1, <1>4, NoPermit
    <2>5. OnePermit'
      BY <2>3 DEF PaymentInv, OnePermit
    <2>6. Claimed'
      <3>1. limit \in Preference /\ limit # 0 /\ Claimed
        BY <1>1, <1>4 DEF PaymentInv
      <3>2. UNCHANGED <<task, run, paid>>
        BY DEF Authorize, history
      <3>3. \A q \in Page : \/ page'[q] = page[q]
                            \/ page'[q].pc \notin {"ready", "authorized"}
                            \/ /\ page'[q].pc = "authorized"
                               /\ page'[q].item = i /\ page'[q].limit = limit
        <4> SUFFICES ASSUME NEW q \in Page, q = p
                     PROVE  \/ page'[q].pc \notin {"ready", "authorized"}
                            \/ /\ page'[q].pc = "authorized"
                               /\ page'[q].item = i /\ page'[q].limit = limit
          BY <2>2
        <4> QED BY <1>4, <2>2 DEF Idle
      <3> QED BY <1>1, <1>4, <3>1, <3>2, <3>3, FreshClaim
    <2> QED BY <2>5, <2>6 DEF PaymentInv
  <1>5. CASE claimed[i] = 0 /\ limit = page[p].limit /\ Show(p, s)
             /\ claimed' = [claimed EXCEPT ![i] = limit]
    <2>2. page'[p] = s /\ \A q \in Page \ {p} : page'[q] = page[q]
      BY <1>2, <1>5, ShowType
    <2> HIDE DEF s
    <2>3. \A j \in Item : j # i => Permits(j)' \subseteq Permits(j)
      BY <1>2, <2>2 DEF Authorize, history, Permits, Prepares, Pays
    <2>4. Permits(i)' \subseteq Permits(i) \cup {<<"page", p>>}
      BY <1>2, <2>2 DEF Authorize, history, Permits, Prepares, Pays
    <2>5. Permits(i) = {}
      BY <1>1, <1>5, NoPermit
    <2>6. OnePermit'
      <3>1. \A x, y \in Permits(i)' : x = y
        BY <2>4, <2>5
      <3>2. \A j \in Item : j # i => \A x, y \in Permits(j)' : x = y
        BY <2>3 DEF PaymentInv, OnePermit
      <3> QED BY <3>1, <3>2 DEF OnePermit
    <2>7. Claimed'
      <3>1. limit \in Preference /\ limit # 0 /\ Claimed
        BY <1>1, <1>5, <1>2 DEF PaymentInv
      <3>2. UNCHANGED <<task, run, paid>>
        BY DEF Authorize, history
      <3>3. \A q \in Page : \/ page'[q] = page[q]
                            \/ page'[q].pc \notin {"ready", "authorized"}
                            \/ /\ page'[q].pc = "authorized"
                               /\ page'[q].item = i /\ page'[q].limit = limit
        <4> SUFFICES ASSUME NEW q \in Page, q = p
                     PROVE  \/ page'[q].pc \notin {"ready", "authorized"}
                            \/ /\ page'[q].pc = "authorized"
                               /\ page'[q].item = i /\ page'[q].limit = limit
          BY <2>2
        <4> QED BY <1>5, <1>2, <2>2 DEF Idle
      <3> QED BY <1>1, <1>5, <1>2, <3>1, <3>2, <3>3, FreshClaim
    <2> QED BY <2>6, <2>7 DEF PaymentInv
  <1> QED BY <1>0, <1>3, <1>4, <1>5 DEF Authorize, Claimable, SamePreferences

\* The page hands its permit to the preparation it starts.
LEMMA HandoffPayments ==
    ASSUME TypeOK, PaymentInv, NEW p \in Page, HandleBrowserBuy(p) PROVE PaymentInv'
  <1>0. PICK b, i : b = Host[p] /\ i = page[p].item
    OBVIOUS
  <1> DEFINE l == page[p].limit
             s == [page[p] EXCEPT !.pc = "sent"]
             t == [pc |-> "tab", limit |-> l, id |-> 0]
  <1>1. /\ page[p] # Idle /\ b \in Browser /\ i \in Item /\ l \in Preference
        /\ page[p].pc = "authorized" \/ (page[p].pc = "loaded" /\ l = 0)
        /\ page[p].pc = "authorized" => l # 0 /\ claimed[i] = l
    BY <1>0, Rows, Facts DEF HandleBrowserBuy, Idle, PaymentInv, Claimed
  <1>2. s \in PageState /\ s.pc = "sent"
    BY <1>1, Rows DEF TypeOK, PageState, Idle
  <1>3. page'[p].pc = "sent" /\ \A q \in Page \ {p} : page'[q] = page[q]
    BY <1>2, ShowType DEF HandleBrowserBuy
  <1>4. UNCHANGED <<claimed, run, paid>>
    BY DEF HandleBrowserBuy, server, history
  <1>5. CASE task[b][i] # None \/ l = 0
    <2>1. \A c \in Browser, j \in Item :
             task'[c][j] = task[c][j] \/ (task'[c][j] = t /\ l = 0)
      BY <1>0, <1>1, <1>5 DEF HandleBrowserBuy, TypeOK
    <2>2. Quiet
      BY <1>3, <1>4, <2>1 DEF Quiet
    <2> QED BY <2>2, QuietKeeps
  <1>6. CASE task[b][i] = None /\ l # 0
    <2>1. /\ task'[b][i] = t /\ t.limit = l /\ t.pc = "tab"
          /\ \A c \in Browser, j \in Item : <<c, j>> # <<b, i>> => task'[c][j] = task[c][j]
      BY <1>0, <1>1, <1>6 DEF HandleBrowserBuy, TypeOK
    <2>2. page[p].pc = "authorized"
      BY <1>1, <1>6
    <2>3. <<"page", p>> \in Permits(i)
      BY <1>0, <2>2 DEF Permits
    <2> HIDE DEF t, s, l
    <2>4. \A j \in Item : j # i => Permits(j)' \subseteq Permits(j)
      BY <1>3, <1>4, <2>1 DEF Permits, Prepares, Pays
    <2>5. Permits(i)' \subseteq (Permits(i) \ {<<"page", p>>}) \cup {<<"task", b>>}
      <3>1. \A q \in Page : page'[q].pc = "authorized" => q # p /\ page'[q] = page[q]
        BY <1>3
      <3>2. \A c \in Browser : Prepares(c, i)' => c = b \/ Prepares(c, i)
        BY <1>1, <2>1 DEF Prepares
      <3>3. run' = run /\ paid' = paid
        BY <1>4
      <3> QED BY <3>1, <3>2, <3>3 DEF Permits, Pays
    <2>6. \A x, y \in Permits(i)' : x = y
      BY <1>1, <2>3, <2>5, PassedOn DEF PaymentInv
    <2>7. OnePermit'
      BY <2>4, <2>6 DEF PaymentInv, OnePermit
    <2>8. \A c \in Browser, j \in Item :
             task'[c][j] # None /\ task'[c][j].limit # 0 => claimed'[j] = task'[c][j].limit
      BY <1>1, <1>4, <2>1, <2>2 DEF PaymentInv, Claimed
    <2>9. Claimed'
      BY <1>3, <1>4, <2>8 DEF PaymentInv, Claimed
    <2> QED BY <2>7, <2>9 DEF PaymentInv
  <1> QED BY <1>5, <1>6

\* The preparation hands its permit to the run it sends.
LEMMA SendPayments ==
    ASSUME TypeOK, PaymentInv, NEW b \in Browser, NEW i \in Item, SendRun(b, i)
    PROVE  PaymentInv'
  <1> DEFINE r == [browser |-> b, item |-> i, id |-> task[b][i].id,
                   limit |-> task[b][i].limit, pc |-> "account"]
             t == [task[b][i] EXCEPT !.pc = "await"]
  <1>1. task[b][i] \in Task /\ task[b][i] # None /\ task[b][i].pc = "run"
    BY Rows DEF SendRun
  <1>2. UNCHANGED <<claimed, paid>>
    BY DEF SendRun, server, history
  <1>3. CASE Settle(b, i) /\ UNCHANGED run
    <2>1. Quiet
      BY <1>2, <1>3, SettleType DEF Quiet, Idle
    <2> QED BY <2>1, QuietKeeps
  <1>4. CASE run' = run \cup {r} /\ SetTask(b, i, t) /\ UNCHANGED page
    <2>1. t \in Task /\ t.limit = task[b][i].limit /\ t.pc = "await"
      BY <1>1 DEF Task
    <2>2. /\ task'[b][i] = t
          /\ \A c \in Browser, j \in Item : <<c, j>> # <<b, i>> => task'[c][j] = task[c][j]
      BY <1>4, <2>1, SetTaskType
    <2>3. r.item = i /\ r.limit = task[b][i].limit /\ r.pc # "pay"
      OBVIOUS
    <2>0. PICK q : q = r
      OBVIOUS
    <2> HIDE DEF t, r
    <2>4. CASE task[b][i].limit = 0
      <3>1. \A j \in Item : Permits(j)' \subseteq Permits(j)
        BY <1>2, <1>4, <2>1, <2>2, <2>3, <2>4 DEF Permits, Prepares, Pays
      <3>2. OnePermit'
        BY <3>1 DEF PaymentInv, OnePermit
      <3>3. Claimed'
        BY <1>2, <1>4, <2>1, <2>2, <2>3, <2>4 DEF PaymentInv, Claimed
      <3> QED BY <3>2, <3>3 DEF PaymentInv
    <2>5. CASE task[b][i].limit # 0
      <3>1. \A j \in Item : j # i => Permits(j)' \subseteq Permits(j)
        BY <1>2, <1>4, <2>1, <2>2, <2>3 DEF Permits, Prepares, Pays
      <3>2. Permits(i)' \subseteq (Permits(i) \ {<<"task", b>>}) \cup {<<"run", q>>}
        BY <1>2, <1>4, <2>0, <2>1, <2>2, <2>3 DEF Permits, Prepares, Pays
      <3>3. <<"task", b>> \in Permits(i)
        BY <1>1, <2>5 DEF Permits, Prepares
      <3>4. \A x, y \in Permits(i)' : x = y
        BY <3>2, <3>3, PassedOn DEF PaymentInv
      <3>5. OnePermit'
        BY <3>1, <3>4 DEF PaymentInv, OnePermit
      <3>6. claimed[i] = task[b][i].limit
        BY <1>1, <2>5 DEF PaymentInv, Claimed
      <3>7. \A c \in Browser, j \in Item :
               task'[c][j] # None /\ task'[c][j].limit # 0 => claimed'[j] = task'[c][j].limit
        BY <1>2, <2>1, <2>2, <3>6 DEF PaymentInv, Claimed
      <3>8. /\ \A x \in run' : x.limit # 0 => claimed'[x.item] = x.limit
            /\ \A x \in run' : x.pc = "pay" => x.limit # 0
        BY <1>2, <1>4, <2>3, <3>6 DEF PaymentInv, Claimed
      <3>9. Claimed'
        BY <1>2, <1>4, <3>7, <3>8 DEF PaymentInv, Claimed
      <3> QED BY <3>5, <3>9 DEF PaymentInv
    <2> QED BY <2>4, <2>5
  <1> QED BY <1>3, <1>4 DEF SendRun

\* A run that goes on keeps its permit, and hands it to the payment.
LEMMA RunPayments ==
    ASSUME TypeOK, PaymentInv, NEW r \in run, NEW pc \in {"prepare", "pay", "mismatch", "failed", "ok"},
           Advance(r, pc), UNCHANGED <<claimed, page, task>>,
           pc \in {"prepare", "pay"} => r.pc \in {"account", "prepare", "pay"},
           pc = "pay" => r.limit # 0,
           \/ paid' = paid
           \/ /\ r.pc = "pay" /\ pc = "ok"
              /\ \E q \in Quote : /\ q <= r.limit
                                  /\ paid' = paid \cup {[item |-> r.item, quote |-> q, id |-> r.id]}
    PROVE  PaymentInv'
  <1>1. PICK n : n = [r EXCEPT !.pc = pc]
    OBVIOUS
  <1>2. /\ r \in Run /\ n.item = r.item /\ n.limit = r.limit /\ n.pc = pc
        /\ r.item \in Item /\ r.limit \in Preference
    BY <1>1 DEF TypeOK, Run
  <1>3. run' = (run \ {r}) \cup {n}
    BY <1>1 DEF Advance
  <1>4. PICK i \in Item : i = r.item
    BY <1>2
  <1>5. /\ \A x \in run' : x.limit # 0 => claimed'[x.item] = x.limit
        /\ \A x \in run' : x.pc = "pay" => x.limit # 0
    BY <1>2, <1>3 DEF PaymentInv, Claimed
  <1>6. CASE paid' = paid
    <2>1. \A j \in Item : j # i => Permits(j)' \subseteq Permits(j)
      BY <1>2, <1>3, <1>4, <1>6 DEF Permits, Prepares, Pays
    <2>2. CASE Pays(r)
      <3>1. <<"run", r>> \in Permits(i)
        BY <1>4, <2>2 DEF Permits
      <3>2. Permits(i)' \subseteq (Permits(i) \ {<<"run", r>>}) \cup {<<"run", n>>}
        BY <1>3, <1>6 DEF Permits, Prepares, Pays
      <3>3. \A x, y \in Permits(i)' : x = y
        BY <3>1, <3>2, PassedOn DEF PaymentInv
      <3>4. OnePermit'
        BY <2>1, <3>3 DEF PaymentInv, OnePermit
      <3> QED BY <1>5, <1>6, <3>4 DEF PaymentInv, Claimed
    <2>3. CASE ~Pays(r)
      <3>1. Permits(i)' \subseteq Permits(i)
        BY <1>2, <1>3, <1>6, <2>3 DEF Permits, Prepares, Pays
      <3>2. OnePermit'
        BY <2>1, <3>1 DEF PaymentInv, OnePermit
      <3> QED BY <1>5, <1>6, <3>2 DEF PaymentInv, Claimed
    <2> QED BY <2>2, <2>3
  <1>7. CASE paid' # paid
    <2>1. PICK q \in Quote :
             /\ q <= r.limit
             /\ paid' = paid \cup {[item |-> r.item, quote |-> q, id |-> r.id]}
      BY <1>7
    <2>2. PICK x : x = [item |-> r.item, quote |-> q, id |-> r.id]
      OBVIOUS
    <2>3. x.item = i /\ x.quote = q /\ paid' = paid \cup {x} /\ r.pc = "pay" /\ pc = "ok"
      BY <1>4, <1>7, <2>1, <2>2
    <2>4. r.limit # 0
      BY <2>3 DEF PaymentInv, Claimed
    <2>5. <<"run", r>> \in Permits(i)
      BY <1>4, <2>3, <2>4 DEF Permits, Pays
    <2>6. Permits(i)' \subseteq (Permits(i) \ {<<"run", r>>}) \cup {<<"paid", x>>}
      BY <1>2, <1>3, <2>3 DEF Permits, Prepares, Pays
    <2>7. \A j \in Item : j # i => Permits(j)' \subseteq Permits(j)
      BY <1>2, <1>3, <1>4, <2>3 DEF Permits, Prepares, Pays
    <2>8. \A y, z \in Permits(i)' : y = z
      BY <2>5, <2>6, PassedOn DEF PaymentInv
    <2>9. OnePermit'
      BY <2>7, <2>8 DEF PaymentInv, OnePermit
    <2>10. claimed[i] = r.limit
      BY <1>4, <2>4 DEF PaymentInv, Claimed
    <2>11. \A y \in paid' : claimed'[y.item] # 0 /\ y.quote <= claimed'[y.item]
      BY <2>1, <2>3, <2>4, <2>10 DEF PaymentInv, Claimed
    <2>12. Claimed'
      BY <1>5, <2>11 DEF PaymentInv, Claimed
    <2> QED BY <2>9, <2>12 DEF PaymentInv
  <1> QED BY <1>6, <1>7

LEMMA NextPayments == TypeOK /\ PaymentInv /\ [Next]_vars => PaymentInv'
  <1> SUFFICES ASSUME TypeOK, PaymentInv, [Next]_vars PROVE PaymentInv'
    OBVIOUS
  <1> USE DEF server, history
  <1>1. ASSUME Settings PROVE PaymentInv'
    <2>1. Quiet
      BY <1>1 DEF Settings, SetCheckoutModuleEnabled, SaveCheckoutPreferences, Quiet
    <2> QED BY <2>1, QuietKeeps
  <1>2. ASSUME NEW p \in Page, Handoff(p) PROVE PaymentInv'
    <2>1. ASSUME NEW i \in Item, OpenItemCheckout(p, i) PROVE Quiet
      <3> DEFINE s == [pc |-> "loaded", item |-> i, limit |-> limit]
      <3>1. s \in PageState /\ s.pc = "loaded"
        BY DEF TypeOK, PageState
      <3>2. page'[p].pc = "loaded" /\ \A q \in Page \ {p} : page'[q] = page[q]
        BY <2>1, <3>1, ShowType DEF OpenItemCheckout
      <3> QED BY <2>1, <3>2 DEF OpenItemCheckout, Quiet
    <2>2. ASSUME CheckReadiness(p) PROVE Quiet
      <3> DEFINE s == [page[p] EXCEPT !.pc = "ready"]
      <3>1. page[p] # Idle /\ s \in PageState /\ s.pc = "ready" /\ s.limit # 0
        BY <2>2, Rows DEF CheckReadiness, TypeOK, PageState, Idle
      <3>2. /\ page'[p].pc = "ready" /\ page'[p].limit # 0
            /\ \A q \in Page \ {p} : page'[q] = page[q]
        BY <2>2, <3>1, ShowType DEF CheckReadiness
      <3> QED BY <2>2, <3>2 DEF CheckReadiness, Quiet
    <2>3. ASSUME GiveUp(p) PROVE Quiet
      <3>1. Idle \in PageState
        BY DEF PageState
      <3>2. page'[p].pc = "idle" /\ \A q \in Page \ {p} : page'[q] = page[q]
        BY <2>3, <3>1, ShowType DEF GiveUp, Idle
      <3> QED BY <2>3, <3>2 DEF GiveUp, Quiet
    <2> QED BY <1>2, <2>1, <2>2, <2>3, QuietKeeps, AuthorizePayments, HandoffPayments
            DEF Handoff
  <1>3. ASSUME NEW b \in Browser, Worker(b) PROVE PaymentInv'
    <2>1. ASSUME NEW i \in Item, SaveAttempt(b, i) PROVE Quiet
      <3>1. task[b][i] \in Task /\ task[b][i].pc = "tab"
        BY <2>1, Rows DEF SaveAttempt
      <3>2. PICK t \in Task : SetTask(b, i, t) /\ t.limit = task[b][i].limit
        <4>1. CASE AttemptFor(b, i) # {}
          <5> DEFINE t == [task[b][i] EXCEPT !.pc = "found"]
          <5>1. t \in Task /\ t.limit = task[b][i].limit
            BY <3>1 DEF Task
          <5> QED BY <2>1, <4>1, <5>1 DEF SaveAttempt
        <4>2. CASE AttemptFor(b, i) = {}
          <5> DEFINE t == [task[b][i] EXCEPT !.pc = "run", !.id = started + 1]
          <5>0. started + 1 \in Nat
            BY DEF TypeOK
          <5>1. t \in Task /\ t.limit = task[b][i].limit
            BY <3>1, <5>0 DEF Task
          <5> QED BY <2>1, <4>2, <5>1 DEF SaveAttempt
        <4> QED BY <4>1, <4>2
      <3>3. /\ task'[b][i] = t
            /\ \A c \in Browser, j \in Item : <<c, j>> # <<b, i>> => task'[c][j] = task[c][j]
        BY <3>2, SetTaskType
      <3>4. UNCHANGED <<claimed, paid, run, page>>
        BY <2>1 DEF SaveAttempt
      <3>5. task[b][i] # None
        BY <2>1 DEF SaveAttempt
      <3> QED BY <3>1, <3>2, <3>3, <3>4, <3>5 DEF Quiet
    <2>2. ASSUME NEW i \in Item, EndWithoutRun(b, i) \/ ResponseLost(b, i) PROVE Quiet
      BY <2>2, SettleType DEF EndWithoutRun, ResponseLost, Quiet, Idle
    <2>3. ASSUME WorkerStops(b) PROVE Quiet
      <3>1. \A c \in Browser, i \in Item : task'[c][i] = task[c][i] \/ task'[c][i] = None
        BY <2>3 DEF WorkerStops, TypeOK
      <3>2. \A p \in Page : page'[p] = page[p] \/ page'[p].pc = "idle"
        BY <2>3 DEF WorkerStops, Idle
      <3> QED BY <2>3, <3>1, <3>2 DEF WorkerStops, Quiet
    <2>4. ASSUME ClearLocalExtensionState(b) \/ Expire(b) PROVE Quiet
      BY <2>4 DEF ClearLocalExtensionState, Expire, Quiet
    <2> QED BY <1>3, <2>1, <2>2, <2>3, <2>4, QuietKeeps, SendPayments DEF Worker
  <1>4. ASSUME NEW r \in run, CheckAccount(r) PROVE PaymentInv'
    BY <1>4, RunPayments DEF CheckAccount
  <1>5. ASSUME NEW r \in run, PrepareCheckout(r) PROVE PaymentInv'
    <2>1. PICK pc \in {"failed", "pay", "ok"} :
             Advance(r, pc) /\ (pc = "pay" => r.limit # 0)
      BY <1>5 DEF PrepareCheckout, IsAuto
    <2>2. r.pc = "prepare" /\ UNCHANGED <<claimed, page, task, paid>>
      BY <1>5 DEF PrepareCheckout
    <2> QED BY <2>1, <2>2, RunPayments
  <1>6. ASSUME NEW r \in run, Pay(r) PROVE PaymentInv'
    <2>1. r.pc = "pay" /\ Advance(r, "ok") /\ UNCHANGED <<claimed, page, task>>
      BY <1>6 DEF Pay
    <2>2. \/ paid' = paid
          \/ \E q \in Quote : /\ q <= r.limit
                              /\ paid' = paid \cup {[item |-> r.item, quote |-> q, id |-> r.id]}
      BY <1>6 DEF Pay
    <2> QED BY <2>1, <2>2, RunPayments
  <1>7. ASSUME NEW r \in run, TabLost(r) PROVE PaymentInv'
    <2>1. Quiet
      BY <1>7 DEF TabLost, Quiet
    <2> QED BY <2>1, QuietKeeps
  <1>8. ASSUME NEW r \in run, TakeAnswer(r) PROVE PaymentInv'
    <2>1. r.browser \in Browser /\ r.item \in Item
      BY DEF TypeOK, Run
    <2>2. run' \subseteq run /\ UNCHANGED <<claimed, paid>>
      BY <1>8 DEF TakeAnswer
    <2>3. UNCHANGED <<page, task>> \/ Settle(r.browser, r.item)
      BY <1>8 DEF TakeAnswer
    <2>4. Quiet
      BY <2>1, <2>2, <2>3, SettleType DEF Quiet, Idle
    <2> QED BY <2>4, QuietKeeps
  <1>9. CASE UNCHANGED vars
    <2>1. Quiet
      BY <1>9 DEF vars, Quiet
    <2> QED BY <2>1, QuietKeeps
  <1> QED BY <1>1, <1>2, <1>3, <1>4, <1>5, <1>6, <1>7, <1>8, <1>9 DEF Next, Bridge

THEOREM Payments == Spec => []PaymentInv
  <1>1. Spec => []TypeOK
    BY CheckoutTypes
  <1> QED BY <1>1, InitPayments, NextPayments, PTL DEF Spec

\* An item is paid for automatically at most once: a permit is handed on from
\* the claim to the payment and the claim is taken once.
THEOREM PaidOnceHolds == Spec => []PaidOnce
  <1>1. TypeOK /\ PaymentInv => PaidOnce
    <2> SUFFICES ASSUME TypeOK, PaymentInv, NEW x \in paid, NEW y \in paid, x.item = y.item
                 PROVE  x = y
      BY DEF PaidOnce
    <2>1. x.item \in Item
      BY DEF TypeOK
    <2>2. <<"paid", x>> \in Permits(x.item) /\ <<"paid", y>> \in Permits(x.item)
      BY DEF Permits
    <2> QED BY <2>1, <2>2 DEF PaymentInv, OnePermit
  <1> QED BY <1>1, CheckoutTypes, Payments, PTL

\* A payment keeps within the limit that was saved when it was claimed.
THEOREM PaidWithinClaimHolds == Spec => []PaidWithinClaim
  <1>1. PaymentInv => PaidWithinClaim
    BY DEF PaymentInv, Claimed, PaidWithinClaim
  <1> QED BY <1>1, Payments, PTL
-----------------------------------------------------------------------------
(* Attempts *)

\* A preparation past its checkpoint.
Runs(b, i) == task[b][i] # None /\ task[b][i].pc \in {"run", "await"}

\* An identifier is of one preparation and of one run.
OneId ==
    /\ \A b \in Browser, i \in Item : Runs(b, i) => task[b][i].id <= started
    /\ \A r \in run : r.id <= started
    /\ \A s \in sent : s.id <= started
    /\ \A b, c \in Browser, i, j \in Item :
          Runs(b, i) /\ Runs(c, j) /\ task[b][i].id = task[c][j].id => b = c /\ i = j
    /\ \A r, q \in run : r.id = q.id => r = q

\* What was sent is of an automatic run, and of one that got that far.
SentBy ==
    \A s \in sent :
      /\ \A b \in Browser, i \in Item :
            Runs(b, i) /\ task[b][i].id = s.id => task[b][i].pc = "await"
      /\ \A r \in run : r.id = s.id =>
            /\ r.browser = s.browser /\ r.item = s.item /\ r.limit # 0
            /\ r.pc \notin {"account", "mismatch"}

\* A run that is not sent yet is in no tab; while one is sent or awaited its
\* attempt is the only one of the item.
Unsent ==
    \A b \in Browser, i \in Item : Runs(b, i) =>
      /\ task[b][i].pc = "run" => \A r \in run : r.id # task[b][i].id
      /\ \A a \in Stored(b) : a.item = i => a.id = task[b][i].id

\* An automatic purchase that may still send, or has sent, is on record.
Kept(b, i, id) ==
    id > floor[b] => \E a \in Stored(b) : a.item = i /\ a.id = id /\ IsAuto(a)

OnRecord ==
    /\ \A b \in Browser, i \in Item : Runs(b, i) /\ task[b][i].pc = "run" /\ task[b][i].limit # 0
          => Kept(b, i, task[b][i].id)
    /\ \A r \in run : r.limit # 0 /\ r.pc \in {"account", "prepare"}
          => Kept(r.browser, r.item, r.id)
    /\ \A s \in sent : Kept(s.browser, s.item, s.id)

RecordInv == OneId /\ SentBy /\ Unsent /\ OnRecord

\* Identifiers are numbers.
LEMMA Ids ==
    ASSUME TypeOK
    PROVE  /\ started \in Nat
           /\ \A b \in Browser, i \in Item : Runs(b, i) => task[b][i].id \in Nat
           /\ \A r \in run : r.id \in Nat /\ r.browser \in Browser /\ r.item \in Item
           /\ \A s \in sent : s.id \in Nat /\ s.browser \in Browser /\ s.item \in Item
           /\ \A b \in Browser : floor[b] \in Nat
  <1>1. \A b \in Browser, i \in Item : Runs(b, i) => task[b][i].id \in Nat
    BY Rows DEF Runs, Task
  <1>2. \A r \in run : r.id \in Nat /\ r.browser \in Browser /\ r.item \in Item
    BY DEF TypeOK, Run
  <1> QED BY <1>1, <1>2 DEF TypeOK

LEMMA InitRecord == Init => RecordInv
  BY DEF Init, RecordInv, OneId, SentBy, Unsent, OnRecord, Runs

\* What is on record after a step.
LEMMA RecordParts ==
    ASSUME \A b \in Browser, i \in Item : \A k :
              Runs(b, i)' /\ k = task'[b][i].id /\ task'[b][i].pc = "run"
              /\ task'[b][i].limit # 0 => Kept(b, i, k)',
           \A r \in run' : r.limit # 0 /\ r.pc \in {"account", "prepare"}
              => Kept(r.browser, r.item, r.id)',
           \A s \in sent' : Kept(s.browser, s.item, s.id)'
    PROVE  OnRecord'
  BY DEF OnRecord, Kept

\* Steps that begin nothing: preparations and runs end, review attempts go.
Forget ==
    /\ sent' = sent /\ floor' = floor /\ started' = started /\ run' \subseteq run
    /\ \A b \in Browser, i \in Item : Runs(b, i)' => task'[b][i] = task[b][i]
    /\ \A b \in Browser : /\ Stored(b)' \subseteq Stored(b)
                          /\ \A a \in Stored(b) : IsAuto(a) => a \in Stored(b)'

LEMMA ForgetKeeps ==
    ASSUME TypeOK, RecordInv, Forget PROVE RecordInv'
  <1>1. \A b \in Browser, i \in Item : Runs(b, i)' => Runs(b, i) /\ task'[b][i] = task[b][i]
    BY DEF Forget, Runs
  <1>2. OneId'
    BY <1>1 DEF RecordInv, OneId, Forget
  <1>3. SentBy'
    BY <1>1 DEF RecordInv, SentBy, Forget
  <1>4. Unsent'
    BY <1>1 DEF RecordInv, Unsent, Forget
  <1>5. ASSUME NEW b \in Browser, NEW i, NEW id, Kept(b, i, id) PROVE Kept(b, i, id)'
    BY <1>5 DEF Kept, Forget, IsAuto
  <1>6. OnRecord'
    <2>1. ASSUME NEW b \in Browser, NEW i \in Item, NEW k, Runs(b, i)', k = task'[b][i].id,
                 task'[b][i].pc = "run", task'[b][i].limit # 0
          PROVE  Kept(b, i, k)'
      BY <1>1, <1>5, <2>1 DEF RecordInv, OnRecord
    <2>2. \A r \in run' : r.limit # 0 /\ r.pc \in {"account", "prepare"}
             => Kept(r.browser, r.item, r.id)'
      BY <1>5, Ids DEF RecordInv, OnRecord, Forget
    <2>3. \A s \in sent' : Kept(s.browser, s.item, s.id)'
      BY <1>5, Ids DEF RecordInv, OnRecord, Forget
    <2> QED BY <2>1, <2>2, <2>3, RecordParts
  <1> QED BY <1>2, <1>3, <1>4, <1>6 DEF RecordInv

\* The checkpoint: the attempt is stored under an identifier of its own.
LEMMA CheckpointRecord ==
    ASSUME TypeOK, RecordInv, NEW b \in Browser, NEW i \in Item, SaveAttempt(b, i),
           AttemptFor(b, i) = {}
    PROVE  RecordInv'
  <1> DEFINE l == task[b][i].limit
             n == started + 1
             a == [item |-> i, id |-> n, limit |-> l, url |-> FALSE]
             t == [task[b][i] EXCEPT !.pc = "run", !.id = n]
  <1>1. task[b][i] \in Task /\ n \in Nat /\ attempts[b] \in Seq(Attempt)
    BY Rows DEF SaveAttempt, TypeOK
  <1>2. t \in Task /\ t.pc = "run" /\ t.id = n /\ t.limit = l
    BY <1>1 DEF Task
  <1>3. a \in Attempt /\ a.item = i /\ a.id = n /\ a.limit = l
    BY <1>1 DEF Attempt, Task, Preference
  <1>4. /\ started' = n /\ Store(b, <<a>> \o attempts[b]) /\ SetTask(b, i, t)
        /\ UNCHANGED <<run, sent, floor>>
    BY DEF SaveAttempt, history
  <1>5. /\ task'[b][i] = t
        /\ \A c \in Browser, j \in Item : c # b \/ j # i => task'[c][j] = task[c][j]
    BY <1>2, <1>4, SetTaskType
  <1> HIDE DEF a, t, l
  <1>6. /\ \A c \in Browser \ {b} : Stored(c)' = Stored(c)
        /\ Stored(b)' \subseteq Stored(b) \cup {a}
        /\ \A x \in Stored(b) \cup {a} : IsAuto(x) => x \in Stored(b)'
    BY <1>1, <1>3, <1>4, PushEffect DEF Stored
  <1>7. \A x \in Stored(b) : x.item # i
    BY DEF AttemptFor, Stored
  <1>8. None # t
    BY <1>2, Facts
  <1>9. /\ Runs(b, i)'
        /\ \A c \in Browser, j \in Item : c # b \/ j # i => (Runs(c, j)' <=> Runs(c, j))
    BY <1>2, <1>5, <1>8 DEF Runs
  <1>10. n > started /\ n = started + 1
    BY <1>1, Ids
  <1> HIDE DEF n
  <1>11. /\ \A c \in Browser, j \in Item : Runs(c, j) => task[c][j].id < n
         /\ \A r \in run : r.id < n
         /\ \A s \in sent : s.id < n
    BY <1>1, <1>10, Ids DEF RecordInv, OneId
  <1>12. OneId'
    <2>1. \A c \in Browser, j \in Item : Runs(c, j)' => task'[c][j].id <= n
      BY <1>1, <1>2, <1>5, <1>9, <1>11, Ids
    <2>2. \A c, d \in Browser, j, k \in Item :
             Runs(c, j)' /\ Runs(d, k)' /\ task'[c][j].id = task'[d][k].id => c = d /\ j = k
      <3> SUFFICES ASSUME NEW c \in Browser, NEW d \in Browser, NEW j \in Item, NEW k \in Item,
                          Runs(c, j)', Runs(d, k)', task'[c][j].id = task'[d][k].id
                   PROVE  c = d /\ j = k
        OBVIOUS
      <3>1. CASE c = b /\ j = i
        BY <1>1, <1>2, <1>5, <1>9, <1>11, Ids, <3>1
      <3>2. CASE d = b /\ k = i
        BY <1>1, <1>2, <1>5, <1>9, <1>11, Ids, <3>2
      <3>3. CASE (c # b \/ j # i) /\ (d # b \/ k # i)
        BY <1>5, <1>9, <3>3 DEF RecordInv, OneId
      <3> QED BY <3>1, <3>2, <3>3
    <2>3. \A r \in run : r.id <= n
      BY <1>1, <1>11, Ids
    <2>4. \A s \in sent : s.id <= n
      BY <1>1, <1>11, Ids
    <2> QED BY <1>4, <2>1, <2>2, <2>3, <2>4 DEF RecordInv, OneId
  <1>13. SentBy'
    <2>1. \A s \in sent, c \in Browser, j \in Item :
             Runs(c, j)' /\ task'[c][j].id = s.id => task'[c][j].pc = "await"
      <3> SUFFICES ASSUME NEW s \in sent, NEW c \in Browser, NEW j \in Item,
                          Runs(c, j)', task'[c][j].id = s.id
                   PROVE  task'[c][j].pc = "await"
        OBVIOUS
      <3>1. c # b \/ j # i
        BY <1>1, <1>2, <1>5, <1>11, Ids
      <3> QED BY <1>5, <1>9, <3>1 DEF RecordInv, SentBy
    <2> QED BY <1>4, <2>1 DEF RecordInv, SentBy
  <1>14. Unsent'
    <2> SUFFICES ASSUME NEW c \in Browser, NEW j \in Item, Runs(c, j)'
                 PROVE  /\ task'[c][j].pc = "run" => \A r \in run' : r.id # task'[c][j].id
                        /\ \A x \in Stored(c)' : x.item = j => x.id = task'[c][j].id
      BY DEF Unsent
    <2>1. CASE c = b /\ j = i
      <3>1. \A r \in run' : r.id # n
        BY <1>1, <1>4, <1>11, Ids
      <3>2. \A x \in Stored(b)' : x.item = i => x.id = n
        BY <1>3, <1>6, <1>7
      <3> QED BY <1>2, <1>5, <2>1, <3>1, <3>2
    <2>2. CASE c # b \/ j # i
      <3>1. Runs(c, j) /\ task'[c][j] = task[c][j]
        BY <1>5, <1>9, <2>2
      <3>2. \A x \in Stored(c)' : x.item = j => x \in Stored(c)
        BY <1>3, <1>6, <2>2
      <3> QED BY <1>4, <3>1, <3>2 DEF RecordInv, Unsent
    <2> QED BY <2>1, <2>2
  <1>15. ASSUME NEW c \in Browser, NEW j, NEW id, Kept(c, j, id) PROVE Kept(c, j, id)'
    BY <1>4, <1>6, <1>15 DEF Kept, IsAuto
  <1>16. OnRecord'
    <2>1. ASSUME NEW c \in Browser, NEW j \in Item, NEW k, Runs(c, j)', k = task'[c][j].id,
                 task'[c][j].pc = "run", task'[c][j].limit # 0
          PROVE  Kept(c, j, k)'
      <3>1. CASE c = b /\ j = i
        <4>1. l # 0 /\ IsAuto(a)
          BY <1>2, <1>3, <1>5, <2>1, <3>1 DEF IsAuto
        <4>2. a \in Stored(b)'
          BY <1>6, <4>1
        <4> QED BY <1>2, <1>3, <1>5, <2>1, <3>1, <4>1, <4>2 DEF Kept
      <3>2. CASE c # b \/ j # i
        <4>1. Runs(c, j) /\ task'[c][j] = task[c][j]
          BY <1>5, <1>9, <2>1, <3>2
        <4>2. Kept(c, j, k)
          BY <2>1, <4>1 DEF RecordInv, OnRecord
        <4> QED BY <1>15, <4>2
      <3> QED BY <3>1, <3>2
    <2>2. \A r \in run' : r.limit # 0 /\ r.pc \in {"account", "prepare"}
             => Kept(r.browser, r.item, r.id)'
      BY <1>4, <1>15, Ids DEF RecordInv, OnRecord
    <2>3. \A s \in sent' : Kept(s.browser, s.item, s.id)'
      BY <1>4, <1>15, Ids DEF RecordInv, OnRecord
    <2> QED BY <2>1, <2>2, <2>3, RecordParts
  <1> QED BY <1>12, <1>13, <1>14, <1>16 DEF RecordInv

\* A run is sent under the identifier of its preparation, which no run has yet.
LEMMA SendRecord ==
    ASSUME TypeOK, RecordInv, NEW b \in Browser, NEW i \in Item, SendRun(b, i)
    PROVE  RecordInv'
  <1> DEFINE r == [browser |-> b, item |-> i, id |-> task[b][i].id,
                   limit |-> task[b][i].limit, pc |-> "account"]
             t == [task[b][i] EXCEPT !.pc = "await"]
  <1>1. task[b][i] \in Task /\ task[b][i] # None /\ task[b][i].pc = "run" /\ Runs(b, i)
    BY Rows DEF SendRun, Runs
  <1>2. UNCHANGED <<attempts, started, sent, floor>>
    BY DEF SendRun, history
  <1>3. CASE Settle(b, i) /\ UNCHANGED run
    <2>1. Forget
      BY <1>2, <1>3, SettleType DEF Forget, Runs, Stored
    <2> QED BY <2>1, ForgetKeeps
  <1>4. CASE run' = run \cup {r} /\ SetTask(b, i, t)
    <2>1. t \in Task /\ t.limit = task[b][i].limit /\ t.pc = "await" /\ t.id = task[b][i].id
      BY <1>1 DEF Task
    <2>2. /\ task'[b][i] = t
          /\ \A c \in Browser, j \in Item : c # b \/ j # i => task'[c][j] = task[c][j]
      BY <1>4, <2>1, SetTaskType
    <2>3. PICK q : q = r
      OBVIOUS
    <2>4. /\ run' = run \cup {q} /\ q.browser = b /\ q.item = i /\ q.id = task[b][i].id
          /\ q.limit = task[b][i].limit /\ q.pc = "account"
      BY <1>4, <2>3
    <2> HIDE DEF t, r
    <2>5. \A c \in Browser, j \in Item : Runs(c, j)' =>
             /\ Runs(c, j) /\ task'[c][j].id = task[c][j].id
             /\ \/ task'[c][j] = task[c][j] /\ (c # b \/ j # i)
                \/ task'[c][j].pc = "await"
      BY <1>1, <2>1, <2>2 DEF Runs
    <2>6. \A x \in run : x.id # q.id
      BY <1>1, <2>4 DEF RecordInv, Unsent
    <2>7. \A s \in sent : s.id # q.id
      BY <1>1, <2>4 DEF RecordInv, SentBy
    <2>8. OneId'
      <3>1. q.id <= started
        BY <1>1, <2>4 DEF RecordInv, OneId
      <3> QED BY <1>2, <2>4, <2>5, <2>6, <3>1 DEF RecordInv, OneId
    <2>9. SentBy'
      BY <1>2, <2>4, <2>5, <2>7 DEF RecordInv, SentBy
    <2>10. Unsent'
      <3> SUFFICES ASSUME NEW c \in Browser, NEW j \in Item, Runs(c, j)'
                   PROVE  /\ task'[c][j].pc = "run" => \A x \in run' : x.id # task'[c][j].id
                          /\ \A x \in Stored(c)' : x.item = j => x.id = task'[c][j].id
        BY DEF Unsent
      <3>1. \A x \in Stored(c)' : x.item = j => x.id = task'[c][j].id
        BY <1>2, <2>5 DEF RecordInv, Unsent, Stored
      <3>2. ASSUME task'[c][j].pc = "run" PROVE \A x \in run' : x.id # task'[c][j].id
        <4>1. Runs(c, j) /\ task'[c][j] = task[c][j] /\ (c # b \/ j # i)
          BY <2>5, <3>2
        <4>2. q.id # task[c][j].id
          BY <1>1, <2>4, <4>1 DEF RecordInv, OneId
        <4> QED BY <2>4, <3>2, <4>1, <4>2 DEF RecordInv, Unsent
      <3> QED BY <3>1, <3>2
    <2>11. \A c, j, k : Kept(c, j, k)' <=> Kept(c, j, k)
      BY <1>2 DEF Kept, Stored, IsAuto
    <2>12. OnRecord'
      <3>1. ASSUME NEW c \in Browser, NEW j \in Item, NEW k, Runs(c, j)', k = task'[c][j].id,
                   task'[c][j].pc = "run", task'[c][j].limit # 0
            PROVE  Kept(c, j, k)'
        BY <2>5, <2>11, <3>1 DEF RecordInv, OnRecord
      <3>2. q.limit # 0 => Kept(b, i, q.id)
        BY <1>1, <2>4 DEF RecordInv, OnRecord
      <3>3. \A x \in run' : x.limit # 0 /\ x.pc \in {"account", "prepare"}
               => Kept(x.browser, x.item, x.id)'
        BY <2>4, <2>11, <3>2 DEF RecordInv, OnRecord
      <3>4. \A s \in sent' : Kept(s.browser, s.item, s.id)'
        BY <1>2, <2>11 DEF RecordInv, OnRecord
      <3> QED BY <3>1, <3>3, <3>4, RecordParts
    <2> QED BY <2>8, <2>9, <2>10, <2>12 DEF RecordInv
  <1> QED BY <1>3, <1>4 DEF SendRun

\* A run that goes on, and may send its first requests.
LEMMA RunRecord ==
    ASSUME TypeOK, RecordInv, NEW r \in run,
           NEW pc \in {"prepare", "pay", "mismatch", "failed", "ok"},
           Advance(r, pc), UNCHANGED <<task, attempts, started, floor>>,
           pc \in {"prepare", "mismatch"} => r.pc = "account",
           \/ sent' = sent
           \/ /\ r.pc = "prepare" /\ r.limit # 0
              /\ sent' = sent \cup {[browser |-> r.browser, item |-> r.item, id |-> r.id]}
    PROVE  RecordInv'
  <1>1. PICK n : n = [r EXCEPT !.pc = pc]
    OBVIOUS
  <1>2. /\ n.browser = r.browser /\ n.item = r.item /\ n.id = r.id
        /\ n.limit = r.limit /\ n.pc = pc
        /\ r.browser \in Browser /\ r.item \in Item
    BY <1>1 DEF TypeOK, Run
  <1>3. run' = (run \ {r}) \cup {n}
    BY <1>1 DEF Advance
  <1>4. \A c \in Browser, j \in Item : Runs(c, j)' <=> Runs(c, j)
    BY DEF Runs
  <1>5. PICK e : e = [browser |-> r.browser, item |-> r.item, id |-> r.id]
    OBVIOUS
  <1>6. /\ e.browser = r.browser /\ e.item = r.item /\ e.id = r.id
        /\ \A s \in sent' : \/ s \in sent
                            \/ s = e /\ r.pc = "prepare" /\ r.limit # 0
    BY <1>5
  <1>7. \A q \in run : q.id = r.id => q = r
    BY DEF RecordInv, OneId
  <1>8. OneId'
    <2>1. \A s \in sent' : s.id <= started
      BY <1>6 DEF RecordInv, OneId
    <2>2. \A x \in run' : x.id <= started
      BY <1>2, <1>3 DEF RecordInv, OneId
    <2>3. \A x, y \in run' : x.id = y.id => x = y
      BY <1>2, <1>3, <1>7 DEF RecordInv, OneId
    <2> QED BY <1>4, <2>1, <2>2, <2>3 DEF RecordInv, OneId
  <1>9. SentBy'
    <2> SUFFICES ASSUME NEW s \in sent'
                 PROVE  /\ \A b \in Browser, i \in Item :
                              Runs(b, i) /\ task[b][i].id = s.id => task[b][i].pc = "await"
                        /\ \A x \in run' : x.id = s.id =>
                              /\ x.browser = s.browser /\ x.item = s.item /\ x.limit # 0
                              /\ x.pc \notin {"account", "mismatch"}
      BY <1>4 DEF SentBy
    <2>1. CASE s \in sent
      <3>1. s.id = r.id => /\ r.browser = s.browser /\ r.item = s.item /\ r.limit # 0
                           /\ pc \notin {"account", "mismatch"}
        BY <2>1 DEF RecordInv, SentBy
      <3> QED BY <1>2, <1>3, <2>1, <3>1 DEF RecordInv, SentBy
    <2>2. CASE s = e /\ r.pc = "prepare" /\ r.limit # 0
      <3>1. \A b \in Browser, i \in Item :
               Runs(b, i) /\ task[b][i].id = r.id => task[b][i].pc = "await"
        BY DEF RecordInv, Unsent, Runs
      <3>2. \A x \in run' : x.id = r.id => x = n
        BY <1>3, <1>7
      <3> QED BY <1>2, <1>6, <2>2, <3>1, <3>2
    <2> QED BY <1>6, <2>1, <2>2
  <1>10. Unsent'
    <2>1. \A x \in run' : \E q \in run : x.id = q.id
      BY <1>2, <1>3
    <2> QED BY <1>4, <2>1 DEF RecordInv, Unsent, Stored
  <1>11. \A c, j, k : Kept(c, j, k)' <=> Kept(c, j, k)
    BY DEF Kept, Stored, IsAuto
  <1>12. OnRecord'
    <2>1. ASSUME NEW c \in Browser, NEW j \in Item, NEW k, Runs(c, j)', k = task'[c][j].id,
                 task'[c][j].pc = "run", task'[c][j].limit # 0
          PROVE  Kept(c, j, k)'
      BY <1>4, <1>11, <2>1 DEF RecordInv, OnRecord
    <2>2. \A x \in run' : x.limit # 0 /\ x.pc \in {"account", "prepare"}
             => Kept(x.browser, x.item, x.id)'
      BY <1>2, <1>3, <1>11 DEF RecordInv, OnRecord
    <2>3. \A s \in sent' : Kept(s.browser, s.item, s.id)'
      BY <1>6, <1>11 DEF RecordInv, OnRecord
    <2> QED BY <2>1, <2>2, <2>3, RecordParts
  <1> QED BY <1>8, <1>9, <1>10, <1>12 DEF RecordInv

\* The answer of an awaited run changes the attempts of its own item only, and
\* what it takes away is of its own identifier.
LEMMA AnswerRecord ==
    ASSUME TypeOK, RecordInv, NEW r \in run, Awaits(r), run' = run \ {r},
           Settle(r.browser, r.item), UNCHANGED <<started, sent, floor>>,
           \A c \in Browser : \A x \in Stored(c)' :
              x \in Stored(c) \/ (c = r.browser /\ x.item = r.item),
           \A c \in Browser : \A x \in Stored(c) :
              IsAuto(x) => x \in Stored(c)' \/ x.id = r.id,
           \A s \in sent : s.id = r.id =>
              \E x \in Stored(r.browser)' : x.item = r.item /\ x.id = r.id /\ IsAuto(x)
    PROVE  RecordInv'
  <1>1. r.browser \in Browser /\ r.item \in Item
    BY Ids
  <1>2. \A c \in Browser, j \in Item : Runs(c, j)' =>
           Runs(c, j) /\ task'[c][j] = task[c][j] /\ (c # r.browser \/ j # r.item)
    BY <1>1, SettleType DEF Runs
  <1>3. OneId'
    BY <1>2 DEF RecordInv, OneId
  <1>4. SentBy'
    BY <1>2 DEF RecordInv, SentBy
  <1>5. Unsent'
    BY <1>2 DEF RecordInv, Unsent
  <1>6. ASSUME NEW c \in Browser, NEW j, NEW k, Kept(c, j, k), k # r.id PROVE Kept(c, j, k)'
    BY <1>6 DEF Kept, IsAuto
  <1>7. OnRecord'
    <2>1. ASSUME NEW c \in Browser, NEW j \in Item, NEW k, Runs(c, j)', k = task'[c][j].id,
                 task'[c][j].pc = "run", task'[c][j].limit # 0
          PROVE  Kept(c, j, k)'
      <3>1. Runs(c, j) /\ k = task[c][j].id /\ task[c][j].pc = "run" /\ task[c][j].limit # 0
        BY <1>2, <2>1
      <3>2. k # r.id
        BY <3>1 DEF RecordInv, Unsent
      <3> QED BY <1>6, <3>1, <3>2 DEF RecordInv, OnRecord
    <2>2. \A x \in run' : x.limit # 0 /\ x.pc \in {"account", "prepare"}
             => Kept(x.browser, x.item, x.id)'
      BY <1>6, Ids DEF RecordInv, OnRecord, OneId
    <2>3. ASSUME NEW s \in sent' PROVE Kept(s.browser, s.item, s.id)'
      <3>1. CASE s.id = r.id
        <4>1. s.browser = r.browser /\ s.item = r.item
          BY <2>3, <3>1 DEF RecordInv, SentBy
        <4> QED BY <2>3, <3>1, <4>1 DEF Kept, IsAuto
      <3>2. CASE s.id # r.id
        BY <1>6, <2>3, <3>2, Ids DEF RecordInv, OnRecord
      <3> QED BY <3>1, <3>2
    <2> QED BY <2>1, <2>2, <2>3, RecordParts
  <1> QED BY <1>3, <1>4, <1>5, <1>7 DEF RecordInv

LEMMA TakeAnswerRecord ==
    ASSUME TypeOK, RecordInv, NEW r \in run, TakeAnswer(r) PROVE RecordInv'
  <1>1. PICK b \in Browser, i \in Item : b = r.browser /\ i = r.item
    BY Ids
  <1>2. Answered(r) /\ run' = run \ {r} /\ UNCHANGED <<started, sent, floor>>
    BY DEF TakeAnswer, history
  <1>3. CASE UNCHANGED <<task, attempts>>
    <2>1. Forget
      BY <1>2, <1>3 DEF Forget, Stored
    <2> QED BY <2>1, ForgetKeeps
  <1>4. CASE Settle(b, i) /\ UNCHANGED attempts
    <2>1. Forget
      BY <1>2, <1>4, SettleType DEF Forget, Stored, Runs
    <2> QED BY <2>1, ForgetKeeps
  <1> DEFINE gone == {a \in AttemptFor(b, i) : a.id = r.id}
  <1>5. CASE /\ Awaits(r) /\ Settle(b, i) /\ ClearsAttempt(r)
             /\ attempts' = [attempts EXCEPT ![b] =
                               Filter(attempts[b], ToSet(attempts[b]) \ gone)]
    <2>1. \A x \in gone : x.id = r.id
      OBVIOUS
    <2> HIDE DEF gone
    <2>2. /\ \A c \in Browser \ {b} : attempts'[c] = attempts[c]
          /\ Stored(b)' = Stored(b) \ gone
      BY <1>5, DropEffect
    <2>3. \A c \in Browser : \A x \in Stored(c)' : x \in Stored(c)
      BY <2>2 DEF Stored
    <2>4. \A c \in Browser : \A x \in Stored(c) : x \in Stored(c)' \/ x.id = r.id
      BY <2>1, <2>2 DEF Stored
    <2>5. \A s \in sent : s.id # r.id
      BY <1>5 DEF ClearsAttempt, RecordInv, SentBy
    <2> QED BY <1>1, <1>2, <1>5, <2>3, <2>4, <2>5, AnswerRecord
  <1> DEFINE a == [item |-> i, id |-> r.id, limit |-> r.limit, url |-> TRUE]
             rest == Filter(attempts[b], ToSet(attempts[b]) \ AttemptFor(b, i))
  <1>6. CASE Awaits(r) /\ Settle(b, i) /\ Store(b, <<a>> \o rest)
    <2>1. a \in Attempt /\ a.item = i /\ a.id = r.id /\ a.limit = r.limit
      BY DEF Attempt, TypeOK, Run
    <2>2. rest \in Seq(Attempt) /\ ToSet(rest) = Stored(b) \ AttemptFor(b, i)
      <3>1. attempts[b] \in Seq(Attempt)
        BY Rows
      <3> QED BY <3>1, FilterKeeps DEF Stored
    <2> HIDE DEF a, rest
    <2>3. /\ \A c \in Browser \ {b} : attempts'[c] = attempts[c]
          /\ Stored(b)' \subseteq ToSet(rest) \cup {a}
          /\ \A x \in ToSet(rest) \cup {a} : IsAuto(x) => x \in Stored(b)'
      BY <1>6, <2>1, <2>2, PushEffect
    <2>4. \A c \in Browser : \A x \in Stored(c)' :
             x \in Stored(c) \/ (c = b /\ x.item = i)
      BY <2>1, <2>2, <2>3 DEF Stored
    <2>5. \A x \in AttemptFor(b, i) : x.id = r.id
      BY <1>1, <1>6 DEF Awaits, RecordInv, Unsent, Runs, AttemptFor, Stored
    <2>6. \A c \in Browser : \A x \in Stored(c) : IsAuto(x) => x \in Stored(c)' \/ x.id = r.id
      BY <2>2, <2>3, <2>5 DEF Stored
    <2>7. ASSUME NEW s \in sent, s.id = r.id
          PROVE  \E x \in Stored(b)' : x.item = i /\ x.id = r.id /\ IsAuto(x)
      <3>1. IsAuto(a)
        BY <2>1, <2>7 DEF IsAuto, RecordInv, SentBy
      <3>2. a \in Stored(b)'
        BY <2>3, <3>1
      <3> QED BY <2>1, <3>1, <3>2
    <2> QED BY <1>1, <1>2, <1>6, <2>4, <2>6, <2>7, AnswerRecord
  <1> QED BY <1>1, <1>3, <1>4, <1>5, <1>6 DEF TakeAnswer

\* Clearing the extension ends what is asked of the attempts of its browser.
LEMMA ClearRecord ==
    ASSUME TypeOK, RecordInv, NEW b \in Browser, ClearLocalExtensionState(b)
    PROVE  RecordInv'
  <1>1. UNCHANGED <<task, run, started, sent>>
    BY DEF ClearLocalExtensionState
  <1>2. /\ attempts'[b] = <<>> /\ floor'[b] = started
        /\ \A c \in Browser \ {b} : attempts'[c] = attempts[c] /\ floor'[c] = floor[c]
    BY DEF ClearLocalExtensionState, TypeOK
  <1>3. /\ Stored(b)' = {} /\ \A c \in Browser \ {b} : Stored(c)' = Stored(c)
    BY <1>2 DEF Stored, ToSet
  <1>4. \A c \in Browser, j \in Item : Runs(c, j)' <=> Runs(c, j)
    BY <1>1 DEF Runs
  <1>5. OneId' /\ SentBy' /\ Unsent'
    BY <1>1, <1>3, <1>4 DEF RecordInv, OneId, SentBy, Unsent
  <1>6. ASSUME NEW c \in Browser, NEW j, NEW k \in Nat, k <= started, Kept(c, j, k)
        PROVE  Kept(c, j, k)'
    <2>1. CASE c = b
      <3>1. ~(k > floor'[c])
        BY <1>2, <1>6, <2>1, Ids
      <3> QED BY <3>1 DEF Kept
    <2>2. CASE c # b
      BY <1>2, <1>3, <1>6, <2>2 DEF Kept, IsAuto
    <2> QED BY <2>1, <2>2
  <1>7. OnRecord'
    <2>1. ASSUME NEW c \in Browser, NEW j \in Item, NEW k, Runs(c, j)', k = task'[c][j].id,
                 task'[c][j].pc = "run", task'[c][j].limit # 0
          PROVE  Kept(c, j, k)'
      <3>1. k \in Nat /\ k <= started
        BY <1>1, <1>4, <2>1, Ids DEF RecordInv, OneId
      <3> QED BY <1>1, <1>4, <1>6, <2>1, <3>1 DEF RecordInv, OnRecord
    <2>2. \A x \in run' : x.limit # 0 /\ x.pc \in {"account", "prepare"}
             => Kept(x.browser, x.item, x.id)'
      BY <1>1, <1>6, Ids DEF RecordInv, OnRecord, OneId
    <2>3. \A s \in sent' : Kept(s.browser, s.item, s.id)'
      BY <1>1, <1>6, Ids DEF RecordInv, OnRecord, OneId
    <2> QED BY <2>1, <2>2, <2>3, RecordParts
  <1> QED BY <1>5, <1>7 DEF RecordInv

LEMMA NextRecord == TypeOK /\ RecordInv /\ [Next]_vars => RecordInv'
  <1> SUFFICES ASSUME TypeOK, RecordInv, [Next]_vars PROVE RecordInv'
    OBVIOUS
  <1> USE DEF server, history
  <1>1. ASSUME Settings PROVE RecordInv'
    <2>1. Forget
      BY <1>1 DEF Settings, SetCheckoutModuleEnabled, SaveCheckoutPreferences, Forget, Stored
    <2> QED BY <2>1, ForgetKeeps
  <1>2. ASSUME NEW p \in Page, Handoff(p) PROVE RecordInv'
    <2>1. ASSUME NEW i \in Item, OpenItemCheckout(p, i) PROVE Forget
      BY <2>1 DEF OpenItemCheckout, Forget, Stored
    <2>2. ASSUME CheckReadiness(p) \/ Authorize(p) \/ GiveUp(p) PROVE Forget
      BY <2>2 DEF CheckReadiness, Authorize, GiveUp, Forget, Stored
    <2>3. ASSUME HandleBrowserBuy(p) PROVE Forget
      <3>1. \A c \in Browser, j \in Item :
               task'[c][j] = task[c][j] \/ task'[c][j].pc = "tab"
        BY <2>3 DEF HandleBrowserBuy, TypeOK
      <3>2. UNCHANGED <<attempts, run, started, sent, floor>>
        BY <2>3 DEF HandleBrowserBuy
      <3> QED BY <3>1, <3>2 DEF Forget, Stored, Runs
    <2>4. Forget
      BY <1>2, <2>1, <2>2, <2>3 DEF Handoff
    <2> QED BY <2>4, ForgetKeeps
  <1>3. ASSUME NEW b \in Browser, Worker(b) PROVE RecordInv'
    <2>1. ASSUME NEW i \in Item, SaveAttempt(b, i), AttemptFor(b, i) # {} PROVE Forget
      <3> DEFINE t == [task[b][i] EXCEPT !.pc = "found"]
      <3>1. task[b][i] \in Task
        BY <2>1, Rows DEF SaveAttempt
      <3>2. t \in Task /\ t.pc = "found" /\ SetTask(b, i, t)
        BY <2>1, <3>1 DEF SaveAttempt, Task
      <3> HIDE DEF t
      <3>3. /\ task'[b][i].pc = "found"
            /\ \A c \in Browser, j \in Item : <<c, j>> # <<b, i>> => task'[c][j] = task[c][j]
        BY <3>2, SetTaskType
      <3>4. UNCHANGED <<attempts, run, started, sent, floor>>
        BY <2>1 DEF SaveAttempt
      <3> QED BY <3>3, <3>4 DEF Forget, Runs, Stored
    <2>2. ASSUME NEW i \in Item, EndWithoutRun(b, i) \/ ResponseLost(b, i) PROVE Forget
      BY <2>2, SettleType DEF EndWithoutRun, ResponseLost, Forget, Runs, Stored
    <2>3. ASSUME WorkerStops(b) PROVE Forget
      <3>1. \A c \in Browser, i \in Item : task'[c][i] = task[c][i] \/ task'[c][i] = None
        BY <2>3 DEF WorkerStops, TypeOK
      <3> QED BY <2>3, <3>1 DEF WorkerStops, Forget, Runs, Stored
    <2>4. ASSUME Expire(b) PROVE Forget
      <3>1. PICK a \in Stored(b) :
               /\ Expires(a)
               /\ attempts' = [attempts EXCEPT ![b] = Filter(@, ToSet(@) \ {a})]
        BY <2>4 DEF Expire, Stored
      <3>2. /\ \A c \in Browser \ {b} : attempts'[c] = attempts[c]
            /\ Stored(b)' = Stored(b) \ {a}
        BY <3>1, DropEffect
      <3>3. \A c \in Browser \ {b} : Stored(c)' = Stored(c)
        BY <3>2 DEF Stored
      <3>4. UNCHANGED <<task, run, started, sent, floor>>
        BY <2>4 DEF Expire
      <3>5. ~IsAuto(a)
        BY <3>1 DEF Expires
      <3> QED BY <3>2, <3>3, <3>4, <3>5 DEF Forget, Runs
    <2> QED BY <1>3, <2>1, <2>2, <2>3, <2>4, ForgetKeeps, CheckpointRecord, SendRecord,
               ClearRecord DEF Worker
  <1>4. ASSUME NEW r \in run, CheckAccount(r) PROVE RecordInv'
    BY <1>4, RunRecord DEF CheckAccount
  <1>5. ASSUME NEW r \in run, PrepareCheckout(r) PROVE RecordInv'
    <2>1. PICK pc \in {"failed", "pay", "ok"} : Advance(r, pc)
      BY <1>5 DEF PrepareCheckout
    <2>2. UNCHANGED <<task, attempts, started, floor>>
      BY <1>5 DEF PrepareCheckout
    <2>3. \/ sent' = sent
          \/ /\ r.pc = "prepare" /\ r.limit # 0
             /\ sent' = sent \cup {[browser |-> r.browser, item |-> r.item, id |-> r.id]}
      BY <1>5 DEF PrepareCheckout, IsAuto
    <2> QED BY <2>1, <2>2, <2>3, RunRecord
  <1>6. ASSUME NEW r \in run, Pay(r) PROVE RecordInv'
    BY <1>6, RunRecord DEF Pay
  <1>7. ASSUME NEW r \in run, TabLost(r) PROVE RecordInv'
    <2>1. Forget
      BY <1>7 DEF TabLost, Forget, Stored
    <2> QED BY <2>1, ForgetKeeps
  <1>8. CASE UNCHANGED vars
    <2>1. Forget
      BY <1>8 DEF vars, Forget, Stored
    <2> QED BY <2>1, ForgetKeeps
  <1> QED BY <1>1, <1>2, <1>3, <1>4, <1>5, <1>6, <1>7, <1>8, TakeAnswerRecord
          DEF Next, Bridge

\* Once an automatic run has sent a request, the browser holds an attempt for
\* the item until the member clears the extension.
THEOREM RequestRecordedHolds == Spec => []RequestRecorded
  <1>1. TypeOK /\ RecordInv => RequestRecorded
    <2> SUFFICES ASSUME TypeOK, RecordInv, NEW s \in sent, s.id > floor[s.browser]
                 PROVE  AttemptFor(s.browser, s.item) # {}
      BY DEF RequestRecorded
    <2>1. Kept(s.browser, s.item, s.id)
      BY DEF RecordInv, OnRecord
    <2> QED BY <2>1 DEF Kept, AttemptFor, Stored
  <1> QED BY <1>1, CheckoutTypes, InitRecord, NextRecord, PTL DEF Spec
=============================================================================
