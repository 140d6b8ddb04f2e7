-------------------------- MODULE RateLimiterProofs -------------------------
(***************************************************************************)
(* Theorems about RateLimiter, for any requests, limits, windows and       *)
(* delays, with either backend.  All of them rest on IInv.                 *)
(***************************************************************************)
EXTENDS RateLimiter, FiniteSetTheorems, WellFoundedInduction, TLAPS

(* Requests of one key have one category.                                  *)
LEMMA KeyFacts ==
  /\ \A r \in Request : Key(r) \in Keys /\ CategoryOf[r] \in Category
  /\ \A q, r \in Request : SameKey(q, r) => CategoryOf[q] = CategoryOf[r]
BY DEF Key, Keys, SameKey, Category

(* Limits and windows of a request are numbers.                            *)
LEMMA RuleTypes ==
  \A r \in Request :
    /\ Limit[CategoryOf[r]] \in Nat
    /\ Window[CategoryOf[r]] \in Nat \ {0}
BY KeyFacts, LimitAssumption, WindowAssumption

(* The larger of 1 and a number is a natural number.                       *)
LEMMA MaxType == \A x \in Int : Max({1, x}) \in Nat
<1> SUFFICES ASSUME NEW x \in Int PROVE Max({1, x}) \in Nat
  OBVIOUS
<1>1. \E m \in {1, x} : \A y \in {1, x} : m >= y
  <2>1. CASE x >= 1
    BY <2>1
  <2>2. CASE ~(x >= 1)
    BY <2>2
  <2> QED
    BY <2>1, <2>2
<1>2. Max({1, x}) \in {1, x} /\ \A y \in {1, x} : Max({1, x}) >= y
  BY <1>1 DEF Max
<1> QED
  BY <1>2

(* Every nonempty set of hits has an oldest one.                           *)
LEMMA OldestType ==
  ASSUME NEW H \in SUBSET (Nat \X (Request \cup {None})), H # {}
  PROVE  /\ Oldest(H) \in Nat /\ Oldest(H) \in {h[1] : h \in H}
         /\ \A h \in H : Oldest(H) <= h[1]
<1> DEFINE T == {h[1] : h \in H}
<1>1. T \subseteq Nat /\ T # {}
  OBVIOUS
<1> DEFINE R == {p \in Nat \X Nat : p[1] < p[2]}
<1>a. IsWellFoundedOn(R, Nat)
  BY NatLessThanWellFounded DEF OpToRel
<1>b. PICK m \in T : \A y \in T : ~(<<y, m>> \in R)
  <2> HIDE DEF R, T
  <2> QED
    BY <1>1, <1>a, WFMin
<1>2. \E n \in T : \A y \in T : n <= y
  <2>1. ASSUME NEW y \in T PROVE m <= y
    <3>1. <<y, m>> \in Nat \X Nat /\ ~(y < m)
      BY <1>1, <1>b
    <3> QED
      BY <3>1
  <2> QED
    BY <2>1
<1>3. Min(T) \in T /\ \A y \in T : Min(T) <= y
  BY <1>2 DEF Min
<1> QED
  BY <1>1, <1>3 DEF Oldest

(* Retry-After is a natural number of seconds.                             *)
LEMMA RetryTypes ==
  ASSUME NEW r \in Request, NEW t \in Nat, NEW o \in Nat
  PROVE  /\ RetryAfter(r, t, o) \in Nat
         /\ Window[CategoryOf[r]] \div Second \in Nat
<1> DEFINE w == Window[CategoryOf[r]]
<1>1. w \in Nat /\ Second \in Nat \ {0}
  BY RuleTypes, TimeAssumption
<1>2. (w - (t - o)) \div Second \in Int /\ w \div Second \in Nat
  BY <1>1
<1> QED
  BY <1>2, MaxType DEF RetryAfter

(* What is stored, and what a check stores, are hits.                      *)
LEMMA WindowTypes ==
  ASSUME TypeOK, NEW r \in Request, NEW t \in Nat
  PROVE  /\ Stored(Key(r)) \in SUBSET (Nat \X (Request \cup {None}))
         /\ WindowWith(r, t) \in SUBSET (Nat \X (Request \cup {None}))
         /\ WindowWith(r, t) # {}
<1>1. Stored(Key(r)) \in SUBSET (Nat \X (Request \cup {None}))
  BY KeyFacts DEF TypeOK, Stored
<1>2. Hit(r, t) \in Nat \X (Request \cup {None})
  BY DEF Hit
<1> QED
  BY <1>1, <1>2 DEF WindowWith

(* A set of requests has at least as many members as hits.                 *)
LEMMA HitsOf ==
  ASSUME NEW Q \in SUBSET Request
  PROVE  /\ IsFiniteSet(Q)
         /\ IsFiniteSet({Hit(q, stamp[q]) : q \in Q})
         /\ Cardinality({Hit(q, stamp[q]) : q \in Q}) <= Cardinality(Q)
<1> DEFINE T == {Hit(q, stamp[q]) : q \in Q}
           f == [q \in Q |-> Hit(q, stamp[q])]
<1>1. IsFiniteSet(Q)
  BY RequestAssumption, FS_Subset
<1>2. f \in Surjection(Q, T)
  BY DEF Surjection
<1>3. IsFiniteSet(T) /\ Cardinality(T) <= Cardinality(Q)
  <2> HIDE DEF f, T
  <2> QED
    BY <1>1, <1>2, FS_Surjection
<1> QED
  BY <1>1, <1>3

(* The window of a check is a finite set of hits of counted requests.      *)
LEMMA WindowFinite ==
  ASSUME TypeOK, HitsAreRequests, NEW r \in Request, NEW t \in Nat
  PROVE  IsFiniteSet(WindowWith(r, t))
<1> DEFINE k == Key(r)
           Q == {q \in counted : Key(q) = k}
           T == {Hit(q, stamp[q]) : q \in Q}
<1>1. IsFiniteSet(T)
  <2>1. Q \in SUBSET Request
    BY DEF TypeOK
  <2> HIDE DEF Q
  <2> QED
    BY <2>1, HitsOf
<1>2. Stored(k) \subseteq T
  BY KeyFacts DEF HitsAreRequests, Stored
<1>3. IsFiniteSet({h \in Stored(k) : h[1] > t - Window[CategoryOf[r]]})
  BY <1>1, <1>2, FS_Subset
<1> QED
  BY <1>3, FS_AddElement DEF WindowWith

(* The steps of a check that store its hit.                                *)
Stores(r, t) ==
  /\ r \notin counted
  /\ t <= now /\ now <= t + Lag
  /\ Store(r, t)
  /\ stamp' = [stamp EXCEPT ![r] = t]
  /\ now' = now /\ backend' = backend

(* Storing a hit drops only what is a window old, and keeps the rest.      *)
LEMMA StoreKeeps ==
  ASSUME IInv, NEW r \in Request, NEW t \in Nat, Stores(r, t)
  PROVE  RecentHitsStored' /\ HitsAreRequests'
<1> DEFINE W(q) == Window[CategoryOf[q]]
<1>1. TypeOK /\ counted \subseteq Request /\ now \in Nat
  BY DEF IInv, TypeOK
<1>2. /\ hits' = [hits EXCEPT ![Key(r)] = WindowWith(r, t)]
      /\ expireAt' = [expireAt EXCEPT ![Key(r)] = now + W(r)]
      /\ counted' = counted \cup {r}
  BY DEF Stores, Store
<1>3. \A q \in Request : stamp'[q] = IF q = r THEN t ELSE stamp[q]
  BY <1>1 DEF Stores, TypeOK
<1>4. \A q, n : Hit(q, n)' = Hit(q, n)
  BY DEF Stores, Hit, Redis
<1>5. \A q \in Request : W(q) \in Nat \ {0} /\ stamp[q] \in Nat /\ stamp[q] <= now
  BY <1>1, RuleTypes DEF TypeOK, IInv, StampsLag
<1>6. \A k \in Keys :
        /\ hits'[k] = IF k = Key(r) THEN WindowWith(r, t) ELSE hits[k]
        /\ expireAt'[k] = IF k = Key(r) THEN now + W(r) ELSE expireAt[k]
        /\ expireAt[k] \in Nat
  BY <1>1, <1>2 DEF TypeOK
<1>7. ASSUME NEW q \in counted'
      PROVE  /\ stamp'[q] + W(q) <= expireAt'[Key(q)]
             /\ stamp'[q] > now' - W(q) => Hit(q, stamp'[q]) \in hits'[Key(q)]
  <2>1. CASE q = r
    <3>1. Hit(r, t) \in WindowWith(r, t)
      BY DEF WindowWith
    <3>2. stamp'[r] = t /\ Key(r) \in Keys /\ W(r) \in Nat
      BY <1>3, <1>5, KeyFacts
    <3>3. hits'[Key(r)] = WindowWith(r, t) /\ expireAt'[Key(r)] = now + W(r)
      BY <3>2, <1>6
    <3>4. t + W(r) <= now + W(r)
      BY <3>2, <1>1 DEF Stores
    <3> QED
      BY <2>1, <3>1, <3>2, <3>3, <3>4
  <2>2. CASE q # r
    <3>1. q \in counted /\ q \in Request /\ stamp'[q] = stamp[q] /\ Key(q) \in Keys
      BY <2>2, <1>1, <1>2, <1>3, KeyFacts
    <3>2. /\ stamp[q] + W(q) <= expireAt[Key(q)]
          /\ stamp[q] > now - W(q) => Hit(q, stamp[q]) \in hits[Key(q)]
      BY <3>1 DEF IInv, RecentHitsStored
    <3>3. CASE Key(q) # Key(r)
      BY <3>1, <3>2, <3>3, <1>6 DEF Stores
    <3>4. CASE Key(q) = Key(r)
      <4>1. W(q) = W(r)
        BY <3>1, <3>4, KeyFacts DEF SameKey
      <4>2. ASSUME stamp[q] > now - W(q) PROVE Hit(q, stamp[q]) \in WindowWith(r, t)
        <5>1. now < expireAt[Key(r)]
          BY <4>2, <3>1, <3>2, <3>4, <1>1, <1>5, <1>6
        <5>2. Hit(q, stamp[q]) \in Stored(Key(r))
          BY <4>2, <5>1, <3>2, <3>4, <3>1, <1>1, <1>6 DEF Stored
        <5>3. Hit(q, stamp[q])[1] > t - W(r)
          BY <4>1, <4>2, <3>1, <1>1, <1>5 DEF Hit, Stores
        <5> QED
          BY <5>2, <5>3 DEF WindowWith
      <4>3. stamp[q] + W(q) <= now + W(r)
        BY <4>1, <3>1, <1>1, <1>5
      <4> QED
        BY <4>2, <4>3, <3>1, <3>4, <1>6 DEF Stores
    <3> QED
      BY <3>3, <3>4
  <2> QED
    BY <2>1, <2>2
<1>8. RecentHitsStored'
  BY <1>4, <1>7 DEF RecentHitsStored, Key
<1>9. ASSUME NEW k \in Keys, NEW h \in hits'[k]
      PROVE  \E q \in counted' : Key(q) = k /\ h = Hit(q, stamp'[q])
  <2>1. CASE k = Key(r) /\ h = Hit(r, t)
    BY <2>1, <1>2, <1>3
  <2>2. CASE ~(k = Key(r) /\ h = Hit(r, t))
    <3>1. h \in hits[k]
      BY <2>2, <1>6 DEF WindowWith, Stored
    <3>2. PICK q \in counted : Key(q) = k /\ h = Hit(q, stamp[q])
      BY <3>1 DEF IInv, HitsAreRequests
    <3>3. q # r /\ stamp'[q] = stamp[q]
      BY <1>1, <1>3 DEF Stores
    <3> QED
      BY <3>2, <3>3, <1>2
  <2> QED
    BY <2>1, <2>2
<1>10. HitsAreRequests'
  BY <1>4, <1>9 DEF HitsAreRequests, Keys, Key
<1> QED
  BY <1>8, <1>10

(* A request admitted by its count leaves no window with more than the     *)
(* limit: what was admitted in a window that holds it is in the set that   *)
(* it counted.                                                             *)
LEMMA StoreAdmits ==
  ASSUME IInv, NEW r \in Request, NEW t \in Nat, Stores(r, t),
         NEW s, stage' = [stage EXCEPT ![r] = s],
         s = "admitted" => ~Exceeds(r, t)
  PROVE  AdmittedWithinLimit'
<1> DEFINE W(q) == Window[CategoryOf[q]]
<1>1. TypeOK /\ counted \subseteq Request /\ now \in Nat /\ Lag \in Nat
  BY TimeAssumption DEF IInv, TypeOK, Lag
<1>2. \A q \in Request : /\ stamp'[q] = IF q = r THEN t ELSE stamp[q]
                         /\ stage'[q] = IF q = r THEN s ELSE stage[q]
  BY <1>1 DEF Stores, TypeOK
<1>3. (\A q, n : Hit(q, n)' = Hit(q, n)) /\ Lag' = Lag
  BY DEF Stores, Hit, Redis, Lag
<1>4. \A q \in Request : W(q) \in Nat \ {0} /\ stamp[q] \in Nat /\ stamp[q] <= now
  BY <1>1, RuleTypes DEF TypeOK, IInv, StampsLag
<1>5. stage[r] # "admitted"
  BY DEF IInv, AnsweredAreCounted, Stores
<1> DEFINE A(p) == AdmittedWith(p)
           B(p) == {q \in Request :
                      /\ stage'[q] = "admitted" /\ SameKey(q, p)
                      /\ stamp'[q] <= stamp'[p]
                      /\ stamp'[q] > stamp'[p] - (W(p) - Lag)}
           H(p) == {Hit(q, stamp'[q]) : q \in B(p)}
<1>6. ASSUME NEW p \in Request, stage'[p] = "admitted"
      PROVE  Cardinality(H(p)) <= Limit[CategoryOf[p]]
  <2>1. CASE r \in B(p)
    <3>1. SameKey(r, p) /\ CategoryOf[p] = CategoryOf[r] /\ s = "admitted"
      BY <2>1, <1>2, KeyFacts
    <3>2. ASSUME NEW q \in B(p) PROVE Hit(q, stamp'[q]) \in WindowWith(r, t)
      <4>1. CASE q = r
        BY <4>1, <1>2 DEF WindowWith
      <4>2. CASE q # r
        <5>1. /\ q \in Request /\ stage[q] = "admitted" /\ stamp'[q] = stamp[q]
              /\ Key(q) = Key(r) /\ W(q) = W(p) /\ W(r) = W(p)
          BY <4>2, <3>1, <1>2, KeyFacts DEF SameKey
        <5>2. t <= stamp'[p] /\ stamp[q] > stamp'[p] - (W(p) - Lag) /\ stamp'[p] \in Nat
          BY <2>1, <5>1, <1>2, <1>4
        <5>3. now <= t + Lag /\ t <= now
          BY DEF Stores
        <5>4. stamp[q] > now - W(q) /\ stamp[q] > t - W(r)
          BY <5>1, <5>2, <5>3, <1>1, <1>4
        <5>5. q \in counted
          BY <5>1 DEF IInv, AnsweredAreCounted
        <5>6. /\ Hit(q, stamp[q]) \in hits[Key(r)]
              /\ stamp[q] + W(q) <= expireAt[Key(r)] /\ expireAt[Key(r)] \in Nat
          BY <5>1, <5>4, <5>5, <1>1, KeyFacts DEF IInv, RecentHitsStored, TypeOK
        <5>7. now < expireAt[Key(r)]
          BY <5>1, <5>4, <5>6, <1>1, <1>4
        <5>8. Hit(q, stamp[q]) \in Stored(Key(r))
          BY <5>6, <5>7, <1>1 DEF Stored
        <5>9. Hit(q, stamp[q])[1] > t - W(r)
          BY <5>4 DEF Hit
        <5> QED
          BY <5>1, <5>8, <5>9 DEF WindowWith
      <4> QED
        BY <4>1, <4>2
    <3>3. H(p) \subseteq WindowWith(r, t)
      BY <3>2
    <3>4. /\ IsFiniteSet(WindowWith(r, t))
          /\ Cardinality(WindowWith(r, t)) \in Nat
      BY <1>1, WindowFinite, FS_CardinalityType DEF IInv
    <3>5. IsFiniteSet(H(p)) /\ Cardinality(H(p)) <= Cardinality(WindowWith(r, t))
      <4> HIDE DEF H
      <4> QED
        BY <3>3, <3>4, FS_Subset
    <3>6. Cardinality(WindowWith(r, t)) <= Limit[CategoryOf[p]]
      BY <3>1, <3>4, RuleTypes DEF Exceeds
    <3>7. Cardinality(H(p)) \in Nat
      <4> HIDE DEF H
      <4> QED
        BY <3>5, FS_CardinalityType
    <3> HIDE DEF H
    <3> QED
      BY <3>4, <3>5, <3>6, <3>7, RuleTypes
  <2>2. CASE r \notin B(p) /\ p # r
    <3>1. B(p) = A(p)
      BY <2>2, <1>2, <1>5 DEF AdmittedWith
    <3>2. H(p) = {Hit(q, stamp[q]) : q \in A(p)}
      BY <3>1, <2>2, <1>2
    <3>3. stage[p] = "admitted"
      BY <1>6, <2>2, <1>2
    <3> QED
      BY <3>2, <3>3 DEF IInv, AdmittedWithinLimit
  <2>3. CASE r \notin B(p) /\ p = r
    <3>1. W(r) - Lag <= 0
      <4>1. SUFFICES ASSUME W(r) - Lag > 0 PROVE FALSE
        BY <1>1, <1>4
      <4>2. stage'[r] = "admitted" /\ stamp'[r] \in Nat
        BY <1>6, <2>3, <1>2
      <4> QED
        BY <4>1, <4>2, <2>3, <1>1, <1>4 DEF SameKey
    <3>2. B(p) = {}
      BY <3>1, <2>3, <1>1, <1>2, <1>4
    <3>3. H(p) = {} /\ Cardinality({}) = 0
      BY <3>2, FS_EmptySet
    <3> QED
      BY <3>3, RuleTypes
  <2> QED
    BY <2>1, <2>2, <2>3
<1> QED
  BY <1>3, <1>6 DEF AdmittedWithinLimit, AdmittedWith, SameKey, Key

(* A step that admits nobody leaves the windows as they are.               *)
LEMMA NobodyAdmitted ==
  ASSUME AdmittedWithinLimit, backend' = backend,
         \A q \in Request :
           /\ stage'[q] = "admitted" <=> stage[q] = "admitted"
           /\ stage[q] = "admitted" => stamp'[q] = stamp[q]
  PROVE  AdmittedWithinLimit'
<1>1. (\A q, n : Hit(q, n)' = Hit(q, n)) /\ Lag' = Lag
  BY DEF Hit, Redis, Lag
<1>2. ASSUME NEW r \in Request, stage[r] = "admitted"
      PROVE  /\ AdmittedWith(r)' = AdmittedWith(r)
             /\ {Hit(q, stamp'[q]) : q \in AdmittedWith(r)}
                  = {Hit(q, stamp[q]) : q \in AdmittedWith(r)}
  BY <1>1, <1>2 DEF AdmittedWith, SameKey, Key
<1> QED
  BY <1>1, <1>2 DEF AdmittedWithinLimit

(* A step that stores nothing forgets nothing.                             *)
LEMMA NothingStored ==
  ASSUME RecentHitsStored, HitsAreRequests, TypeOK,
         backend' = backend, hits' = hits, expireAt' = expireAt,
         counted' = counted, now' \in Nat, now' >= now,
         \A q \in counted : stamp'[q] = stamp[q]
  PROVE  RecentHitsStored' /\ HitsAreRequests'
<1>1. \A q, n : Hit(q, n)' = Hit(q, n)
  BY DEF Hit, Redis
<1>2. \A q \in counted :
        /\ stamp[q] \in Nat /\ Window[CategoryOf[q]] \in Nat
        /\ now \in Nat
  BY RuleTypes DEF TypeOK
<1>3. RecentHitsStored'
  <2>1. ASSUME NEW q \in counted, stamp[q] > now' - Window[CategoryOf[q]]
        PROVE  stamp[q] > now - Window[CategoryOf[q]]
    BY <2>1, <1>2
  <2> QED
    BY <1>1, <2>1 DEF RecentHitsStored, Key
<1>4. HitsAreRequests'
  BY <1>1 DEF HitsAreRequests, Keys, Key
<1> QED
  BY <1>3, <1>4

(* The types, step by step.                                                *)
LEMMA NextTypeOK == TypeOK /\ [Next]_vars => TypeOK'
<1> SUFFICES ASSUME TypeOK, [Next]_vars PROVE TypeOK'
  OBVIOUS
<1>1. CASE Tick
  BY <1>1 DEF TypeOK, Tick, Keys, Key, Backend
<1>2. ASSUME NEW r \in Request, NEW t \in Nat, Store(r, t)
      PROVE  /\ hits' \in [Keys -> SUBSET (Nat \X (Request \cup {None}))]
             /\ expireAt' \in [Keys -> Nat]
             /\ counted' \subseteq Request
  <2>1. WindowWith(r, t) \in SUBSET (Nat \X (Request \cup {None}))
    BY WindowTypes
  <2>2. now + Window[CategoryOf[r]] \in Nat
    BY RuleTypes DEF TypeOK
  <2> QED
    BY <1>2, <2>1, <2>2 DEF TypeOK, Store
<1>3. ASSUME NEW r \in Request, Check(r) PROVE TypeOK'
  <2>1. CASE Bypass(r)
    BY <2>1 DEF TypeOK, Bypass, Goto, Answer
  <2>2. CASE CheckInMemory(r)
    <3>1. now \in Nat /\ Store(r, now)
      BY <2>2 DEF CheckInMemory, TypeOK
    <3>2. Oldest(WindowWith(r, now)) \in Nat
      BY <3>1, WindowTypes, OldestType
    <3>3. RetryAfter(r, now, Oldest(WindowWith(r, now))) \in Nat
      BY <3>1, <3>2, RetryTypes
    <3>4. stamp' \in [Request -> Nat] /\ backend' = backend /\ now' = now
      BY <2>2, <3>1 DEF CheckInMemory, TypeOK
    <3>5. stage' \in [Request -> Waiting \cup Answer] /\ retry' \in [Request -> Nat]
      BY <2>2, <3>3 DEF CheckInMemory, TypeOK, Goto, Answer
    <3> QED
      BY <1>2, <3>1, <3>4, <3>5 DEF TypeOK
  <2>3. CASE Send(r)
    BY <2>3 DEF TypeOK, Send, Goto, Waiting
  <2>4. CASE Execute(r)
    <3>1. stamp[r] \in Nat /\ Store(r, stamp[r])
      BY <2>4 DEF Execute, TypeOK
    <3>2. stage' \in [Request -> Waiting \cup Answer]
      BY <2>4 DEF Execute, TypeOK, Goto, Waiting, Answer
    <3> QED
      BY <1>2, <2>4, <3>1, <3>2 DEF TypeOK, Execute
  <2>5. CASE RedisFails(r)
    <3>1. /\ hits' \in [Keys -> SUBSET (Nat \X (Request \cup {None}))]
          /\ expireAt' \in [Keys -> Nat]
          /\ counted' \subseteq Request
      <4>1. stamp[r] \in Nat
        BY DEF TypeOK
      <4> QED
        BY <4>1, <1>2, <2>5 DEF RedisFails, TypeOK
    <3>2. stage' \in [Request -> Waiting \cup Answer]
      BY <2>5 DEF RedisFails, TypeOK, Goto, Answer
    <3>3. retry' \in [Request -> Nat]
      <4>1. Window[CategoryOf[r]] \div Second \in Nat
        BY RetryTypes
      <4> QED
        BY <4>1, <2>5 DEF RedisFails, TypeOK
    <3> QED
      BY <2>5, <3>1, <3>2, <3>3 DEF TypeOK, RedisFails
  <2>6. CASE ReadOldest(r)
    <3> DEFINE H == Stored(Key(r))
               x == IF H = {} THEN Window[CategoryOf[r]] \div Second
                    ELSE RetryAfter(r, stamp[r], Oldest(H))
    <3>1. stamp[r] \in Nat /\ H \in SUBSET (Nat \X (Request \cup {None}))
      BY WindowTypes DEF TypeOK
    <3>2. x \in Nat
      <4>1. CASE H = {}
        BY <4>1, RetryTypes
      <4>2. CASE H # {}
        <5>1. Oldest(H) \in Nat
          BY <4>2, <3>1, OldestType
        <5> HIDE DEF H
        <5> QED
          BY <4>2, <5>1, <3>1, RetryTypes
      <4> QED
        BY <4>1, <4>2
    <3>3. retry' = [retry EXCEPT ![r] = x]
      BY <2>6 DEF ReadOldest
    <3> HIDE DEF x
    <3> QED
      BY <2>6, <3>2, <3>3 DEF TypeOK, ReadOldest, Goto, Answer
  <2>7. CASE ReadFails(r)
    BY <2>7 DEF TypeOK, ReadFails, Goto, Answer
  <2> QED
    BY <1>3, <2>1, <2>2, <2>3, <2>4, <2>5, <2>6, <2>7 DEF Check
<1>4. CASE UNCHANGED vars
  BY <1>4 DEF TypeOK, vars, Keys, Key
<1> QED
  BY <1>1, <1>3, <1>4 DEF Next

(* The initial states satisfy the invariant.                               *)
LEMMA InitIInv == Init => IInv
<1> SUFFICES ASSUME Init PROVE IInv
  OBVIOUS
<1>1. TypeOK
  BY DEF Init, TypeOK, Waiting
<1>2. StampsLag /\ RecentHitsStored /\ HitsAreRequests /\ AnsweredAreCounted
  BY DEF Init, StampsLag, RecentHitsStored, HitsAreRequests, AnsweredAreCounted
<1>3. AdmittedWithinLimit
  BY DEF Init, AdmittedWithinLimit
<1> QED
  BY <1>1, <1>2, <1>3 DEF IInv

(* The checks that store a hit.                                            *)
LEMMA WhoStores ==
  ASSUME IInv, NEW r \in Request
  PROVE  /\ CheckInMemory(r) => Stores(r, now)
         /\ Execute(r) => Stores(r, stamp[r])
         /\ RedisFails(r) /\ Store(r, stamp[r]) => Stores(r, stamp[r])
<1>1. /\ now \in Nat /\ stamp[r] \in Nat /\ stamp \in [Request -> Nat]
      /\ stage[r] \in {"new", "sent"} => r \notin counted
      /\ stamp[r] <= now
      /\ stage[r] = "sent" => Redis /\ now <= stamp[r] + Delay
  BY DEF IInv, TypeOK, AnsweredAreCounted, StampsLag
<1>2. CheckInMemory(r) => Stores(r, now)
  <2>1. now <= now + Lag
    BY <1>1, TimeAssumption DEF Lag
  <2> QED
    BY <1>1, <2>1 DEF CheckInMemory, Stores
<1>3. stamp = [stamp EXCEPT ![r] = stamp[r]]
  BY <1>1
<1>4. stage[r] = "sent" => now <= stamp[r] + Lag
  BY <1>1 DEF Lag
<1> QED
  BY <1>1, <1>2, <1>3, <1>4 DEF Execute, RedisFails, Stores

(* Every step preserves the invariant.                                     *)
LEMMA NextIInv == IInv /\ [Next]_vars => IInv'
<1> SUFFICES ASSUME IInv, [Next]_vars PROVE IInv'
  OBVIOUS
<1>1. TypeOK /\ TypeOK'
  BY NextTypeOK DEF IInv
<1>2. /\ now \in Nat /\ Delay \in Nat
      /\ \A q \in Request : stamp[q] \in Nat /\ stamp[q] <= now
  BY <1>1, TimeAssumption DEF TypeOK, IInv, StampsLag
<1>3. ASSUME backend' = backend, hits' = hits, expireAt' = expireAt,
             counted' = counted, stage' = stage, stamp' = stamp,
             now' = now \/ Tick
      PROVE  IInv'
  <2>1. StampsLag'
    BY <1>2, <1>3 DEF IInv, StampsLag, Tick, Redis
  <2>2. now' \in Nat /\ now' >= now
    BY <1>2, <1>3 DEF Tick
  <2>3. RecentHitsStored' /\ HitsAreRequests'
    BY <1>1, <1>3, <2>2, NothingStored DEF IInv
  <2>4. AnsweredAreCounted'
    BY <1>3 DEF IInv, AnsweredAreCounted
  <2>5. AdmittedWithinLimit'
    BY <1>3, NobodyAdmitted DEF IInv
  <2> QED
    BY <1>1, <2>1, <2>3, <2>4, <2>5 DEF IInv
<1>4. ASSUME NEW r \in Request, NEW s, backend' = backend, hits' = hits,
             expireAt' = expireAt, counted' = counted, now' = now,
             stage' = [stage EXCEPT ![r] = s],
             \/ stage[r] = "new" /\ s = "unchecked" /\ stamp' = stamp
             \/ /\ stage[r] = "new" /\ s = "sent" /\ Redis
                /\ stamp' = [stamp EXCEPT ![r] = now]
             \/ stage[r] = "sent" /\ s \in {"unchecked", "closed"} /\ stamp' = stamp
             \/ stage[r] = "over" /\ s \in {"refused", "error"} /\ stamp' = stamp
      PROVE  IInv'
  <2>1. \A q \in Request : /\ stage'[q] = IF q = r THEN s ELSE stage[q]
                           /\ q # r => stamp'[q] = stamp[q]
                           /\ stamp'[q] <= now
                           /\ q \in counted => stamp'[q] = stamp[q]
    BY <1>1, <1>2, <1>4 DEF TypeOK, IInv, AnsweredAreCounted
  <2>2. StampsLag'
    <3>1. ASSUME NEW q \in Request, stage'[q] = "sent"
          PROVE  Redis /\ now <= stamp'[q] + Delay
      <4>1. CASE q = r
        BY <1>1, <1>2, <1>4, <2>1, <3>1, <4>1 DEF TypeOK
      <4>2. CASE q # r
        BY <2>1, <3>1, <4>2 DEF IInv, StampsLag
      <4> QED
        BY <4>1, <4>2
    <3> QED
      BY <1>4, <2>1, <3>1 DEF StampsLag, Redis
  <2>3. RecentHitsStored' /\ HitsAreRequests'
    <3>1. \A q \in counted : stamp'[q] = stamp[q]
      BY <1>1, <2>1 DEF TypeOK
    <3>2. now' >= now /\ now' \in Nat
      BY <1>2, <1>4
    <3> QED
      BY <1>1, <1>4, <3>1, <3>2, NothingStored DEF IInv
  <2>4. AnsweredAreCounted'
    BY <1>4, <2>1 DEF IInv, AnsweredAreCounted
  <2>5. AdmittedWithinLimit'
    <3>1. \A q \in Request :
            /\ stage'[q] = "admitted" <=> stage[q] = "admitted"
            /\ stage[q] = "admitted" => stamp'[q] = stamp[q]
      BY <1>4, <2>1
    <3> QED
      BY <1>4, <3>1, NobodyAdmitted DEF IInv
  <2> QED
    BY <1>1, <2>2, <2>3, <2>4, <2>5 DEF IInv
<1>5. ASSUME NEW r \in Request, NEW t \in Nat, Stores(r, t), NEW s,
             stage' = [stage EXCEPT ![r] = s],
             s \in {"admitted", "over", "refused", "unchecked", "closed"},
             s = "admitted" => ~Exceeds(r, t)
      PROVE  IInv'
  <2>1. RecentHitsStored' /\ HitsAreRequests' /\ AdmittedWithinLimit'
    BY <1>5, StoreKeeps, StoreAdmits
  <2>2. /\ \A q \in Request : /\ stage'[q] = IF q = r THEN s ELSE stage[q]
                              /\ stamp'[q] = IF q = r THEN t ELSE stamp[q]
        /\ counted' = counted \cup {r} /\ now' = now /\ backend' = backend /\ t <= now
    BY <1>1, <1>5 DEF TypeOK, Stores, Store
  <2>3. StampsLag'
    BY <1>2, <1>5, <2>2 DEF IInv, StampsLag, Redis
  <2>4. AnsweredAreCounted'
    BY <1>5, <2>2 DEF IInv, AnsweredAreCounted
  <2> QED
    BY <1>1, <2>1, <2>3, <2>4 DEF IInv
<1>6. ASSUME NEW r \in Request, Check(r) PROVE IInv'
  <2>1. stamp[r] \in Nat
    BY <1>2
  <2>2. CASE Bypass(r)
    BY <2>2, <1>4 DEF Bypass, Goto
  <2>3. CASE CheckInMemory(r)
    <3>1. Stores(r, now)
      BY <2>3, WhoStores
    <3>2. CASE ~Exceeds(r, now) /\ Goto(r, "admitted")
      BY <3>1, <3>2, <1>2, <1>5 DEF Goto
    <3>3. CASE Goto(r, "refused")
      BY <3>1, <3>3, <1>2, <1>5 DEF Goto
    <3> QED
      BY <2>3, <3>2, <3>3 DEF CheckInMemory
  <2>4. CASE Send(r)
    BY <2>4, <1>4 DEF Send, Goto
  <2>5. CASE Execute(r)
    <3>1. Stores(r, stamp[r])
      BY <2>5, WhoStores
    <3>2. CASE Exceeds(r, stamp[r])
      BY <2>1, <2>5, <3>1, <3>2, <1>5 DEF Execute, Goto
    <3>3. CASE ~Exceeds(r, stamp[r])
      BY <2>1, <2>5, <3>1, <3>3, <1>5 DEF Execute, Goto
    <3> QED
      BY <3>2, <3>3
  <2>6. CASE RedisFails(r)
    <3>1. CASE Store(r, stamp[r])
      <4>1. Stores(r, stamp[r])
        BY <2>6, <3>1, WhoStores
      <4> QED
        BY <2>1, <2>6, <4>1, <1>5 DEF RedisFails, Goto
    <3>2. CASE UNCHANGED <<hits, expireAt, counted>>
      BY <2>6, <3>2, <1>4 DEF RedisFails, Goto
    <3> QED
      BY <2>6, <3>1, <3>2 DEF RedisFails
  <2>7. CASE ReadOldest(r)
    BY <2>7, <1>4 DEF ReadOldest, Goto
  <2>8. CASE ReadFails(r)
    BY <2>8, <1>4 DEF ReadFails, Goto
  <2> QED
    BY <1>6, <2>2, <2>3, <2>4, <2>5, <2>6, <2>7, <2>8 DEF Check
<1>7. CASE Tick
  BY <1>7, <1>3 DEF Tick
<1>8. CASE UNCHANGED vars
  BY <1>8, <1>3 DEF vars
<1> QED
  BY <1>6, <1>7, <1>8 DEF Next

(* The inductive invariant holds, and with it the types.                   *)
THEOREM Inductive == Spec => []IInv
BY InitIInv, NextIInv, PTL DEF Spec

(* No window holds more admitted requests than the limit, however the      *)
(* pipelines of Redis overtake one another.                                *)
THEOREM LimitAlwaysKept == Spec => []AdmittedWithinLimit
<1>1. IInv => AdmittedWithinLimit
  BY DEF IInv
<1> QED
  BY <1>1, Inductive, PTL

(* A check whose window exceeds the limit has that many requests in it.    *)
LEMMA StoreRefuses ==
  ASSUME IInv, NEW r \in Request, NEW t \in Nat, Stores(r, t), Exceeds(r, t)
  PROVE  Cardinality(CountedWith(r)') > Limit[CategoryOf[r]]
<1> DEFINE W == Window[CategoryOf[r]]
           Q == {q \in counted' : SameKey(q, r) /\ stamp'[q] > t - W}
           T == {Hit(q, stamp'[q]) : q \in Q}
<1>1. TypeOK /\ HitsAreRequests /\ counted \subseteq Request
  BY DEF IInv, TypeOK
<1>2. /\ \A q \in Request : stamp'[q] = IF q = r THEN t ELSE stamp[q]
      /\ counted' = counted \cup {r} /\ r \notin counted
      /\ W \in Nat \ {0}
  BY <1>1, RuleTypes DEF TypeOK, Stores, Store
<1>3. ASSUME NEW h \in WindowWith(r, t) PROVE h \in T
  <2>1. CASE h = Hit(r, t)
    <3>1. r \in Q
      BY <1>2 DEF SameKey
    <3> QED
      BY <2>1, <3>1, <1>2
  <2>2. CASE h # Hit(r, t)
    <3>1. h \in hits[Key(r)] /\ h[1] > t - W
      BY <2>2 DEF WindowWith, Stored
    <3>2. PICK q \in counted : Key(q) = Key(r) /\ h = Hit(q, stamp[q])
      BY <3>1, <1>1, KeyFacts DEF HitsAreRequests
    <3>3. q \in Request /\ q # r /\ stamp'[q] = stamp[q] /\ h[1] = stamp[q]
      BY <3>2, <1>1, <1>2 DEF Hit
    <3>4. q \in Q
      BY <3>1, <3>2, <3>3, <1>2 DEF SameKey
    <3> QED
      BY <3>2, <3>3, <3>4
  <2> QED
    BY <2>1, <2>2
<1>4. Q \in SUBSET Request
  BY <1>1, <1>2
<1>5. IsFiniteSet(Q) /\ IsFiniteSet(T) /\ Cardinality(T) <= Cardinality(Q)
  <2> DEFINE f == [q \in Q |-> Hit(q, stamp'[q])]
  <2>1. IsFiniteSet(Q)
    <3> HIDE DEF Q
    <3> QED
      BY <1>4, RequestAssumption, FS_Subset
  <2>2. f \in Surjection(Q, T)
    BY DEF Surjection
  <2> HIDE DEF f, T, Q
  <2> QED
    BY <2>1, <2>2, FS_Surjection
<1>6. WindowWith(r, t) \in SUBSET T
  BY <1>3
<1>7. /\ Cardinality(WindowWith(r, t)) <= Cardinality(T)
      /\ Cardinality(WindowWith(r, t)) \in Nat
      /\ Cardinality(T) \in Nat /\ Cardinality(Q) \in Nat
  <2> HIDE DEF T, Q
  <2> QED
    BY <1>5, <1>6, FS_Subset, FS_CardinalityType
<1>8. CountedWith(r)' = Q
  BY <1>2 DEF CountedWith, SameKey, Key
<1>9. Cardinality(Q) > Limit[CategoryOf[r]]
  <2> HIDE DEF T, Q
  <2> QED
    BY <1>5, <1>7, RuleTypes DEF Exceeds
<1> QED
  BY <1>8, <1>9

(* Nobody is refused by the count before the limit is exceeded.            *)
THEOREM NeverRefusedEarly == Spec => []RefusedOnlyOverLimit
<1>1. Init => RefusedOnlyOverLimit
  BY DEF Init, RefusedOnlyOverLimit
<1>2. ASSUME IInv, RefusedOnlyOverLimit, [Next]_vars
      PROVE  RefusedOnlyOverLimit'
  <2> DEFINE Over(q) == stage[q] \in {"over", "refused", "error"}
  <2>1. TypeOK /\ TypeOK' /\ \A q \in Request : Over(q) => q \in counted
    BY <1>2, NextTypeOK DEF IInv, AnsweredAreCounted
  <2>2. /\ counted \subseteq counted'
        /\ \A q \in counted : stamp'[q] = stamp[q]
    BY <1>2, <2>1 DEF IInv, TypeOK, AnsweredAreCounted, Next, Tick, Check, Bypass,
       CheckInMemory, Send, Execute, RedisFails, ReadOldest, ReadFails, Store, vars
  <2>3. ASSUME NEW p \in Request, Over(p)
        PROVE  Cardinality(CountedWith(p)') > Limit[CategoryOf[p]]
    <3>1. CountedWith(p) \in SUBSET CountedWith(p)'
      BY <2>1, <2>2, <2>3 DEF CountedWith, SameKey, Key
    <3>2. IsFiniteSet(CountedWith(p)')
      <4>1. CountedWith(p)' \in SUBSET Request
        BY <2>1 DEF TypeOK, CountedWith
      <4> QED
        BY <4>1, RequestAssumption, FS_Subset
    <3>3. Cardinality(CountedWith(p)) > Limit[CategoryOf[p]]
      BY <1>2, <2>3 DEF RefusedOnlyOverLimit
    <3>4. /\ IsFiniteSet(CountedWith(p))
          /\ Cardinality(CountedWith(p)) <= Cardinality(CountedWith(p)')
      BY <3>1, <3>2, FS_Subset
    <3>5. /\ Cardinality(CountedWith(p)) \in Nat
          /\ Cardinality(CountedWith(p)') \in Nat
      BY <3>2, <3>4, FS_CardinalityType
    <3> QED
      BY <3>3, <3>4, <3>5, RuleTypes
  <2>4. ASSUME NEW p \in Request, ~Over(p), Over(p)'
        PROVE  \E t \in Nat : Stores(p, t) /\ Exceeds(p, t)
    <3>1. PICK r \in Request : Check(r)
      BY <1>2, <2>4 DEF Next, Tick, vars
    <3>2. now \in Nat /\ stamp[r] \in Nat
      BY <2>1 DEF TypeOK
    <3>3. CASE CheckInMemory(r)
      <4>1. p = r /\ Exceeds(r, now)
        BY <2>1, <2>4, <3>3 DEF CheckInMemory, Goto, TypeOK
      <4> QED
        BY <4>1, <1>2, <3>2, <3>3, WhoStores
    <3>4. CASE Execute(r)
      <4>1. p = r /\ Exceeds(r, stamp[r])
        BY <2>1, <2>4, <3>4 DEF Execute, Goto, TypeOK
      <4> QED
        BY <4>1, <1>2, <3>2, <3>4, WhoStores
    <3>5. CASE Bypass(r) \/ Send(r) \/ RedisFails(r) \/ ReadOldest(r) \/ ReadFails(r)
      BY <2>1, <2>4, <3>5
         DEF Bypass, Send, RedisFails, ReadOldest, ReadFails, Goto, TypeOK
    <3> QED
      BY <3>1, <3>3, <3>4, <3>5 DEF Check
  <2>5. ASSUME NEW p \in Request, Over(p)'
        PROVE  Cardinality(CountedWith(p)') > Limit[CategoryOf[p]]
    BY <1>2, <2>3, <2>4, <2>5, StoreRefuses
  <2> QED
    BY <2>5 DEF RefusedOnlyOverLimit
<1> QED
  BY <1>1, <1>2, Inductive, PTL DEF Spec

(* How long a refused request is told to wait: no longer than until the    *)
(* time o leaves the window, and more than the limit are counted since o.  *)
RefusedSince(q, o) ==
  /\ (retry[q] - 1) * Second <= Window[CategoryOf[q]] - (stamp[q] - o)
  /\ Cardinality({p \in counted : SameKey(p, q) /\ stamp[p] >= o}) > Limit[CategoryOf[q]]

(* In memory no check is interrupted, and whoever it refuses is told so.   *)
MemoryRetries ==
  ~Redis =>
    \A q \in Request :
      /\ stage[q] # "over"
      /\ stage[q] = "refused" => \E o \in Nat : RefusedSince(q, o)

(* The seconds of Retry-After, less the one it is rounded up by, fit into  *)
(* the wait.                                                               *)
LEMMA RetryFits ==
  ASSUME NEW r \in Request, NEW t \in Nat, NEW o \in Nat, o > t - Window[CategoryOf[r]]
  PROVE  (RetryAfter(r, t, o) - 1) * Second <= Window[CategoryOf[r]] - (t - o)
<1> DEFINE x == Window[CategoryOf[r]] - (t - o)
           d == x \div Second
<1>1. x \in Nat /\ Second \in Nat \ {0}
  BY RuleTypes, TimeAssumption
<1>2. d \in Nat /\ d * Second <= x
  <2> HIDE DEF x
  <2> QED
    BY <1>1
<1>3. \E m \in {1, d + 1} : \A y \in {1, d + 1} : m >= y
  <2> HIDE DEF d
  <2>1. d + 1 \in {1, d + 1} /\ \A y \in {1, d + 1} : d + 1 >= y
    BY <1>2
  <2> QED
    BY <2>1
<1>4. Max({1, d + 1}) \in {1, d + 1} /\ \A y \in {1, d + 1} : Max({1, d + 1}) >= y
  <2> HIDE DEF d
  <2> QED
    BY <1>3 DEF Max
<1>5. RetryAfter(r, t, o) = d + 1
  <2>1. RetryAfter(r, t, o) = Max({1, d + 1})
    BY DEF RetryAfter
  <2> HIDE DEF d
  <2> QED
    BY <1>2, <1>4, <2>1
<1> HIDE DEF d, x
<1> QED
  BY <1>1, <1>2, <1>5 DEF x

(* In memory a check that comes while o has not left the window finds all  *)
(* that was counted since, and its own hit with them.                      *)
LEMMA StillOver ==
  ASSUME IInv, ~Redis, NEW q \in Request, NEW r \in Request, r \notin counted,
         SameKey(q, r), NEW o \in Nat, RefusedSince(q, o),
         now < stamp[q] + (retry[q] - 1) * Second
  PROVE  Exceeds(r, now)
<1> DEFINE W == Window[CategoryOf[r]]
           P == {p \in counted : SameKey(p, q) /\ stamp[p] >= o}
           T == {Hit(p, stamp[p]) : p \in P}
<1>1. /\ TypeOK /\ counted \subseteq Request /\ now \in Nat /\ W \in Nat \ {0}
      /\ CategoryOf[q] = CategoryOf[r] /\ stamp[q] \in Nat /\ retry[q] \in Nat
      /\ Limit[CategoryOf[r]] \in Nat
  BY KeyFacts, RuleTypes DEF IInv, TypeOK
<1>2. o > now - W
  <2>1. (retry[q] - 1) * Second \in Int
    BY <1>1, TimeAssumption
  <2>2. (retry[q] - 1) * Second <= W - (stamp[q] - o)
    BY <1>1 DEF RefusedSince
  <2> QED
    BY <1>1, <2>1, <2>2
<1>3. ASSUME NEW p \in P PROVE Hit(p, stamp[p]) \in WindowWith(r, now)
  <2>1. /\ p \in counted /\ p \in Request /\ Key(p) = Key(r)
        /\ CategoryOf[p] = CategoryOf[r] /\ stamp[p] \in Nat
    BY <1>1, KeyFacts DEF SameKey, TypeOK
  <2>2. stamp[p] > now - W
    BY <1>1, <1>2, <2>1
  <2>3. Hit(p, stamp[p]) \in hits[Key(r)]
    BY <2>1, <2>2 DEF IInv, RecentHitsStored
  <2> QED
    BY <2>2, <2>3 DEF Stored, WindowWith, Hit
<1>4. /\ IsFiniteSet(WindowWith(r, now))
      /\ Cardinality(WindowWith(r, now)) \in Nat
  BY <1>1, WindowFinite, FS_CardinalityType DEF IInv
<1>5. Hit(r, now) \in WindowWith(r, now) /\ Hit(r, now) \notin T
  BY DEF WindowWith, Hit
<1>6. IsFiniteSet(P) /\ Cardinality(P) = Cardinality(T)
  <2> DEFINE f == [p \in P |-> Hit(p, stamp[p])]
  <2>1. IsFiniteSet(P)
    <3>1. P \in SUBSET Request
      BY <1>1
    <3> HIDE DEF P
    <3> QED
      BY <3>1, RequestAssumption, FS_Subset
  <2>2. f \in Bijection(P, T)
    BY DEF Bijection, Injection, Surjection, IsInjective, Hit
  <2> HIDE DEF f, P, T
  <2> QED
    BY <2>1, <2>2, FS_Bijection DEF ExistsBijection
<1>7. T \in SUBSET (WindowWith(r, now) \ {Hit(r, now)})
  BY <1>3, <1>5
<1>8. /\ Cardinality(WindowWith(r, now) \ {Hit(r, now)}) = Cardinality(WindowWith(r, now)) - 1
      /\ IsFiniteSet(WindowWith(r, now) \ {Hit(r, now)})
  BY <1>4, <1>5, FS_RemoveElement
<1>9. /\ Cardinality(T) <= Cardinality(WindowWith(r, now) \ {Hit(r, now)})
      /\ Cardinality(T) \in Nat
  <2> HIDE DEF T
  <2> QED
    BY <1>7, <1>8, FS_Subset, FS_CardinalityType
<1>10. Cardinality(P) > Limit[CategoryOf[r]]
  BY <1>1 DEF RefusedSince
<1> HIDE DEF P, T
<1> QED
  BY <1>1, <1>4, <1>6, <1>8, <1>9, <1>10 DEF Exceeds

(* A request that is refused in memory is told to wait no longer than      *)
(* until the oldest hit that it counted leaves the window.                 *)
LEMMA RefusedWithRetry ==
  ASSUME IInv, NEW r \in Request, CheckInMemory(r), stage'[r] = "refused"
  PROVE  \E o \in Nat : RefusedSince(r, o)'
<1> DEFINE H == WindowWith(r, now)
           o == Oldest(H)
           Q == {p \in counted' : SameKey(p, r) /\ stamp'[p] >= o}
           T == {Hit(p, stamp'[p]) : p \in Q}
<1>1. /\ TypeOK /\ HitsAreRequests /\ counted \subseteq Request /\ now \in Nat
      /\ Limit[CategoryOf[r]] \in Nat /\ Window[CategoryOf[r]] \in Nat \ {0}
  BY RuleTypes DEF IInv, TypeOK
<1>2. /\ Stores(r, now) /\ Exceeds(r, now)
      /\ retry' = [retry EXCEPT ![r] = RetryAfter(r, now, Oldest(WindowWith(r, now)))]
  <2>1. Stores(r, now)
    BY WhoStores
  <2>2. ~Goto(r, "admitted")
    BY <1>1 DEF Goto, TypeOK
  <2> QED
    BY <2>1, <2>2 DEF CheckInMemory
<1>3. /\ \A p \in Request : stamp'[p] = IF p = r THEN now ELSE stamp[p]
      /\ counted' = counted \cup {r} /\ r \notin counted
  BY <1>1, <1>2 DEF TypeOK, Stores, Store
<1>4. H \in SUBSET (Nat \X (Request \cup {None})) /\ H # {}
  BY <1>1, WindowTypes
<1>5. o \in Nat /\ \A h \in H : o <= h[1]
  <2> HIDE DEF H
  <2> QED
    BY <1>4, OldestType
<1>6. o > now - Window[CategoryOf[r]]
  <2>1. \A h \in H : h[1] > now - Window[CategoryOf[r]]
    BY <1>1 DEF WindowWith, Hit
  <2>2. \E h \in H : h[1] = o
    <3>1. Oldest(H) \in {h[1] : h \in H}
      <4> HIDE DEF H
      <4> QED
        BY <1>4, OldestType
    <3> QED
      BY <3>1
  <2> QED
    BY <2>1, <2>2
<1>7. (retry'[r] - 1) * Second <= Window[CategoryOf[r]] - (stamp'[r] - o)
  <2>1. retry'[r] = RetryAfter(r, now, o) /\ stamp'[r] = now
    BY <1>1, <1>2, <1>3 DEF TypeOK
  <2> HIDE DEF o
  <2> QED
    BY <1>1, <1>5, <1>6, <2>1, RetryFits
<1>8. ASSUME NEW h \in H PROVE h \in T
  <2>1. CASE h = Hit(r, now)
    <3>1. r \in Q
      BY <2>1, <1>3, <1>5 DEF SameKey, Hit
    <3> QED
      BY <2>1, <3>1, <1>3
  <2>2. CASE h # Hit(r, now)
    <3>1. h \in hits[Key(r)] /\ o <= h[1]
      BY <2>2, <1>5 DEF WindowWith, Stored
    <3>2. PICK p \in counted : Key(p) = Key(r) /\ h = Hit(p, stamp[p])
      BY <3>1, <1>1, KeyFacts DEF HitsAreRequests
    <3>3. p \in Request /\ p # r /\ stamp'[p] = stamp[p] /\ h[1] = stamp[p]
      BY <3>2, <1>1, <1>3 DEF Hit
    <3>4. stamp[p] \in Nat
      BY <3>3, <1>1 DEF TypeOK
    <3>5. p \in Q
      BY <1>3, <1>5, <3>1, <3>2, <3>3, <3>4 DEF SameKey
    <3> QED
      BY <3>2, <3>3, <3>5
  <2> QED
    BY <2>1, <2>2
<1>9. IsFiniteSet(Q) /\ IsFiniteSet(T) /\ Cardinality(T) <= Cardinality(Q)
  <2> DEFINE f == [p \in Q |-> Hit(p, stamp'[p])]
  <2>1. Q \in SUBSET Request
    BY <1>1, <1>3
  <2>2. f \in Surjection(Q, T)
    BY DEF Surjection
  <2> HIDE DEF f, T, Q
  <2> QED
    BY <2>1, <2>2, RequestAssumption, FS_Subset, FS_Surjection
<1>10. /\ Cardinality(H) <= Cardinality(T) /\ Cardinality(H) \in Nat
       /\ Cardinality(T) \in Nat /\ Cardinality(Q) \in Nat
  <2>1. H \in SUBSET T
    BY <1>8
  <2> HIDE DEF H, T, Q
  <2> QED
    BY <1>9, <2>1, FS_Subset, FS_CardinalityType
<1>11. Cardinality(Q) > Limit[CategoryOf[r]]
  <2>1. Cardinality(H) > Limit[CategoryOf[r]]
    BY <1>2 DEF Exceeds
  <2> HIDE DEF H, T, Q
  <2> QED
    BY <1>1, <1>9, <1>10, <2>1
<1>12. {p \in counted' : SameKey(p, r)' /\ stamp'[p] >= o} = Q
  BY DEF SameKey, Key
<1>13. PICK m \in Nat : m = o
  BY <1>5
<1>14. RefusedSince(r, m)'
  <2> HIDE DEF o
  <2> QED
    BY <1>7, <1>11, <1>12, <1>13 DEF RefusedSince
<1> QED
  BY <1>14

(* One process: who comes back over a second before the end of its         *)
(* Retry-After is refused again.                                           *)
THEOREM RetryAfterIsNotPadded == Spec => []RetryAfterNotTooLong
<1> DEFINE J == MemoryRetries /\ RetryAfterNotTooLong
<1>1. Init => J
  BY DEF Init, MemoryRetries, RetryAfterNotTooLong
<1>2. ASSUME IInv, J, [Next]_vars, ~Redis PROVE J'
  <2>1. TypeOK /\ TypeOK' /\ StampsLag /\ AnsweredAreCounted /\ counted \subseteq Request
    BY <1>2, NextTypeOK DEF IInv, TypeOK
  <2>2. backend' = backend /\ ~Redis'
    BY <1>2 DEF Next, Tick, Check, Bypass, CheckInMemory, Send, Execute, RedisFails,
       ReadOldest, ReadFails, vars, Redis
  <2>3. \A q, r : SameKey(q, r)' = SameKey(q, r)
    BY DEF SameKey, Key
  <2>4. ASSUME stamp' = stamp, counted' = counted, retry' = retry,
               \A q \in Request : /\ stage[q] = "refused" <=> stage'[q] = "refused"
                                  /\ stage'[q] # "over"
        PROVE  J'
    <3>1. \A q, o : RefusedSince(q, o)' = RefusedSince(q, o)
      BY <2>3, <2>4 DEF RefusedSince
    <3>2. MemoryRetries'
      BY <1>2, <2>4, <3>1 DEF MemoryRetries
    <3>3. RetryAfterNotTooLong'
      BY <1>2, <2>1, <2>3, <2>4 DEF RetryAfterNotTooLong
    <3> QED
      BY <3>2, <3>3
  <2>5. ASSUME NEW r \in Request, CheckInMemory(r) PROVE J'
    <3>1. /\ r \notin counted /\ counted' = counted \cup {r} /\ now \in Nat
          /\ \A q \in Request : stamp'[q] = IF q = r THEN now ELSE stamp[q]
          /\ \A q \in Request : stamp[q] \in Nat /\ stamp[q] <= now /\ retry[q] \in Nat
      BY <2>1, <2>5 DEF CheckInMemory, Store, TypeOK, StampsLag, AnsweredAreCounted
    <3>2. /\ \A q \in Request : q # r => stage'[q] = stage[q] /\ retry'[q] = retry[q]
          /\ stage'[r] \in {"admitted", "refused"}
          /\ stage'[r] = "admitted" => ~Exceeds(r, now)
      BY <2>1, <2>5 DEF CheckInMemory, Goto, TypeOK
    <3>3. ASSUME NEW q \in Request, q # r, NEW o \in Nat, RefusedSince(q, o)
          PROVE  RefusedSince(q, o)'
      <4> DEFINE P == {p \in counted : SameKey(p, q) /\ stamp[p] >= o}
                 Q == {p \in counted' : SameKey(p, q)' /\ stamp'[p] >= o}
      <4>1. P \in SUBSET Q /\ Q \in SUBSET Request
        BY <2>1, <2>3, <3>1 DEF TypeOK
      <4>2. /\ Cardinality(P) <= Cardinality(Q)
            /\ Cardinality(P) \in Nat /\ Cardinality(Q) \in Nat
        <5> HIDE DEF P, Q
        <5> QED
          BY <4>1, RequestAssumption, FS_Subset, FS_CardinalityType
      <4>3. Cardinality(P) > Limit[CategoryOf[q]] /\ Limit[CategoryOf[q]] \in Nat
        BY <3>3, RuleTypes DEF RefusedSince
      <4>4. Cardinality(Q) > Limit[CategoryOf[q]]
        <5> HIDE DEF P, Q
        <5> QED
          BY <4>2, <4>3
      <4>5. stamp'[q] = stamp[q] /\ retry'[q] = retry[q]
        BY <3>1, <3>2, <3>3
      <4> QED
        BY <3>3, <4>4, <4>5 DEF RefusedSince
    <3>4. MemoryRetries'
      <4>1. ASSUME NEW q \in Request
            PROVE  /\ stage'[q] # "over"
                   /\ stage'[q] = "refused" => \E o \in Nat : RefusedSince(q, o)'
        <5>1. CASE q = r
          BY <1>2, <2>5, <3>2, <5>1, RefusedWithRetry
        <5>2. CASE q # r
          BY <1>2, <3>2, <3>3, <5>2 DEF MemoryRetries
        <5> QED
          BY <5>1, <5>2
      <4> QED
        BY <4>1 DEF MemoryRetries
    <3>5. ASSUME NEW q \in counted', NEW p \in counted', stage'[q] = "refused",
                 SameKey(q, p), stamp'[q] < stamp'[p],
                 stamp'[p] < stamp'[q] + (retry'[q] - 1) * Second
          PROVE  stage'[p] = "refused"
      <4>1. q \in Request /\ p \in Request /\ q # r
        BY <2>1, <3>1, <3>5
      <4>2. /\ q \in counted /\ stage[q] = "refused" /\ stamp'[q] = stamp[q]
            /\ retry'[q] = retry[q]
        BY <3>1, <3>2, <3>5, <4>1
      <4>3. CASE p = r
        <5>1. PICK o \in Nat : RefusedSince(q, o)
          BY <1>2, <4>1, <4>2 DEF MemoryRetries
        <5>2. now < stamp[q] + (retry[q] - 1) * Second
          BY <3>1, <3>5, <4>1, <4>2, <4>3
        <5>3. Exceeds(r, now)
          BY <1>2, <3>1, <3>5, <4>1, <4>3, <5>1, <5>2, StillOver
        <5> QED
          BY <3>2, <4>3, <5>3
      <4>4. CASE p # r
        <5>1. p \in counted /\ stamp'[p] = stamp[p] /\ stage'[p] = stage[p]
          BY <3>1, <3>2, <4>1, <4>4
        <5> QED
          BY <1>2, <3>5, <4>2, <5>1 DEF RetryAfterNotTooLong
      <4> QED
        BY <4>3, <4>4
    <3>6. RetryAfterNotTooLong'
      BY <2>3, <3>5 DEF RetryAfterNotTooLong
    <3> QED
      BY <3>4, <3>6
  <2>6. ASSUME NEW r \in Request, Check(r), ~CheckInMemory(r) PROVE J'
    <3>1. Bypass(r)
      BY <1>2, <2>1, <2>6
         DEF Check, Send, Execute, RedisFails, ReadOldest, ReadFails, StampsLag, MemoryRetries
    <3> QED
      BY <1>2, <2>1, <2>4, <3>1 DEF Bypass, Goto, MemoryRetries, TypeOK
  <2>7. CASE Tick \/ UNCHANGED vars
    BY <1>2, <2>4, <2>7 DEF Tick, vars, MemoryRetries
  <2> QED
    BY <1>2, <2>5, <2>6, <2>7 DEF Next
<1>3. ASSUME Redis, [Next]_vars PROVE J'
  <2>1. Redis'
    BY <1>3 DEF Next, Tick, Check, Bypass, CheckInMemory, Send, Execute, RedisFails,
       ReadOldest, ReadFails, vars, Redis
  <2> QED
    BY <2>1 DEF MemoryRetries, RetryAfterNotTooLong
<1>4. IInv /\ J /\ [Next]_vars => J'
  BY <1>2, <1>3
<1>5. J => RetryAfterNotTooLong
  OBVIOUS
<1> HIDE DEF J
<1> QED
  BY <1>1, <1>4, <1>5, Inductive, PTL DEF Spec
=============================================================================
