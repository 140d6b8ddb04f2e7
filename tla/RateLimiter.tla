---------------------------- MODULE RateLimiter -----------------------------
(* The sliding-window rate limiter of the API                              *)
(* (apps/api/middleware/rate_limiter.py) with its two backends, the        *)
(* middleware that consults it, and the dependency of the chat endpoint    *)
(* (apps/api/core/deps.py).                                                *)
(*                                                                         *)
(* A hit is a pair <<time, who>>.  The list of the in-memory backend keeps *)
(* every hit; a member of the Redis sorted set is named after its time     *)
(* alone, so that two requests that read the same time are one member.     *)
(* Time is counted in ticks, Second of them to a second, because the       *)
(* seconds of Retry-After are truncated.                                   *)
EXTENDS Integers, FiniteSets, FiniteSetsExt

CONSTANTS
  Request,      \* requests, each checked once
  CategoryOf,   \* the category of a request's path; "chatbot" is the dependency
  IpOf, UserOf, \* where a request comes from
  Limit,        \* category -> requests per window; 0: not limited
  Window,       \* category -> length of the window in ticks
  Second,       \* ticks of a second
  Delay,        \* ticks a pipeline may need to reach Redis
  MaxTime,      \* bound of the clock
  None

Category == {CategoryOf[r] : r \in Request}

ASSUME RequestAssumption == IsFiniteSet(Request)
ASSUME LimitAssumption == Limit \in [Category -> Nat]
ASSUME WindowAssumption == Window \in [Category -> Nat \ {0}]
ASSUME TimeAssumption == Second \in Nat \ {0} /\ Delay \in Nat /\ MaxTime \in Nat

(* The middleware runs before anybody is authenticated, so only the chat   *)
(* dependency, which sets request.state.user_id, counts by user.           *)
Key(r) ==
  [caller |-> IF CategoryOf[r] = "chatbot" THEN UserOf[r] ELSE IpOf[r],
   category |-> CategoryOf[r]]

Keys == {Key(r) : r \in Request}

VARIABLES
  backend,   \* what create_rate_limiter_backend made; open in development
  now,       \* time.time()
  hits,      \* key -> hits stored under it
  expireAt,  \* key -> when Redis drops it
  stage,     \* request -> where its check stands
  stamp,     \* request -> its local `now`
  retry,     \* request -> Retry-After, in seconds
  counted    \* requests whose hit was stored

Backend == {"in_memory", "redis_fail_open", "redis_fail_closed"}
Redis == backend # "in_memory"

vars == <<backend, now, hits, expireAt, stage, stamp, retry, counted>>

Waiting == {"new", "sent", "over"}
Answer == {"admitted", "unchecked", "refused", "closed", "error"}

Init ==
  /\ backend \in Backend
  /\ now = 0
  /\ hits = [k \in Keys |-> {}]
  /\ expireAt = [k \in Keys |-> 0]
  /\ stage = [r \in Request |-> "new"]
  /\ stamp = [r \in Request |-> 0]
  /\ retry = [r \in Request |-> 0]
  /\ counted = {}

Goto(r, s) == stage' = [stage EXCEPT ![r] = s]

(* The clock; Redis executes what it was sent within Delay. *)
Tick ==
  /\ now < MaxTime
  /\ \A r \in Request : stage[r] = "sent" => now < stamp[r] + Delay
  /\ now' = now + 1
  /\ UNCHANGED <<backend, hits, expireAt, stage, stamp, retry, counted>>

Limited(r) == CategoryOf[r] = "chatbot" \/ Limit[CategoryOf[r]] > 0

(* dispatch calls the next handler without a check. *)
Bypass(r) ==
  /\ stage[r] = "new"
  /\ ~Limited(r)
  /\ Goto(r, "unchecked")
  /\ UNCHANGED <<backend, now, hits, expireAt, stamp, retry, counted>>

(* The hits a backend has under a key: Redis forgets a key that was not    *)
(* written for a whole window.                                             *)
Stored(k) == IF Redis /\ now >= expireAt[k] THEN {} ELSE hits[k]

Hit(r, t) == <<t, IF Redis THEN None ELSE r>>

(* Mutant: the window never slides. *)
WindowThatGrows(r, t) == Stored(Key(r)) \cup {Hit(r, t)}

(* What is left of the window before t, and the new hit. *)
WindowWith(r, t) ==
  {h \in Stored(Key(r)) : h[1] > t - Window[CategoryOf[r]]} \cup {Hit(r, t)}

(* Mutant: only the first hit sets the time to live. *)
StoreWithFixedExpiry(r, t) ==
  /\ hits' = [hits EXCEPT ![Key(r)] = WindowWith(r, t)]
  /\ expireAt' = IF Stored(Key(r)) # {} THEN expireAt
                 ELSE [expireAt EXCEPT ![Key(r)] = now + Window[CategoryOf[r]]]
  /\ counted' = counted \cup {r}

Store(r, t) ==
  /\ hits' = [hits EXCEPT ![Key(r)] = WindowWith(r, t)]
  /\ expireAt' = [expireAt EXCEPT ![Key(r)] = now + Window[CategoryOf[r]]]
  /\ counted' = counted \cup {r}

(* Mutant: the count is taken before the hit is added. *)
ExceedsBefore(r, t) ==
  Cardinality(WindowWith(r, t) \ {Hit(r, t)}) > Limit[CategoryOf[r]]

Exceeds(r, t) == Cardinality(WindowWith(r, t)) > Limit[CategoryOf[r]]

(* Mutant: a whole window, wherever the oldest hit is. *)
RetryAfterWindow(r, t, oldest) == Window[CategoryOf[r]] \div Second + 1

RetryAfter(r, t, oldest) ==
  Max({1, (Window[CategoryOf[r]] - (t - oldest)) \div Second + 1})

Oldest(H) == Min({h[1] : h \in H})

(* InMemoryRateLimiterBackend: nothing is awaited. *)
CheckInMemory(r) ==
  /\ ~Redis /\ stage[r] = "new" /\ Limited(r)
  /\ stamp' = [stamp EXCEPT ![r] = now]
  /\ Store(r, now)
  /\ \/ /\ ~Exceeds(r, now)
        /\ Goto(r, "admitted")
        /\ UNCHANGED retry
     \/ /\ Exceeds(r, now)
        /\ Goto(r, "refused")
        /\ retry' = [retry EXCEPT ![r] = RetryAfter(r, now, Oldest(WindowWith(r, now)))]
  /\ UNCHANGED <<backend, now>>

(* RedisRateLimiterBackend reads the clock and sends the pipeline. *)
Send(r) ==
  /\ Redis /\ stage[r] = "new" /\ Limited(r)
  /\ stamp' = [stamp EXCEPT ![r] = now]
  /\ Goto(r, "sent")
  /\ UNCHANGED <<backend, now, hits, expireAt, retry, counted>>

(* Redis executes the pipeline as one transaction. *)
Execute(r) ==
  /\ stage[r] = "sent"
  /\ Store(r, stamp[r])
  /\ Goto(r, IF Exceeds(r, stamp[r]) THEN "over" ELSE "admitted")
  /\ UNCHANGED <<backend, now, stamp, retry>>

(* The pipeline raises, before Redis executed it or with its reply lost. *)
RedisFails(r) ==
  /\ stage[r] = "sent"
  /\ Store(r, stamp[r]) \/ UNCHANGED <<hits, expireAt, counted>>
  /\ \/ /\ backend = "redis_fail_open"
        /\ Goto(r, "unchecked")
        /\ UNCHANGED retry
     \/ /\ backend = "redis_fail_closed"
        /\ Goto(r, "closed")
        /\ retry' = [retry EXCEPT ![r] = Window[CategoryOf[r]] \div Second]
  /\ UNCHANGED <<backend, now, stamp>>

(* The second round trip, for the oldest hit. *)
ReadOldest(r) ==
  /\ stage[r] = "over"
  /\ Goto(r, "refused")
  /\ LET H == Stored(Key(r))
     IN retry' = [retry EXCEPT ![r] =
          IF H = {} THEN Window[CategoryOf[r]] \div Second
          ELSE RetryAfter(r, stamp[r], Oldest(H))]
  /\ UNCHANGED <<backend, now, hits, expireAt, stamp, counted>>

(* It is outside the try: the request ends with a server error. *)
ReadFails(r) ==
  /\ stage[r] = "over"
  /\ Goto(r, "error")
  /\ UNCHANGED <<backend, now, hits, expireAt, stamp, retry, counted>>

Check(r) ==
  \/ Bypass(r) \/ CheckInMemory(r)
  \/ Send(r) \/ Execute(r) \/ RedisFails(r) \/ ReadOldest(r) \/ ReadFails(r)

Next == Tick \/ \E r \in Request : Check(r)

Spec == Init /\ [][Next]_vars

-----------------------------------------------------------------------------
(* The time Redis may lag behind a request's clock. *)
Lag == IF Redis THEN Delay ELSE 0

SameKey(q, r) == Key(q) = Key(r)

(* Types; a request that was not answered in memory never waits. *)
TypeOK ==
  /\ backend \in Backend
  /\ now \in Nat
  /\ hits \in [Keys -> SUBSET (Nat \X (Request \cup {None}))]
  /\ expireAt \in [Keys -> Nat]
  /\ stage \in [Request -> Waiting \cup Answer]
  /\ stamp \in [Request -> Nat]
  /\ retry \in [Request -> Nat]
  /\ counted \subseteq Request

(* A local `now` is in the past, and at most Lag behind until Redis has    *)
(* executed the pipeline.                                                  *)
StampsLag ==
  \A r \in Request :
    /\ stamp[r] <= now
    /\ stage[r] = "sent" => Redis /\ now <= stamp[r] + Delay

(* Only what is due is forgotten: a stored hit is there until it is a      *)
(* window old, and Redis keeps the key at least as long.                   *)
RecentHitsStored ==
  \A r \in counted :
    /\ stamp[r] + Window[CategoryOf[r]] <= expireAt[Key(r)]
    /\ stamp[r] > now - Window[CategoryOf[r]]
         => Hit(r, stamp[r]) \in hits[Key(r)]

(* What is stored under a key are hits of requests of that key. *)
HitsAreRequests ==
  \A k \in Keys :
    hits[k] \subseteq {Hit(q, stamp[q]) : q \in {q \in counted : Key(q) = k}}

(* Who was answered by the count was counted, and before that nobody is. *)
AnsweredAreCounted ==
  \A r \in Request :
    /\ stage[r] \in {"admitted", "over", "refused", "error"} => r \in counted
    /\ stage[r] \in {"new", "sent"} => r \notin counted

(* The admitted requests of r's key in the window that ends with r. *)
AdmittedWith(r) ==
  {q \in Request :
     /\ stage[q] = "admitted" /\ SameKey(q, r)
     /\ stamp[q] <= stamp[r]
     /\ stamp[q] > stamp[r] - (Window[CategoryOf[r]] - Lag)}

(* The promise of the limiter: of the requests of one caller and category  *)
(* that were let through after a count, no window contains more than the   *)
(* limit.  With Redis the window is shorter by the time a pipeline may     *)
(* need, and requests that read the very same time count once, because     *)
(* the member is named after the time (rate_limiter.py:84-91).            *)
AdmittedWithinLimit ==
  \A r \in Request : stage[r] = "admitted" =>
    Cardinality({Hit(q, stamp[q]) : q \in AdmittedWith(r)}) <= Limit[CategoryOf[r]]

(* The inductive invariant. *)
IInv ==
  /\ TypeOK
  /\ StampsLag
  /\ RecentHitsStored
  /\ HitsAreRequests
  /\ AnsweredAreCounted
  /\ AdmittedWithinLimit

(* The counted requests of r's key no older than a window before r. *)
CountedWith(r) ==
  {q \in counted : SameKey(q, r) /\ stamp[q] > stamp[r] - Window[CategoryOf[r]]}

(* Nobody is refused early: who is refused by the count (not because Redis *)
(* is down) is one of more than the limit of counted requests no older     *)
(* than a window, whichever order the pipelines arrived in.                *)
RefusedOnlyOverLimit ==
  \A r \in Request : stage[r] \in {"over", "refused", "error"} =>
    Cardinality(CountedWith(r)) > Limit[CategoryOf[r]]

(* Retry-After does not overstate the wait by a second or more: in one     *)
(* process, who comes back over a second before its end is refused again.  *)
RetryAfterNotTooLong ==
  ~Redis =>
    \A q, r \in counted :
      LET tooEarly == /\ stage[q] = "refused" /\ SameKey(q, r)
                      /\ stamp[q] < stamp[r]
                      /\ stamp[r] < stamp[q] + (retry[q] - 1) * Second
      IN tooEarly => stage[r] = "refused"

(* What Docs/06_SCREEN_CATALOG.md:123 and the login form make of the       *)
(* header, "Lutfen X saniye bekleyin": who was refused and waits as told,  *)
(* while nobody else calls, is let through.  Refused requests count as     *)
(* hits, and only the oldest of them has left the window by then.          *)
WaitIsEnough ==
  ~Redis =>
    \A q, r \in counted :
      LET waited == /\ stage[q] = "refused" /\ SameKey(q, r)
                    /\ stamp[r] >= stamp[q] + retry[q] * Second
                    /\ \A p \in counted \ {q, r} :
                         SameKey(p, r) => stamp[p] < stamp[q]
      IN waited => stage[r] = "admitted"
=============================================================================
