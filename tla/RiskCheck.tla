------------------------------ MODULE RiskCheck ------------------------------
(***************************************************************************)
(* The risk check every payment passes: transaction-service calls          *)
(* risk-service once, behind a circuit breaker (mfcommon/http/client.py),  *)
(* and risk-service counts the card's recent attempts in a sliding window  *)
(* kept in Redis for all its pods or in the memory of its only pod         *)
(* (risk-service/app/velocity.py, rules.py).  `streak', `lastFailure',     *)
(* `ranAt' and `executions' are history variables: no action reads them.   *)
(***************************************************************************)
EXTENDS Integers, FiniteSets

CONSTANTS
    Call,          \* payments, each asking for one evaluation
    Card, CardOf,  \* the card each call pays with
    Request,       \* [amount, entry] bodies callers may send
    Pod, FirstPod, \* replicas of risk-service; the one that runs without Redis
    Redis,         \* names the shared store
    Window, ReviewCount, DeclineCount,   \* velocity_* thresholds
    AmountReview, AmountDecline, ManualReview,
    Threshold, ResetTimeout,             \* failure_threshold, reset_timeout
    Slack,         \* seconds a card's key outlives its window, 5 in the code
    Delay,         \* bound: age of a clock reading when its pipeline runs
    MaxTime,       \* bound: the clock
    None

ASSUME ConstantsAssumption ==
    /\ CardOf \in [Call -> Card]
    /\ Request \subseteq [amount : Nat \ {0}, entry : {"01", "05"}]
    /\ FirstPod \in Pod /\ Redis \notin Pod
    /\ {Window, ReviewCount, DeclineCount, AmountReview, AmountDecline,
        ManualReview, ResetTimeout, Slack, Delay, MaxTime} \subseteq Nat
    /\ Threshold \in Nat \ {0}
    /\ Delay < Window
    /\ None \notin Nat \cup Pod \cup Request

Time == 0..MaxTime
Store == Pod \cup {Redis}

VARIABLES
    backend,     \* "redis" or "memory": is REDIS_URL set?
    now,
    caller,      \* per call: "new", "waiting" or what the payment is told
    request,     \* per call: the body sent
    server,      \* per call: "none", "queued", "reading", "answered", "failed"
    pod, stamp,  \* per call: the replica serving it and its clock reading
    seen,        \* per call: recent_count, 0 before the pipeline has run
    attempts,    \* per store: the recorded attempts, [call, at]
    expires,     \* per card: when its Redis key expires, or None
    failures, openedAt, \* CircuitBreaker._failures, _opened_at
    streak, lastFailure, ranAt, executions

breaker == <<failures, openedAt, streak, lastFailure>>
service == <<server, pod, stamp, seen, attempts, expires, ranAt, executions>>
vars == <<backend, now, caller, request, server, pod, stamp, seen, attempts,
          expires, failures, openedAt, streak, lastFailure, ranAt, executions>>

Verdicts == {"approve", "review", "decline"}
Refusals == {"refused", "unavailable"}  \* 503: breaker open; call failed

Init ==
    /\ backend \in {"redis", "memory"}
    /\ now = 0
    /\ caller = [c \in Call |-> "new"]
    /\ request = [c \in Call |-> None]
    /\ server = [c \in Call |-> "none"]
    /\ pod = [c \in Call |-> None] /\ stamp = [c \in Call |-> None]
    /\ seen = [c \in Call |-> 0]
    /\ attempts = [s \in Store |-> {}]
    /\ expires = [k \in Card |-> None]
    /\ failures = 0 /\ openedAt = None
    /\ streak = 0 /\ lastFailure = None
    /\ ranAt = [c \in Call |-> None]
    /\ executions = [c \in Call |-> 0]

-----------------------------------------------------------------------------
(* The rules (RiskEngine.evaluate).                                        *)

Severity == [approve |-> 0, review |-> 1, decline |-> 2]

\* Bug: the last rule to fire decides.
Escalate_Last(outcome, new) == IF new = "approve" THEN outcome ELSE new

Escalate(outcome, new) == IF Severity[new] > Severity[outcome] THEN new ELSE outcome

Graded(n, review, decline) ==
    IF n > decline THEN "decline" ELSE IF n > review THEN "review" ELSE "approve"

VelocityRule(n) == Graded(n, ReviewCount, DeclineCount)
AmountRule(r) == Graded(r.amount, AmountReview, AmountDecline)
EntryRule(r) == IF r.entry = "01" /\ r.amount > ManualReview THEN "review" ELSE "approve"

Outcome(n, r) == Escalate(Escalate(VelocityRule(n), AmountRule(r)), EntryRule(r))

-----------------------------------------------------------------------------
(* CircuitBreaker, each method under its lock.                             *)

CoolingDown == openedAt # None /\ now - openedAt < ResetTimeout

\* Bug: half-open forgets the failures.
HalfOpenFailures_Zero == 0

\* Bug: half-open clears the counter together with _opened_at.
HalfOpenFailures_Cleared == None

HalfOpenFailures == Threshold - 1

\* is_open: reading it once the cooldown is over half-opens the breaker.
ReadIsOpen ==
    /\ IF openedAt # None /\ ~ CoolingDown
         THEN openedAt' = None /\ failures' = HalfOpenFailures
         ELSE UNCHANGED <<failures, openedAt>>
    /\ UNCHANGED <<streak, lastFailure>>

RecordSuccess ==
    /\ failures' = 0 /\ openedAt' = None
    /\ streak' = 0 /\ lastFailure' = None

RecordFailure ==
    /\ failures' = failures + 1
    /\ openedAt' = IF failures + 1 >= Threshold THEN now ELSE openedAt
    /\ streak' = streak + 1 /\ lastFailure' = now

-----------------------------------------------------------------------------
(* transaction-service.                                                    *)

Told(c, answer) == caller' = [caller EXCEPT ![c] = answer]

\* risk.post(..., retries=0): the breaker is asked once, before the request.
Submit(c, r) ==
    /\ caller[c] = "new"
    /\ request' = [request EXCEPT ![c] = r]
    /\ ReadIsOpen
    /\ IF CoolingDown
         THEN Told(c, "refused") /\ UNCHANGED server
         ELSE Told(c, "waiting") /\ server' = [server EXCEPT ![c] = "queued"]
    /\ UNCHANGED <<backend, now, pod, stamp, seen, attempts, expires, ranAt, executions>>

\* /ready reports the breaker, through the same property.
Ready ==
    /\ openedAt # None
    /\ ReadIsOpen
    /\ UNCHANGED <<backend, now, caller, request, service>>

\* 200: the breaker closes, the payment is told the outcome.
Deliver(c) ==
    /\ caller[c] = "waiting" /\ server[c] = "answered"
    /\ RecordSuccess
    /\ Told(c, Outcome(seen[c], request[c]))
    /\ UNCHANGED <<backend, now, request, service>>

\* 500: risk-service could not count.
DeliverError(c) ==
    /\ caller[c] = "waiting" /\ server[c] = "failed"
    /\ RecordFailure
    /\ Told(c, "unavailable")
    /\ UNCHANGED <<backend, now, request, service>>

\* Bug: the POST is repeated after a transport error.
TransportError_Retried(c) ==
    /\ caller[c] = "waiting"
    /\ RecordFailure
    /\ server' = [server EXCEPT ![c] = "queued"]
    /\ UNCHANGED <<backend, now, caller, request, pod, stamp, seen, attempts,
                   expires, ranAt, executions>>

\* Refused connection, reset or timeout: the request may be served all the same.
TransportError(c) ==
    /\ caller[c] = "waiting"
    /\ RecordFailure
    /\ Told(c, "unavailable")
    /\ UNCHANGED <<backend, now, request, service>>

-----------------------------------------------------------------------------
(* risk-service.                                                           *)

Replicas == IF backend = "redis" THEN Pod ELSE {FirstPod}

\* A replica takes the request and reads its clock.
ReadClock(c, p) ==
    /\ server[c] = "queued"
    /\ p \in Replicas
    /\ server' = [server EXCEPT ![c] = "reading"]
    /\ pod' = [pod EXCEPT ![c] = p]
    /\ stamp' = [stamp EXCEPT ![c] = now]
    /\ UNCHANGED <<backend, now, caller, request, breaker, seen, attempts,
                   expires, ranAt, executions>>

\* Bug: every replica counts for itself.
StoreOf_PerPod(c) == pod[c]

StoreOf(c) == IF backend = "redis" THEN Redis ELSE pod[c]

\* ZREMRANGEBYSCORE removes the score now - window; the list comprehension
\* of the in-memory tracker keeps it.
InWindow(at, t) == IF backend = "redis" THEN at > t - Window ELSE at >= t - Window

OfCard(s, k) == {a \in attempts[s] : CardOf[a.call] = k}

\* The attempts of the card after ZADD and ZREMRANGEBYSCORE.
Recorded(c) == {a \in OfCard(StoreOf(c), CardOf[c]) \cup {[call |-> c, at |-> stamp[c]]} :
                  InWindow(a.at, stamp[c])}

\* record_and_count_recent: one pipeline (MULTI), or the code under the lock.
Count(c) ==
    LET s == StoreOf(c) k == CardOf[c] IN
    /\ server[c] = "reading"
    /\ attempts' = [attempts EXCEPT ![s] = (@ \ OfCard(s, k)) \cup Recorded(c)]
    /\ seen' = [seen EXCEPT ![c] = Cardinality(Recorded(c))]
    /\ expires' = IF backend = "redis"
                    THEN [expires EXCEPT ![k] = now + Window + Slack] ELSE expires
    /\ ranAt' = [ranAt EXCEPT ![c] = now]
    /\ executions' = [executions EXCEPT ![c] = @ + 1]

\* The replica keeps nothing of a request it has served.
Forget(c) == pod' = [pod EXCEPT ![c] = None] /\ stamp' = [stamp EXCEPT ![c] = None]

\* evaluate: the answer is ready; with Redis it may be lost after the EXEC, and
\* the route answers 500.
Evaluate(c) ==
    /\ Count(c)
    /\ \E end \in IF backend = "redis" THEN {"answered", "failed"} ELSE {"answered"} :
          server' = [server EXCEPT ![c] = end]
    /\ Forget(c)
    /\ UNCHANGED <<backend, now, caller, request, breaker>>

\* Redis cannot be reached: nothing is recorded, the route answers 500.
EvaluateFails(c) ==
    /\ server[c] = "reading" /\ backend = "redis"
    /\ server' = [server EXCEPT ![c] = "failed"]
    /\ Forget(c)
    /\ UNCHANGED <<backend, now, caller, request, breaker, seen, attempts,
                   expires, ranAt, executions>>

\* EXPIRE key, window + 5
KeyExpires(k) ==
    /\ expires[k] # None /\ now >= expires[k]
    /\ attempts' = [attempts EXCEPT ![Redis] = @ \ OfCard(Redis, k)]
    /\ expires' = [expires EXCEPT ![k] = None]
    /\ UNCHANGED <<backend, now, caller, request, breaker, server, pod, stamp,
                   seen, ranAt, executions>>

Tick ==
    /\ now < MaxTime
    /\ \A c \in Call : server[c] = "reading" => now - stamp[c] < Delay
    /\ now' = now + 1
    /\ UNCHANGED <<backend, caller, request, breaker, service>>

-----------------------------------------------------------------------------
Next ==
    \/ \E c \in Call :
         \/ \E r \in Request : Submit(c, r)
         \/ Deliver(c) \/ DeliverError(c) \/ TransportError(c)
         \/ \E p \in Pod : ReadClock(c, p)
         \/ Evaluate(c) \/ EvaluateFails(c)
    \/ Ready \/ Tick
    \/ \E k \in Card : KeyExpires(k)

Spec == Init /\ [][Next]_vars

-----------------------------------------------------------------------------
(* Properties.                                                             *)

TypeOK ==
    /\ backend \in {"redis", "memory"}
    /\ now \in Time
    /\ caller \in [Call -> {"new", "waiting"} \cup Verdicts \cup Refusals]
    /\ request \in [Call -> Request \cup {None}]
    /\ server \in [Call -> {"none", "queued", "reading", "answered", "failed"}]
    /\ pod \in [Call -> Pod \cup {None}]
    /\ stamp \in [Call -> Time \cup {None}]
    /\ seen \in [Call -> Nat]
    /\ attempts \in [Store -> SUBSET [call : Call, at : Time]]
    /\ expires \in [Card -> Nat \cup {None}]
    /\ failures \in Nat /\ openedAt \in Time \cup {None}
    /\ streak \in Nat /\ lastFailure \in Time \cup {None}
    /\ ranAt \in [Call -> Time \cup {None}]
    /\ executions \in [Call -> Nat]

\* Calls of card k counted at time t or less than `Window - Delay' later.
Burst(k, t) == {c \in Call : /\ CardOf[c] = k /\ executions[c] > 0
                             /\ ranAt[c] \in t..(t + Window - Delay - 1)}

\* However a card's attempts are spread over the replicas and raced against
\* each other, within a window (less the age a reading may have) no more than
\* ReviewCount pass unremarked and no more than DeclineCount escape a decline
\* (risk-service/app/main.py: six attempts across three pods).
BurstsAreCaught ==
    \A k \in Card, t \in Time :
        /\ Cardinality({c \in Burst(k, t) : Outcome(seen[c], request[c]) = "approve"})
             <= ReviewCount
        /\ Cardinality({c \in Burst(k, t) : Outcome(seen[c], request[c]) # "decline"})
             <= DeclineCount

\* A payment goes on only if risk-service recorded its attempt and no rule
\* fired; whatever fails, no attempt is recorded twice, and none is refused
\* with a decline that only a review was due for (fail closed, never retried).
NoRuleFires(c) ==
    /\ seen[c] <= ReviewCount /\ request[c].amount <= AmountReview
    /\ ~ (request[c].entry = "01" /\ request[c].amount > ManualReview)
HardLimit(c) == seen[c] > DeclineCount \/ request[c].amount > AmountDecline
VettedOnce ==
    \A c \in Call :
        /\ executions[c] <= 1
        /\ caller[c] \in Verdicts => executions[c] = 1
        /\ caller[c] = "approve" => NoRuleFires(c)
        /\ caller[c] \in Verdicts => (caller[c] = "decline" <=> HardLimit(c))

\* The breaker holds calls back exactly while the last `Threshold' calls to end
\* have failed and the last of them failed less than the cooldown ago, however
\* half-opening, late failures and late successes interleave (CircuitBreaker).
BreakerIsExact ==
    CoolingDown <=> /\ streak >= Threshold
                    /\ now - lastFailure < ResetTimeout
=============================================================================
