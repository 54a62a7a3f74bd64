-------------------------- MODULE RiskCheck_proofs ---------------------------
(***************************************************************************)
(* Proofs about RiskCheck, for every number of calls, cards, replicas and  *)
(* every setting of the thresholds.                                        *)
(***************************************************************************)
EXTENDS RiskCheck, FiniteSetTheorems, TLAPS

\* A request being served has a replica and a clock reading, and no store holds
\* infinitely many attempts: what the types of the next step rest on.
Serving ==
    /\ \A c \in Call : server[c] = "reading" => stamp[c] \in Time /\ pod[c] \in Pod
    /\ \A s \in Store : IsFiniteSet(attempts[s])

\* Where a call is tells how often it has been counted, and what it is told is
\* the outcome of that count.
Vetted ==
    \A c \in Call :
        /\ caller[c] = "new" => server[c] = "none"
        /\ caller[c] # "new" => request[c] \in Request
        /\ server[c] \in {"none", "queued", "reading"} => executions[c] = 0
        /\ server[c] = "answered" => executions[c] = 1
        /\ executions[c] <= 1
        /\ caller[c] \in Verdicts =>
              /\ server[c] = "answered"
              /\ caller[c] = Outcome(seen[c], request[c])

\* Between failures the breaker is either open since the last of them, or has
\* half-opened after its cooldown and keeps one failure in hand, or has seen
\* too few to open.
Breaker ==
    /\ streak > 0 => lastFailure \in Time /\ lastFailure <= now
    /\ openedAt # None => openedAt = lastFailure /\ streak >= Threshold
                          /\ failures >= Threshold
    /\ openedAt = None /\ streak < Threshold => failures = streak
    /\ openedAt = None /\ streak >= Threshold =>
          failures = Threshold - 1 /\ now - lastFailure >= ResetTimeout

RiskInv == TypeOK /\ Serving /\ Vetted /\ Breaker

USE DEF Time, Store, Verdicts, Refusals

-----------------------------------------------------------------------------
LEMMA ConstantsType ==
    /\ Window \in Nat /\ ReviewCount \in Nat /\ DeclineCount \in Nat
    /\ AmountReview \in Nat /\ AmountDecline \in Nat /\ ManualReview \in Nat
    /\ ResetTimeout \in Nat /\ Slack \in Nat /\ Delay \in Nat /\ MaxTime \in Nat
    /\ Threshold \in Nat \ {0}
    /\ None \notin Nat /\ None \notin Pod /\ FirstPod \in Pod /\ Redis \notin Pod
BY ConstantsAssumption DEF ConstantsAssumption

\* The outcome is a verdict; it is "decline" exactly beyond a hard limit, and
\* "approve" only if no rule fires.
LEMMA OutcomeOfRules ==
    ASSUME NEW n \in Nat, NEW r \in Request
    PROVE  /\ Outcome(n, r) \in Verdicts
           /\ Outcome(n, r) = "approve" =>
                 /\ n <= ReviewCount /\ r.amount <= AmountReview
                 /\ ~ (r.entry = "01" /\ r.amount > ManualReview)
           /\ Outcome(n, r) = "decline" <=> n > DeclineCount \/ r.amount > AmountDecline
<1>1. r.amount \in Nat
  BY ConstantsAssumption DEF ConstantsAssumption
<1>2. ASSUME NEW k \in Nat, NEW review \in Nat, NEW decline \in Nat
      PROVE  /\ Graded(k, review, decline) \in Verdicts
             /\ Graded(k, review, decline) = "approve" => k <= review
             /\ Graded(k, review, decline) = "decline" <=> k > decline
  BY DEF Graded
<1>3. /\ VelocityRule(n) \in Verdicts
      /\ VelocityRule(n) = "approve" => n <= ReviewCount
      /\ VelocityRule(n) = "decline" <=> n > DeclineCount
  BY <1>2, ConstantsType DEF VelocityRule
<1>4. /\ AmountRule(r) \in Verdicts
      /\ AmountRule(r) = "approve" => r.amount <= AmountReview
      /\ AmountRule(r) = "decline" <=> r.amount > AmountDecline
  BY <1>1, <1>2, ConstantsType DEF AmountRule
<1>5. /\ EntryRule(r) \in {"approve", "review"}
      /\ EntryRule(r) = "approve" => ~ (r.entry = "01" /\ r.amount > ManualReview)
  BY DEF EntryRule
<1>6. ASSUME NEW a \in Verdicts, NEW b \in Verdicts
      PROVE  /\ Escalate(a, b) \in Verdicts
             /\ Escalate(a, b) = "approve" <=> a = "approve" /\ b = "approve"
             /\ Escalate(a, b) = "decline" <=> a = "decline" \/ b = "decline"
  BY DEF Escalate, Severity
<1> QED
  BY <1>3, <1>4, <1>5, <1>6 DEF Outcome

LEMMA InitInv == Init => RiskInv
<1> SUFFICES ASSUME Init PROVE RiskInv
  OBVIOUS
<1>1. TypeOK
  BY ConstantsType DEF Init, TypeOK
<1>2. Serving
  BY FS_EmptySet DEF Init, Serving
<1>3. Vetted
  BY DEF Init, Vetted
<1>4. Breaker
  BY ConstantsType DEF Init, Breaker
<1> QED
  BY <1>1, <1>2, <1>3, <1>4 DEF RiskInv

-----------------------------------------------------------------------------
\* What one count does: the attempts stay finite and typed, the count is a
\* number.
LEMMA CountIsTyped ==
    ASSUME RiskInv, NEW c \in Call, Count(c)
    PROVE  /\ attempts' \in [Store -> SUBSET [call : Call, at : Time]]
           /\ \A s \in Store : IsFiniteSet(attempts'[s])
           /\ seen' \in [Call -> Nat]
           /\ \A d \in Call \ {c} : seen'[d] = seen[d]
<1> DEFINE s == StoreOf(c)
           entry == [call |-> c, at |-> stamp[c]]
<1>1. stamp[c] \in Time /\ pod[c] \in Pod /\ server[c] = "reading"
  BY DEF RiskInv, Serving, Count
<1>2. s \in Store
  BY <1>1 DEF StoreOf
<1>3. attempts \in [Store -> SUBSET [call : Call, at : Time]] /\ IsFiniteSet(attempts[s])
  BY <1>2 DEF RiskInv, TypeOK, Serving
<1>4. /\ Recorded(c) \subseteq attempts[s] \cup {entry}
      /\ entry \in [call : Call, at : Time]
  BY <1>1 DEF Recorded, OfCard
<1>5. IsFiniteSet(attempts[s] \cup {entry})
  BY <1>3, FS_AddElement
<1>6. IsFiniteSet(Recorded(c))
  BY <1>4, <1>5, FS_Subset
<1>7. IsFiniteSet((attempts[s] \ OfCard(s, CardOf[c])) \cup Recorded(c))
  <2>1. (attempts[s] \ OfCard(s, CardOf[c])) \cup Recorded(c) \subseteq attempts[s] \cup {entry}
    BY <1>4
  <2> QED
    BY <2>1, <1>5, FS_Subset
<1>8. attempts' = [attempts EXCEPT ![s] = (attempts[s] \ OfCard(s, CardOf[c])) \cup Recorded(c)]
  BY <1>2, <1>3 DEF Count
<1>9. Cardinality(Recorded(c)) \in Nat
  BY <1>6, FS_CardinalityType
<1>10. seen' = [seen EXCEPT ![c] = Cardinality(Recorded(c))] /\ seen \in [Call -> Nat]
  BY DEF Count, RiskInv, TypeOK
<1> HIDE DEF s, entry
<1>11. (attempts[s] \ OfCard(s, CardOf[c])) \cup Recorded(c) \subseteq [call : Call, at : Time]
  BY <1>2, <1>3, <1>4
<1>12. attempts' \in [Store -> SUBSET [call : Call, at : Time]]
  BY <1>2, <1>3, <1>8, <1>11
<1>13. \A t \in Store : IsFiniteSet(attempts'[t])
  BY <1>2, <1>3, <1>7, <1>8 DEF RiskInv, Serving
<1> QED
  BY <1>9, <1>10, <1>12, <1>13

LEMMA TypeStep == RiskInv /\ Next => TypeOK' /\ Serving'
<1> SUFFICES ASSUME RiskInv, Next PROVE TypeOK' /\ Serving'
  OBVIOUS
<1> USE ConstantsType
<1>1. TypeOK /\ Serving
  BY DEF RiskInv
<1>2. ASSUME ReadIsOpen \/ RecordSuccess \/ RecordFailure
      PROVE  /\ failures' \in Nat /\ openedAt' \in Time \cup {None}
             /\ streak' \in Nat /\ lastFailure' \in Time \cup {None}
  BY <1>1, <1>2 DEF TypeOK, ReadIsOpen, RecordSuccess, RecordFailure, HalfOpenFailures
<1>3. ASSUME NEW c \in Call, NEW r \in Request, Submit(c, r) PROVE TypeOK' /\ Serving'
  BY <1>1, <1>2, <1>3 DEF TypeOK, Serving, Submit, Told
<1>4. ASSUME Ready PROVE TypeOK' /\ Serving'
  BY <1>1, <1>2, <1>4 DEF TypeOK, Serving, Ready, service
<1>5. ASSUME NEW c \in Call, Deliver(c) PROVE TypeOK' /\ Serving'
  <2>1. Outcome(seen[c], request[c]) \in Verdicts
    BY <1>1, <1>5, OutcomeOfRules DEF TypeOK, Deliver, RiskInv, Vetted
  <2> QED
    BY <1>1, <1>2, <1>5, <2>1 DEF TypeOK, Serving, Deliver, Told, service
<1>6. ASSUME NEW c \in Call, DeliverError(c) \/ TransportError(c)
      PROVE  TypeOK' /\ Serving'
  BY <1>1, <1>2, <1>6 DEF TypeOK, Serving, DeliverError, TransportError, Told, service
<1>7. ASSUME NEW c \in Call, NEW p \in Pod, ReadClock(c, p) PROVE TypeOK' /\ Serving'
  BY <1>1, <1>7 DEF TypeOK, Serving, ReadClock, breaker
<1>8. ASSUME NEW c \in Call, Evaluate(c) PROVE TypeOK' /\ Serving'
  <2>1. Count(c)
    BY <1>8 DEF Evaluate
  <2>2. /\ expires' \in [Card -> Nat \cup {None}]
        /\ ranAt' \in [Call -> Time \cup {None}] /\ executions' \in [Call -> Nat]
    <3>1. now \in Time /\ now + Window + Slack \in Nat /\ executions[c] + 1 \in Nat
      BY <1>1 DEF TypeOK
    <3>2. \/ expires' = expires
          \/ expires' = [expires EXCEPT ![CardOf[c]] = now + Window + Slack]
      BY <2>1 DEF Count
    <3>3. /\ ranAt' = [ranAt EXCEPT ![c] = now]
          /\ executions' = [executions EXCEPT ![c] = executions[c] + 1]
      BY <2>1 DEF Count
    <3> QED
      BY <1>1, <3>1, <3>2, <3>3 DEF TypeOK
  <2>3. /\ server' \in [Call -> {"none", "queued", "reading", "answered", "failed"}]
        /\ pod' \in [Call -> Pod \cup {None}] /\ stamp' \in [Call -> Time \cup {None}]
    BY <1>1, <1>8 DEF Evaluate, Forget, TypeOK
  <2>4. UNCHANGED <<backend, now, caller, request, failures, openedAt, streak, lastFailure>>
    BY <1>8 DEF Evaluate, breaker
  <2>5. TypeOK'
    BY <1>1, <2>1, <2>2, <2>3, <2>4, CountIsTyped DEF TypeOK
  <2>6. \A d \in Call : server'[d] = "reading" =>
            server[d] = "reading" /\ stamp'[d] = stamp[d] /\ pod'[d] = pod[d]
    BY <1>1, <1>8 DEF Evaluate, Forget, TypeOK
  <2> QED
    BY <1>1, <2>1, <2>5, <2>6, CountIsTyped DEF Serving
<1>9. ASSUME NEW c \in Call, EvaluateFails(c) PROVE TypeOK' /\ Serving'
  BY <1>1, <1>9 DEF TypeOK, Serving, EvaluateFails, Forget, breaker
<1>10. ASSUME NEW k \in Card, KeyExpires(k) PROVE TypeOK' /\ Serving'
  <2>1. attempts' = [attempts EXCEPT ![Redis] = attempts[Redis] \ OfCard(Redis, k)]
    BY <1>10 DEF KeyExpires
  <2>2. IsFiniteSet(attempts[Redis] \ OfCard(Redis, k))
    BY <1>1, FS_Subset DEF Serving
  <2>3. attempts' \in [Store -> SUBSET [call : Call, at : Time]]
    BY <1>1, <2>1 DEF TypeOK
  <2>4. \A s \in Store : IsFiniteSet(attempts'[s])
    BY <1>1, <2>1, <2>2 DEF TypeOK, Serving
  <2> QED
    BY <1>1, <1>10, <2>3, <2>4 DEF TypeOK, Serving, KeyExpires, breaker
<1>11. ASSUME Tick PROVE TypeOK' /\ Serving'
  BY <1>1, <1>11 DEF TypeOK, Serving, Tick, breaker, service
<1> QED
  BY <1>3, <1>4, <1>5, <1>6, <1>7, <1>8, <1>9, <1>10, <1>11 DEF Next

LEMMA BreakerStep == RiskInv /\ Next => Breaker'
<1> SUFFICES ASSUME RiskInv, Next PROVE Breaker'
  OBVIOUS
<1> USE ConstantsType
<1>1. Breaker /\ TypeOK
  BY DEF RiskInv
<1>2. /\ now \in Nat /\ failures \in Nat /\ streak \in Nat
      /\ openedAt \in Nat \cup {None} /\ lastFailure \in Nat \cup {None}
  BY <1>1 DEF TypeOK
<1>3. ASSUME ReadIsOpen, now' = now PROVE Breaker'
  <2>1. CASE openedAt # None /\ ~ CoolingDown
    <3>1. openedAt' = None /\ failures' = Threshold - 1 /\ streak' = streak
          /\ lastFailure' = lastFailure
      BY <1>3, <2>1 DEF ReadIsOpen, HalfOpenFailures
    <3>2. now - lastFailure >= ResetTimeout /\ streak >= Threshold
      BY <1>1, <1>2, <2>1 DEF Breaker, CoolingDown
    <3> QED
      BY <1>1, <1>2, <1>3, <3>1, <3>2 DEF Breaker
  <2>2. CASE ~ (openedAt # None /\ ~ CoolingDown)
    BY <1>1, <1>3, <2>2 DEF Breaker, ReadIsOpen
  <2> QED
    BY <2>1, <2>2
<1>4. ASSUME RecordSuccess, now' = now PROVE Breaker'
  BY <1>4 DEF RecordSuccess, Breaker
<1>5. ASSUME RecordFailure, now' = now PROVE Breaker'
  <2>1. /\ failures' = failures + 1 /\ streak' = streak + 1 /\ lastFailure' = now
        /\ openedAt' = IF failures + 1 >= Threshold THEN now ELSE openedAt
    BY <1>5 DEF RecordFailure
  <2>2. now \in Time
    BY <1>1 DEF TypeOK
  <2>3. CASE failures + 1 >= Threshold
    <3>1. streak + 1 >= Threshold
      BY <1>1, <1>2, <2>3 DEF Breaker
    <3> QED
      BY <1>2, <1>5, <2>1, <2>2, <2>3, <3>1 DEF Breaker
  <2>4. CASE failures + 1 < Threshold
    <3>1. openedAt = None /\ streak < Threshold /\ failures = streak
      BY <1>1, <1>2, <2>4 DEF Breaker
    <3> QED
      BY <1>2, <1>5, <2>1, <2>2, <2>4, <3>1 DEF Breaker
  <2> QED
    BY <1>2, <2>3, <2>4
<1>6. ASSUME UNCHANGED breaker, now' = now \/ now' = now + 1 PROVE Breaker'
  BY <1>1, <1>2, <1>6 DEF Breaker, breaker
<1> QED
  BY <1>3, <1>4, <1>5, <1>6 DEF Next, Submit, Ready, Deliver, DeliverError, TransportError,
     ReadClock, Evaluate, EvaluateFails, KeyExpires, Tick

LEMMA VettedStep == RiskInv /\ Next => Vetted'
<1> SUFFICES ASSUME RiskInv, Next PROVE Vetted'
  OBVIOUS
<1>1. Vetted /\ TypeOK
  BY DEF RiskInv
<1>2. ASSUME NEW c \in Call, NEW r \in Request, Submit(c, r) PROVE Vetted'
  BY <1>1, <1>2 DEF Vetted, TypeOK, Submit, Told
<1>3. ASSUME NEW c \in Call, Deliver(c) PROVE Vetted'
  <2> DEFINE outcome == Outcome(seen[c], request[c])
  <2>1. caller' = [caller EXCEPT ![c] = outcome]
    BY <1>3 DEF Deliver, Told
  <2>2. UNCHANGED <<request, server, seen, executions>>
    BY <1>3 DEF Deliver, service
  <2>3. server[c] = "answered" /\ caller[c] = "waiting" /\ seen[c] \in Nat
        /\ request[c] \in Request
    BY <1>1, <1>3 DEF Deliver, TypeOK, Vetted
  <2>4. outcome \in Verdicts
    BY <2>3, OutcomeOfRules
  <2>5. \A d \in Call : caller'[d] = IF d = c THEN outcome ELSE caller[d]
    BY <1>1, <2>1 DEF TypeOK
  <2>6. outcome = Outcome(seen'[c], request'[c])
    BY <2>2
  <2> HIDE DEF outcome
  <2> QED
    BY <1>1, <2>2, <2>3, <2>4, <2>5, <2>6 DEF Vetted
<1>4. ASSUME NEW c \in Call, DeliverError(c) \/ TransportError(c) PROVE Vetted'
  BY <1>1, <1>4 DEF Vetted, TypeOK, DeliverError, TransportError, Told, service
<1>5. ASSUME NEW c \in Call, NEW p \in Pod, ReadClock(c, p) PROVE Vetted'
  BY <1>1, <1>5 DEF Vetted, TypeOK, ReadClock
<1>6. ASSUME NEW c \in Call, Evaluate(c) PROVE Vetted'
  <2>1. /\ server[c] = "reading" /\ executions' = [executions EXCEPT ![c] = executions[c] + 1]
        /\ \A d \in Call \ {c} : seen'[d] = seen[d]
    BY <1>6, CountIsTyped DEF Evaluate, Count
  <2>2. PICK end \in {"answered", "failed"} : server' = [server EXCEPT ![c] = end]
    BY <1>6 DEF Evaluate
  <2>3. UNCHANGED <<caller, request>>
    BY <1>6 DEF Evaluate
  <2> QED
    BY <1>1, <2>1, <2>2, <2>3 DEF Vetted, TypeOK
<1>7. ASSUME NEW c \in Call, EvaluateFails(c) PROVE Vetted'
  BY <1>1, <1>7 DEF Vetted, TypeOK, EvaluateFails
<1>8. ASSUME Ready \/ Tick \/ \E k \in Card : KeyExpires(k) PROVE Vetted'
  BY <1>1, <1>8 DEF Vetted, Ready, Tick, KeyExpires, service
<1> QED
  BY <1>2, <1>3, <1>4, <1>5, <1>6, <1>7, <1>8 DEF Next

LEMMA RiskInvHolds == Spec => []RiskInv
<1>1. RiskInv /\ [Next]_vars => RiskInv'
  <2>1. RiskInv /\ Next => RiskInv'
    BY TypeStep, BreakerStep, VettedStep DEF RiskInv
  <2>2. RiskInv /\ UNCHANGED vars => RiskInv'
    BY DEF RiskInv, TypeOK, Serving, Vetted, Breaker, vars
  <2> QED
    BY <2>1, <2>2
<1> QED
  BY InitInv, <1>1, PTL DEF Spec

-----------------------------------------------------------------------------
\* Clocks, counters and stores stay of their types, whatever is lost.
THEOREM TypeCorrect == Spec => []TypeOK
<1>1. RiskInv => TypeOK
  BY DEF RiskInv
<1> QED
  BY RiskInvHolds, <1>1, PTL

\* CircuitBreaker refuses calls exactly while the last failure_threshold calls
\* to end have failed and the last of them did so within reset_timeout, for any
\* threshold, cooldown and number of calls racing each other.
THEOREM BreakerExact == Spec => []BreakerIsExact
<1>1. RiskInv => BreakerIsExact
  <2> SUFFICES ASSUME RiskInv PROVE BreakerIsExact
    OBVIOUS
  <2>1. Breaker /\ streak \in Nat /\ now \in Nat
    BY ConstantsType DEF RiskInv, TypeOK
  <2> QED
    BY <2>1, ConstantsType DEF Breaker, BreakerIsExact, CoolingDown
<1> QED
  BY RiskInvHolds, <1>1, PTL

\* A payment that goes on was counted once by risk-service and no rule fired;
\* one declined was beyond a hard limit; nothing is counted twice (fail closed,
\* retries=0).
THEOREM Vetting == Spec => []VettedOnce
<1>1. RiskInv => VettedOnce
  <2> SUFFICES ASSUME RiskInv, NEW c \in Call
               PROVE  /\ executions[c] <= 1
                      /\ caller[c] \in Verdicts => executions[c] = 1
                      /\ caller[c] = "approve" => NoRuleFires(c)
                      /\ caller[c] \in Verdicts => (caller[c] = "decline" <=> HardLimit(c))
    BY DEF VettedOnce
  <2>1. /\ executions[c] <= 1
        /\ caller[c] \in Verdicts => executions[c] = 1
    BY DEF RiskInv, Vetted
  <2>2. ASSUME caller[c] \in Verdicts
        PROVE  /\ caller[c] = Outcome(seen[c], request[c])
               /\ seen[c] \in Nat /\ request[c] \in Request
    BY <2>2 DEF RiskInv, Vetted, TypeOK
  <2> QED
    BY <2>1, <2>2, OutcomeOfRules DEF NoRuleFires, HardLimit
<1> QED
  BY RiskInvHolds, <1>1, PTL

-----------------------------------------------------------------------------
(* Bursts.  The store still remembers every attempt young enough to matter *)
(* to the next count, so a call is counted together with all that ran in   *)
(* the same burst before it.                                               *)

Counted == {c \in Call : executions[c] > 0}
CommonStore == IF backend = "redis" THEN Redis ELSE FirstPod

\* A clock reading is young, and without Redis one replica serves everyone.
Readings ==
    \A c \in Call :
        server[c] = "reading" =>
            /\ stamp[c] <= now /\ now - stamp[c] <= Delay
            /\ backend = "memory" => pod[c] = FirstPod

Remembered ==
    /\ IsFiniteSet(Counted)
    /\ \A c \in Counted :
          /\ ranAt[c] \in Time /\ ranAt[c] <= now
          /\ now - ranAt[c] < Window - Delay =>
                \E a \in attempts[CommonStore] : a.call = c /\ a.at >= ranAt[c] - Delay
          /\ expires[CardOf[c]] # None => expires[CardOf[c]] >= ranAt[c] + Window
    /\ backend = "memory" => \A k \in Card : expires[k] = None

\* In a burst of one card there are at most n calls whose count is at most n.
Spread ==
    \A n \in Nat, k \in Card, t \in Time :
        Cardinality({c \in Burst(k, t) : seen[c] <= n}) <= n

BurstInv == Readings /\ Remembered /\ Spread

LEMMA StoreServes ==
    ASSUME RiskInv, Readings, NEW c \in Call, server[c] = "reading"
    PROVE  /\ StoreOf(c) = CommonStore /\ CommonStore \in Store
           /\ stamp[c] \in Nat /\ now \in Nat /\ stamp[c] <= now /\ now - stamp[c] <= Delay
           /\ CardOf[c] \in Card
<1>1. TypeOK /\ Serving
  BY DEF RiskInv
<1>. QED  BY <1>1, ConstantsType, ConstantsAssumption
          DEF TypeOK, Serving, Readings, StoreOf, CommonStore

\* A count keeps whatever it may not forget, and adds the call's own attempt.
LEMMA CountKeeps ==
    ASSUME RiskInv, Readings, NEW c \in Call, server[c] = "reading",
           NEW a \in [call : Call, at : Time],
           \/ a = [call |-> c, at |-> stamp[c]]
           \/ a \in attempts[CommonStore] /\ CardOf[a.call] = CardOf[c] /\ a.at > now - Window
    PROVE  a \in Recorded(c)
<1>1. a.at \in Nat /\ Window \in Nat /\ Delay \in Nat /\ Delay < Window
  BY ConstantsType, ConstantsAssumption
<1>2. a.at > stamp[c] - Window
  BY <1>1, StoreServes
<1>3. InWindow(a.at, stamp[c])
  BY <1>1, <1>2, StoreServes DEF InWindow
<1>. QED  BY <1>3, StoreServes DEF Recorded, OfCard

\* A call is counted together with every call of its card that ran before it
\* in the same burst.
LEMMA CountSeesTheBurst ==
    ASSUME RiskInv, Readings, Remembered, NEW c \in Call, Count(c), NEW t \in Time,
           now \in t..(t + Window - Delay - 1)
    PROVE  /\ IsFiniteSet(Burst(CardOf[c], t))
           /\ Cardinality(Burst(CardOf[c], t)) + 1 <= seen'[c]
<1> DEFINE old == Burst(CardOf[c], t)
           B == old \cup {c}
<1>0. server[c] = "reading"
  BY DEF Count
<1>1. TypeOK /\ Vetted /\ Delay \in Nat /\ Window \in Nat /\ now \in Nat /\ t \in Nat
  BY <1>0, ConstantsType, StoreServes DEF RiskInv
<1>2. c \notin old
  BY <1>0, <1>1 DEF Vetted, Burst
<1>3. ASSUME NEW d \in old PROVE \E a \in Recorded(c) : a.call = d
  <2>1. d \in Counted /\ CardOf[d] = CardOf[c] /\ ranAt[d] \in t..(t + Window - Delay - 1)
    BY DEF Burst, Counted
  <2>2. ranAt[d] \in Nat /\ now - ranAt[d] < Window - Delay
    BY <1>1, <2>1
  <2>3. PICK a \in attempts[CommonStore] : a.call = d /\ a.at >= ranAt[d] - Delay
    BY <2>1, <2>2 DEF Remembered
  <2>4. a \in [call : Call, at : Time]
    BY <1>0, <1>1, StoreServes DEF TypeOK
  <2>5. a.at \in Nat
    BY <1>1, <2>4, ConstantsType
  <2>6. a.at > now - Window
    BY <1>1, <2>2, <2>3, <2>5
  <2>. QED  BY <1>0, <2>1, <2>3, <2>4, <2>6, CountKeeps
<1>4. \E a \in Recorded(c) : a.call = c
  <2>1. [call |-> c, at |-> stamp[c]] \in [call : Call, at : Time]
    BY <1>0 DEF RiskInv, Serving
  <2>. QED  BY <1>0, <2>1, CountKeeps
<1>5. \A d \in B : \E a \in Recorded(c) : a.call = d
  BY <1>3, <1>4
<1> DEFINE f == [d \in B |-> CHOOSE a \in Recorded(c) : a.call = d]
<1>6. \A d \in B : f[d] \in Recorded(c) /\ f[d].call = d
  BY <1>5
<1> HIDE DEF B
<1>7. f \in Injection(B, Recorded(c))
  BY <1>6 DEF Injection, IsInjective
<1>8. IsFiniteSet(Recorded(c))
  <2>1. IsFiniteSet(attempts[StoreOf(c)] \cup {[call |-> c, at |-> stamp[c]]})
    BY <1>0, StoreServes, FS_AddElement DEF RiskInv, Serving
  <2>2. Recorded(c) \subseteq attempts[StoreOf(c)] \cup {[call |-> c, at |-> stamp[c]]}
    BY DEF Recorded, OfCard
  <2>. QED  BY <2>1, <2>2, FS_Subset
<1>9. IsFiniteSet(B) /\ Cardinality(B) <= Cardinality(Recorded(c))
  BY <1>7, <1>8, FS_Injection
<1>10. IsFiniteSet(old)
  BY <1>9, FS_Subset DEF B
<1>11. Cardinality(B) = Cardinality(old) + 1
  BY <1>2, <1>10, FS_AddElement DEF B
<1>12. seen'[c] = Cardinality(Recorded(c))
  BY <1>1 DEF Count, TypeOK
<1>. QED  BY <1>9, <1>10, <1>11, <1>12

LEMMA ReadingsStep == RiskInv /\ Readings /\ Next => Readings'
<1> SUFFICES ASSUME RiskInv, Readings, Next PROVE Readings'
  OBVIOUS
<1>1. TypeOK /\ now \in Nat /\ Delay \in Nat
  BY ConstantsType DEF RiskInv, TypeOK
\* Requests that neither start nor go on reading, at the same time.
<1>2. ASSUME now' = now, backend' = backend,
             \A c \in Call : server'[c] = "reading" =>
                 server[c] = "reading" /\ stamp'[c] = stamp[c] /\ pod'[c] = pod[c]
      PROVE  Readings'
  BY <1>2 DEF Readings
<1>3. ASSUME NEW c \in Call, NEW p \in Pod, ReadClock(c, p) PROVE Readings'
  BY <1>1, <1>3 DEF ReadClock, Readings, Replicas, TypeOK
<1>4. CASE Tick
  <2>1. /\ now' = now + 1 /\ UNCHANGED <<backend, server, stamp, pod>>
        /\ \A c \in Call : server[c] = "reading" => now - stamp[c] < Delay
    BY <1>4 DEF Tick, service
  <2>2. \A c \in Call : server[c] = "reading" => stamp[c] \in Nat
    BY ConstantsType DEF RiskInv, Serving
  <2>. QED  BY <1>1, <2>1, <2>2 DEF Readings
<1>5. ASSUME NEW c \in Call, NEW r \in Request, Submit(c, r) PROVE Readings'
  BY <1>1, <1>2, <1>5 DEF Submit, TypeOK
<1>6. ASSUME NEW c \in Call, Evaluate(c) \/ EvaluateFails(c) PROVE Readings'
  BY <1>1, <1>2, <1>6 DEF Evaluate, EvaluateFails, Forget, TypeOK
<1>7. ASSUME NEW c \in Call, Deliver(c) \/ DeliverError(c) \/ TransportError(c) PROVE Readings'
  BY <1>2, <1>7 DEF Deliver, DeliverError, TransportError, service
<1>8. ASSUME Ready \/ \E k \in Card : KeyExpires(k) PROVE Readings'
  BY <1>2, <1>8 DEF Ready, KeyExpires, service
<1>. QED  BY <1>3, <1>4, <1>5, <1>6, <1>7, <1>8 DEF Next

LEMMA EvaluateRemembers ==
    ASSUME RiskInv, Readings, Remembered, NEW c \in Call, Evaluate(c)
    PROVE  Remembered'
<1> DEFINE k == CardOf[c]
           mine == [call |-> c, at |-> stamp[c]]
<1>0. Count(c) /\ server[c] = "reading" /\ now' = now /\ backend' = backend
  BY DEF Evaluate, Count
<1>1. /\ TypeOK /\ Vetted /\ now \in Time /\ now \in Nat /\ Window \in Nat /\ Delay \in Nat
      /\ Slack \in Nat /\ Delay < Window /\ None \notin Nat
  BY ConstantsType, ConstantsAssumption DEF RiskInv, TypeOK
<1>2. /\ ranAt' = [ranAt EXCEPT ![c] = now]
      /\ executions' = [executions EXCEPT ![c] = executions[c] + 1]
      /\ expires' = IF backend = "redis" THEN [expires EXCEPT ![k] = now + Window + Slack]
                                         ELSE expires
  BY <1>0 DEF Count
<1>3. /\ attempts'[CommonStore] = (attempts[CommonStore] \ OfCard(CommonStore, k)) \cup Recorded(c)
      /\ CommonStore' = CommonStore
  BY <1>0, <1>1, StoreServes DEF Count, TypeOK, CommonStore
<1>4. Counted' = Counted \cup {c} /\ c \notin Counted
  <2>1. executions[c] = 0 /\ executions'[c] = 1
    BY <1>0, <1>1, <1>2 DEF Vetted, TypeOK
  <2>2. \A d \in Call \ {c} : executions'[d] = executions[d]
    BY <1>1, <1>2 DEF TypeOK
  <2>. QED  BY <2>1, <2>2 DEF Counted
<1>5. IsFiniteSet(Counted')
  BY <1>4, FS_AddElement DEF Remembered
<1>6. \A d \in Counted : d \in Call /\ d # c /\ ranAt'[d] = ranAt[d]
  BY <1>1, <1>2, <1>4 DEF TypeOK, Counted
<1>7. ranAt'[c] = now
  BY <1>1, <1>2 DEF TypeOK
<1>8. \A d \in Counted' : ranAt'[d] \in Time /\ ranAt'[d] <= now'
  BY <1>0, <1>1, <1>4, <1>6, <1>7 DEF Remembered
<1>9. ASSUME NEW d \in Counted', now' - ranAt'[d] < Window - Delay
      PROVE  \E a \in attempts'[CommonStore'] : a.call = d /\ a.at >= ranAt'[d] - Delay
  <2>1. CASE d = c
    <3>1. stamp[c] \in Nat /\ stamp[c] >= now - Delay
      BY <1>0, <1>1, StoreServes
    <3>2. mine \in [call : Call, at : Time]
      BY <1>0 DEF RiskInv, Serving
    <3>3. mine \in Recorded(c)
      BY <1>0, <3>2, CountKeeps
    <3>. QED  BY <1>3, <1>7, <2>1, <3>1, <3>3
  <2>2. CASE d # c
    <3>1. d \in Counted /\ ranAt'[d] = ranAt[d] /\ ranAt[d] \in Nat
      BY <1>4, <1>6, <2>2, ConstantsType DEF Remembered
    <3>2. PICK a \in attempts[CommonStore] : a.call = d /\ a.at >= ranAt[d] - Delay
      BY <1>0, <1>9, <3>1 DEF Remembered
    <3>3. a \in [call : Call, at : Time] /\ a.at \in Nat
      BY <1>0, <1>1, StoreServes, ConstantsType DEF TypeOK
    <3>4. a.at > now - Window
      BY <1>0, <1>1, <1>9, <3>1, <3>2, <3>3
    <3>5. CASE CardOf[a.call] = k
      BY <1>0, <1>3, <3>1, <3>2, <3>3, <3>4, <3>5, CountKeeps
    <3>6. CASE CardOf[a.call] # k
      BY <1>3, <3>1, <3>2, <3>6 DEF OfCard
    <3>. QED  BY <3>5, <3>6
  <2>. QED  BY <2>1, <2>2
<1>10. ASSUME NEW d \in Counted', expires'[CardOf[d]] # None
       PROVE  expires'[CardOf[d]] >= ranAt'[d] + Window
  <2>1. CardOf[d] \in Card /\ d \in Call
    BY <1>4, ConstantsAssumption DEF Counted
  <2>2. ranAt'[d] \in Nat /\ ranAt'[d] <= now
    BY <1>0, <1>8, ConstantsType
  <2>3. CASE backend = "redis" /\ CardOf[d] = k
    <3>1. expires'[k] = now + Window + Slack
      BY <1>1, <1>2, <2>1, <2>3 DEF TypeOK
    <3>. QED  BY <1>1, <2>2, <2>3, <3>1
  <2>4. CASE ~ (backend = "redis" /\ CardOf[d] = k)
    <3>1. expires'[CardOf[d]] = expires[CardOf[d]] /\ expires[CardOf[d]] # None
      BY <1>1, <1>2, <1>10, <2>1, <2>4 DEF TypeOK
    <3>2. d # c
      BY <1>1, <2>1, <2>4, <3>1 DEF Remembered, TypeOK
    <3>. QED  BY <1>4, <1>6, <3>1, <3>2 DEF Remembered
  <2>. QED  BY <2>3, <2>4
<1>11. backend' = "memory" => \A j \in Card : expires'[j] = None
  BY <1>0, <1>2 DEF Remembered
<1>. QED  BY <1>5, <1>8, <1>9, <1>10, <1>11 DEF Remembered

LEMMA RememberedStep == RiskInv /\ Readings /\ Remembered /\ Next => Remembered'
<1> SUFFICES ASSUME RiskInv, Readings, Remembered, Next PROVE Remembered'
  OBVIOUS
<1>1. /\ TypeOK /\ now \in Nat /\ Window \in Nat /\ Delay \in Nat /\ Redis \notin Pod
      /\ FirstPod \in Pod
  BY ConstantsType DEF RiskInv, TypeOK
<1>2. ASSUME UNCHANGED <<backend, now, executions, ranAt, attempts, expires>> PROVE Remembered'
  BY <1>2 DEF Remembered, Counted, CommonStore
<1>3. CASE Tick
  <2>1. /\ now' = now + 1 /\ now' \in Time
        /\ UNCHANGED <<backend, executions, ranAt, attempts, expires>>
    BY <1>1, <1>3, TypeStep DEF Tick, service, TypeOK
  <2>2. Counted' = Counted /\ CommonStore' = CommonStore
    BY <2>1 DEF Counted, CommonStore
  <2>3. \A c \in Counted : ranAt[c] \in Nat
    BY ConstantsType DEF Remembered
  <2>. QED  BY <1>1, <2>1, <2>2, <2>3 DEF Remembered
<1>4. ASSUME NEW k \in Card, KeyExpires(k) PROVE Remembered'
  <2>1. /\ expires[k] # None /\ now >= expires[k] /\ expires' = [expires EXCEPT ![k] = None]
        /\ attempts' = [attempts EXCEPT ![Redis] = attempts[Redis] \ OfCard(Redis, k)]
        /\ UNCHANGED <<backend, now, executions, ranAt>>
    BY <1>4 DEF KeyExpires
  <2>2. Counted' = Counted /\ CommonStore' = CommonStore /\ CommonStore = Redis
    BY <1>1, <2>1 DEF Counted, CommonStore, Remembered, TypeOK
  <2>3. attempts'[Redis] = attempts[Redis] \ OfCard(Redis, k)
    BY <1>1, <2>1 DEF TypeOK
  <2>4. ASSUME NEW c \in Counted, now - ranAt[c] < Window - Delay
        PROVE  \E a \in attempts'[Redis] : a.call = c /\ a.at >= ranAt[c] - Delay
    <3>1. PICK a \in attempts[Redis] : a.call = c /\ a.at >= ranAt[c] - Delay
      BY <2>2, <2>4 DEF Remembered
    <3>2. ranAt[c] \in Nat /\ expires[k] \in Nat
      BY <1>1, <2>1, ConstantsType DEF Remembered, TypeOK
    <3>3. CardOf[c] # k
      BY <1>1, <2>1, <2>4, <3>2 DEF Remembered
    <3>. QED  BY <2>3, <3>1, <3>3 DEF OfCard
  <2>5. \A j \in Card : expires'[j] = None \/ expires'[j] = expires[j]
    BY <1>1, <2>1 DEF TypeOK
  <2>6. \A c \in Counted : CardOf[c] \in Card
    BY ConstantsAssumption DEF Counted
  <2>. QED  BY <2>1, <2>2, <2>4, <2>5, <2>6 DEF Remembered
<1>5. ASSUME NEW c \in Call, NEW r \in Request, Submit(c, r) PROVE Remembered'
  BY <1>2, <1>5 DEF Submit
<1>6. ASSUME NEW c \in Call, Evaluate(c) PROVE Remembered'
  BY <1>6, EvaluateRemembers
<1>7. ASSUME NEW c \in Call,
             \/ Deliver(c) \/ DeliverError(c) \/ TransportError(c) \/ EvaluateFails(c)
             \/ \E p \in Pod : ReadClock(c, p)
      PROVE  Remembered'
  BY <1>2, <1>7 DEF Deliver, DeliverError, TransportError, EvaluateFails, ReadClock, service
<1>8. CASE Ready
  BY <1>2, <1>8 DEF Ready, service
<1>. QED  BY <1>3, <1>4, <1>5, <1>6, <1>7, <1>8 DEF Next

LEMMA SpreadStep == RiskInv /\ BurstInv /\ Next => Spread'
<1> SUFFICES ASSUME RiskInv, BurstInv, Next PROVE Spread'
  OBVIOUS
<1>1. TypeOK /\ Vetted /\ Readings /\ Remembered /\ Spread
  BY DEF RiskInv, BurstInv
<1>2. ASSUME UNCHANGED <<executions, ranAt, seen>> PROVE Spread'
  BY <1>1, <1>2 DEF Spread, Burst
<1>3. ASSUME NEW c \in Call, Evaluate(c) PROVE Spread'
  <2>0. Count(c) /\ server[c] = "reading"
    BY <1>3 DEF Evaluate, Count
  <2>1. /\ ranAt'[c] = now /\ executions'[c] > 0 /\ executions[c] = 0 /\ seen'[c] \in Nat
        /\ \A d \in Call \ {c} : /\ executions'[d] = executions[d] /\ ranAt'[d] = ranAt[d]
                                 /\ seen'[d] = seen[d]
    <3>1. executions[c] = 0 /\ seen'[c] \in Nat /\ \A d \in Call \ {c} : seen'[d] = seen[d]
      BY <1>1, <2>0, CountIsTyped DEF Vetted
    <3>2. /\ ranAt' = [ranAt EXCEPT ![c] = now]
          /\ executions' = [executions EXCEPT ![c] = executions[c] + 1]
      BY <2>0 DEF Count
    <3>. QED  BY <1>1, <3>1, <3>2 DEF TypeOK
  <2> SUFFICES ASSUME NEW n \in Nat, NEW k \in Card, NEW t \in Time
               PROVE  Cardinality({d \in Burst(k, t)' : seen'[d] <= n}) <= n
    BY DEF Spread, Burst
  <2> DEFINE old == {d \in Burst(k, t) : seen[d] <= n}
             new == {d \in Burst(k, t)' : seen'[d] <= n}
  <2>2. CASE k = CardOf[c] /\ now \in t..(t + Window - Delay - 1) /\ seen'[c] <= n
    <3>1. /\ IsFiniteSet(Burst(k, t)) /\ Cardinality(Burst(k, t)) \in Nat
          /\ Cardinality(Burst(k, t)) + 1 <= seen'[c]
      BY <1>1, <2>0, <2>2, CountSeesTheBurst, FS_CardinalityType
    <3>2. new \subseteq Burst(k, t) \cup {c}
      BY <2>1 DEF Burst
    <3>3. /\ IsFiniteSet(Burst(k, t) \cup {c})
          /\ Cardinality(Burst(k, t) \cup {c}) = Cardinality(Burst(k, t)) + 1
          /\ Cardinality(Burst(k, t) \cup {c}) \in Nat
      <4>1. c \notin Burst(k, t)
        BY <2>1 DEF Burst
      <4>. QED  BY <3>1, <4>1, FS_AddElement
    <3>4. Cardinality(new) <= Cardinality(Burst(k, t) \cup {c}) /\ Cardinality(new) \in Nat
      BY <3>2, <3>3, FS_Subset, FS_CardinalityType
    <3>. QED  BY <2>1, <2>2, <3>1, <3>3, <3>4
  <2>3. CASE ~ (k = CardOf[c] /\ now \in t..(t + Window - Delay - 1) /\ seen'[c] <= n)
    <3>1. new = old
      BY <2>1, <2>3 DEF Burst
    <3>. QED  BY <1>1, <3>1 DEF Spread
  <2>. QED  BY <2>2, <2>3
<1>4. ASSUME NEW c \in Call,
             \/ Deliver(c) \/ DeliverError(c) \/ TransportError(c) \/ EvaluateFails(c)
             \/ (\E p \in Pod : ReadClock(c, p)) \/ \E r \in Request : Submit(c, r)
      PROVE  Spread'
  BY <1>2, <1>4 DEF Deliver, DeliverError, TransportError, EvaluateFails, ReadClock, Submit,
     service
<1>5. ASSUME Ready \/ Tick \/ \E k \in Card : KeyExpires(k) PROVE Spread'
  BY <1>2, <1>5 DEF Ready, Tick, KeyExpires, service
<1>. QED  BY <1>3, <1>4, <1>5 DEF Next

\* However many replicas count, calls race and keys expire, at most ReviewCount
\* calls of a burst go unremarked and at most DeclineCount escape a decline, for
\* every window, clock skew and threshold.
THEOREM BurstsCaught == Spec => []BurstsAreCaught
<1>1. Init => BurstInv
  <2> SUFFICES ASSUME Init PROVE BurstInv
    OBVIOUS
  <2>1. Counted = {} /\ \A k \in Card, t \in Time : Burst(k, t) = {}
    BY DEF Init, Counted, Burst
  <2>2. Readings
    BY DEF Init, Readings
  <2>3. Remembered
    BY <2>1, FS_EmptySet DEF Init, Remembered
  <2>4. ASSUME NEW n \in Nat, NEW k \in Card, NEW t \in Time
        PROVE  Cardinality({c \in Burst(k, t) : seen[c] <= n}) <= n
    <3>1. {c \in Burst(k, t) : seen[c] <= n} = {}
      BY <2>1
    <3>. QED  BY <3>1, FS_EmptySet
  <2>. QED  BY <2>2, <2>3, <2>4 DEF BurstInv, Spread
<1>2. RiskInv /\ BurstInv /\ [Next]_vars => BurstInv'
  <2>1. RiskInv /\ BurstInv /\ Next => BurstInv'
    BY ReadingsStep, RememberedStep, SpreadStep DEF BurstInv
  <2>2. BurstInv /\ UNCHANGED vars => BurstInv'
    BY DEF BurstInv, Readings, Remembered, Counted, CommonStore, Spread, Burst, vars
  <2>. QED  BY <2>1, <2>2
<1>3. RiskInv /\ BurstInv => BurstsAreCaught
  <2> SUFFICES ASSUME RiskInv, BurstInv, NEW k \in Card, NEW t \in Time
               PROVE  /\ Cardinality({c \in Burst(k, t) : Outcome(seen[c], request[c]) = "approve"})
                           <= ReviewCount
                      /\ Cardinality({c \in Burst(k, t) : Outcome(seen[c], request[c]) # "decline"})
                           <= DeclineCount
    BY DEF BurstsAreCaught
  <2>1. \A c \in Burst(k, t) : seen[c] \in Nat /\ request[c] \in Request
    BY DEF RiskInv, TypeOK, Vetted, Burst
  <2>2. IsFiniteSet(Burst(k, t))
    BY FS_Subset DEF BurstInv, Remembered, Burst, Counted
  \* What holds of the calls counted up to n holds of any of them.
  <2>3. ASSUME NEW n \in Nat, NEW S, S \subseteq {c \in Burst(k, t) : seen[c] <= n}
        PROVE  Cardinality(S) <= n
    <3> DEFINE U == {c \in Burst(k, t) : seen[c] <= n}
    <3>1. IsFiniteSet(U)
      BY <2>2, FS_Subset
    <3>2. Cardinality(U) <= n
      BY DEF BurstInv, Spread
    <3> HIDE DEF U
    <3>3. IsFiniteSet(S) /\ Cardinality(S) <= Cardinality(U)
      BY <2>3, <3>1, FS_Subset DEF U
    <3>4. Cardinality(S) \in Nat /\ Cardinality(U) \in Nat
      BY <3>1, <3>3, FS_CardinalityType
    <3>. QED  BY <3>2, <3>3, <3>4
  <2>4. {c \in Burst(k, t) : Outcome(seen[c], request[c]) = "approve"}
          \subseteq {c \in Burst(k, t) : seen[c] <= ReviewCount}
    BY <2>1, OutcomeOfRules
  <2>5. {c \in Burst(k, t) : Outcome(seen[c], request[c]) # "decline"}
          \subseteq {c \in Burst(k, t) : seen[c] <= DeclineCount}
    <3>1. \A c \in Burst(k, t) :
             Outcome(seen[c], request[c]) # "decline" => ~ (seen[c] > DeclineCount)
      BY <2>1, OutcomeOfRules
    <3>. QED  BY <2>1, <3>1, ConstantsType
  <2>. QED  BY <2>3, <2>4, <2>5, ConstantsType
<1> QED
  BY RiskInvHolds, <1>1, <1>2, <1>3, PTL DEF Spec

=============================================================================
