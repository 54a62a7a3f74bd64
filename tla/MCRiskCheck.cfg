SPECIFICATION Spec
CONSTANTS
    c1 = c1
    c2 = c2
    c3 = c3
    card = card
    None = None
    Redis = redis
    Call = {c1, c2, c3}
    Card = {card}
    CardOf <- MCCardOf
    Request <- MCRequest
    Pod = {pod1, pod2}
    FirstPod = pod1
    Window = 3
    ReviewCount = 1
    DeclineCount = 2
    AmountReview = 2
    AmountDecline = 4
    ManualReview = 1
    Threshold = 2
    ResetTimeout = 2
    Slack = 0
    Delay = 1
    MaxTime = 3
SYMMETRY Symmetry
INVARIANTS TypeOK BurstsAreCaught VettedOnce BreakerIsExact
CHECK_DEADLOCK FALSE
