SPECIFICATION FairSpec
CONSTANTS
    None = None
    Client = {q1, q2, q3}
    Key = {k1}
    Body = {b1, b2}
    Topups = {b1}
    Stores = {"redis", "memory"}
    Faults = {"expiry", "crash"}
INVARIANTS TypeOK OneExecutionPerKey ClaimedWhileInDoubt SuccessesAgree
PROPERTY EveryRequestIsAnswered
CHECK_DEADLOCK FALSE
