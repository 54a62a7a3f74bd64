SPECIFICATION Spec
CONSTANTS
    None = None
    alice = alice
    bob = bob
    nobody = nobody
    Registration = {r1, r2}
    Card = {d1, d2}
    Spelling <- MCSpelling
    Subscriber <- MCSubscriber
    CountryCode <- MCCountryCode
    MinDigits = 3
    MaxDigits = 3
    DeleteRetries = 1
    Purges = 1
SYMMETRY Symmetry
INVARIANTS
    TypeOK OneUserPerSubscriber SuccessHasBoth
    FailedLeavesNoUser PurgedLeavesNothing
CHECK_DEADLOCK FALSE
