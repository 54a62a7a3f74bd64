SPECIFICATION Spec
CONSTANTS
    None = None
    alice = alice
    bob = bob
    nobody = nobody
    Registration = {r1, r2}
    Card = {d1, d2}
    Spelling <- MCSpelling
    Subscriber <- MCSubscriber
    CountryCode <- MCCountryCode
    MinDigits = 3
    MaxDigits = 3
    DeleteRetries = 1
    Purges = 0
SYMMETRY Symmetry
INVARIANT SubscriberHasOneAccount
CHECK_DEADLOCK FALSE
