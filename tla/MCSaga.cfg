SPECIFICATION FairSpec
CONSTANTS
    c1 = c1
    c2 = c2
    alice = alice
    shop = shop
    funding = funding
    ann = ann
    bob = bob
    r0 = r0
    r1 = r1
    r2 = r2
    r3 = r3
    None = None
    Call = {c1, c2}
    Job <- MCJob
    Wallet = {alice, shop}
    Funding = funding
    Owner <- MCOwner
    Rrn = {r0, r1, r2}
    Faults = {"collision", "database", "crash"}
    PostRetries = 1
    ReverseRetries = 1
    References = 2
    Deposit <- MCDeposit
INVARIANTS TypeOK ApprovedIsRecorded MovesMoneyOnce NoSilentHold
PROPERTIES PostsOnlyWhatIsHeld EveryCallIsAnswered
CHECK_DEADLOCK FALSE
