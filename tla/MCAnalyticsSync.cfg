SPECIFICATION FairSpec
CONSTANTS
    r1 = r1
    r2 = r2
    r3 = r3
    a1 = a1
    a2 = a2
    Rrn = {r1, r2, r3}
    Account = {a1, a2}
    DebitOf <- MCDebitOf
    Run = {pod1, pod2}
    PageSize = 2
    BatchSize = 1
    MaxTime = 3
    MaxFailures = 1
    MaxWipes = 1
INVARIANTS TypeOK NothingSkipped HonestAggregate
PROPERTIES CleanExitMissesNothing EventuallyLoaded
