SPECIFICATION FairSpec
CONSTANTS
    s1 = s1
    s2 = s2
    w1 = w1
    w2 = w2
    funding = funding
    r1 = r1
    r2 = r2
    r3 = r3
    None = None
    Operator = operator
    Dialect = "postgres"
    Maintenance = {"purge"}
    Faults = {"connection_lost"}
    Session = {s1, s2}
    Wallet = {w1, w2}
    Opened = {w1, w2}
    Funding = funding
    Rrn = {r1, r2, r3}
    Kind = {"topup", "purchase", "transfer"}
    Request <- MCRequest
INVARIANTS TypeOK UniqueRrn Solvent SuccessIsRecorded
PROPERTIES LedgerSpec EveryCallIsAnswered
