SPECIFICATION FairReplaySpec
CONSTANTS
    u1 = u1
    u2 = u2
    t1 = t1
    t2 = t2
    r1 = r1
    r2 = r2
    f1 = f1
    f2 = f2
    NoOwner = NoOwner
    Users = {u1, u2}
    Tokens = {t1, t2}
    Requests = {r1, r2}
    Codes = {}
    Owner <- TwoOwner
    Bearer <- TwoBearer
    CodeValue <- NoCode
    Estimates = {2}
    Charges = {3}
    Balances = {4}
    Legacy = {}
    MaxSafe = 4
    MaxEdits = 1
    Flushers = {f1}
    BatchLimit = 2
    MaxFaults = 1
PROPERTIES
    SettleableIsBilled
