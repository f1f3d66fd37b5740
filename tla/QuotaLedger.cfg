SPECIFICATION Spec
CONSTANTS
    u1 = u1
    u2 = u2
    t1 = t1
    t2 = t2
    r1 = r1
    r2 = r2
    r3 = r3
    c1 = c1
    Users = {u1, u2}
    Tokens = {t1, t2}
    Requests = {r1, r2, r3}
    Codes = {c1}
    Owner <- TwoKeyOwner
    Bearer <- TwoKeyBearer
    CodeValue <- OneCode
    Estimates = {0, 2}
    Charges = {0, 3}
    Balances = {3}
    Legacy = {u2}
    MaxSafe = 3
    MaxEdits = 1
INVARIANTS
    AccountsStaySafe
    BooksBalance
PROPERTIES
    DebtOnlyFromOverrun
    KeepsPromise
CHECK_DEADLOCK FALSE
