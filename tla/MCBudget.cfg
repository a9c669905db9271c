\* Three requests race for two units of a "requests" key while a fourth uses a
\* metered key; one roll back of Redis, one lost reply, a crash at any time.
SPECIFICATION FairSpec
CONSTANTS
    k1 = k1
    k2 = k2
    r1 = r1
    r2 = r2
    r3 = r3
    r4 = r4
    Request = {r1, r2, r3, r4}
    Key <- TwoKeys
    KeyOf <- FourMixed
    BudgetType <- Mixed
    Limit <- LimitsTwo
    Amount = {0, 2}
    MaxRollBacks = 1
    MaxLostReplies = 1
    MaxCharged = 2
INVARIANTS
    NoOverspend
    OverspendBound
    NoFalseRefusal
    LedgerBalances
PROPERTIES
    ExhaustionIsFinal
    ImplementsGate
    ChecksEnd
CHECK_DEADLOCK FALSE
