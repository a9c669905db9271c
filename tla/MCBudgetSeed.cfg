\* Two requests race for the one unit of a "requests" key while Redis loses the
\* key's counter, at 0, once; nothing else fails.
SPECIFICATION Spec
CONSTANTS
    k1 = k1
    k2 = k2
    r1 = r1
    r2 = r2
    r3 = r3
    r4 = r4
    Request = {r1, r2}
    Key <- OneKey
    KeyOf <- TwoOfOne
    BudgetType <- RequestsOnly
    Limit <- LimitOne
    Amount = {1}
    MaxRollBacks = 1
    MaxLostReplies = 0
    MaxCharged = 0
INVARIANT OvershootIsForgotten
CHECK_DEADLOCK FALSE
