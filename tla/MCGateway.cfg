\* Two calls on a "requests" key with one unit left: the check, the handler and
\* the worker interleave; Redis may roll back, a reply may be lost, a database
\* statement may fail and the process may die, once each.
SPECIFICATION StaleSpec
SYMMETRY Symmetry
CONSTANTS
    k1 = k1
    r1 = r1
    r2 = r2
    p1 = p1
    p2 = p2
    Prompt = {p1, p2}
    PromptOf <- SamePrompt
    Similar <- OnlyItself
    None = none
    Request = {r1, r2}
    Key <- OneKey
    KeyOf <- TwoOfOne
    BudgetType <- RequestsOnly
    Limit <- LimitOne
    Amount = {2}
    MaxRollBacks = 1
    MaxLostReplies = 1
    Attempts = 1
    MaxFaults = 1
    MaxCrashes = 1
    CacheEnabled = TRUE
INVARIANTS
    ServedWithinLimit
    DriftExplained
    ChargesNeedAnswer
    AnswerFits
PROPERTIES
    ImplementsBudget
CHECK_DEADLOCK FALSE
