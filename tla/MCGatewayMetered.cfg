\* Two calls on a "tokens" key: the worker charges Postgres and then Redis, while
\* the other call is checked against what Redis has so far; every caller that
\* waits for nobody else is answered, and every answer is logged.
SPECIFICATION WarmFairSpec
CONSTANTS
    k1 = k1
    r1 = r1
    r2 = r2
    p1 = p1
    p2 = p2
    Prompt = {p1}
    PromptOf <- SamePrompt
    Similar <- OnlyItself
    None = none
    Request = {r1, r2}
    Key <- OneKey
    KeyOf <- TwoOfOne
    BudgetType <- TokensOnly
    Limit <- LimitOne
    Amount = {2}
    MaxRollBacks = 0
    MaxLostReplies = 1
    Attempts = 1
    MaxFaults = 1
    MaxCrashes = 1
    CacheEnabled = TRUE
ACTION_CONSTRAINT
    OneFailure
INVARIANTS
    DriftExplained
PROPERTIES
    CallersAnswered
    ServedIsLogged
CHECK_DEADLOCK FALSE
