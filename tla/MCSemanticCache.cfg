\* Four calls on three prompts, all similar but for the first and the
\* last; the cache enabled or not, one restart.
SPECIFICATION FairSpec
CONSTANTS
    c1 = c1
    c2 = c2
    c3 = c3
    c4 = c4
    p1 = p1
    p2 = p2
    p3 = p3
    Call = {c1, c2, c3, c4}
    Prompt = {p1, p2, p3}
    PromptOf <- FourPrompts
    Similar <- Chain
    None = none
    MaxCrashes = 1
INVARIANTS
    NoDrift
    HitsBalance
PROPERTIES
    ImplementsPromise
    CallsAnswered
CHECK_DEADLOCK FALSE
