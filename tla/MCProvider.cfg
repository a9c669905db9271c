\* One call (calls share nothing but the environment and the process) under
\* every configuration of API keys, with any conversation of up to three
\* messages; a body may come in any number of chunks.
SPECIFICATION FairSpec
CONSTANTS
    Request = {r1}
    Asks <- SomeAsks
    Text = {1, 2, 3}
    Model <- Models
    TokenCount = {0, 1, 1000}
    UsdToInr = 84
    GeminiDefaultModel = "gemini-2.5-flash"
    TimeoutMs = 2
    IdleTimeout = 2
    LongestWait = 3
INVARIANTS
    AsksTheSame
    CostFollowsUse
PROPERTIES
    ImplementsPromise
    CallsEnd
CHECK_DEADLOCK FALSE
