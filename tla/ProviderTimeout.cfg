\* One call of one conversation: does any attempt outlast its timeout?
SPECIFICATION Spec
CONSTANTS
    Request = {r1}
    Asks <- OneAsk
    Text = {1, 2, 3}
    Model = {"llama3-70b-8192"}
    TokenCount = {1}
    UsdToInr = 84
    GeminiDefaultModel = "gemini-2.5-flash"
    TimeoutMs = 2
    IdleTimeout = 2
    LongestWait = 3
INVARIANT AttemptWithinTimeout
CHECK_DEADLOCK FALSE
