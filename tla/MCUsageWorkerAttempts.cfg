\* One metered call as the gateway adds it, and one failing statement.
SPECIFICATION Spec
CONSTANTS
    j1 = j1
    j2 = j2
    Job <- OneJob
    JobType <- OneJobType
    Amount = {3}
    Attempts <- OneJobAttempts
    MaxFaults = 1
    MaxRollBacks = 0
INVARIANT ThreeAttempts
CHECK_DEADLOCK FALSE
