\* A "requests" call with the one attempt the gateway's queue gives it and a
\* metered call, which may have used nothing, with the three attempts of the
\* usage module's queue; two faults, one roll back of Redis.
SPECIFICATION FairSpec
CONSTANTS
    j1 = j1
    j2 = j2
    Job <- TwoJobs
    JobType <- TwoJobTypes
    Amount = {0, 3}
    Attempts <- TwoJobAttempts
    MaxFaults = 2
    MaxRollBacks = 1
INVARIANTS
    LoggedBeforeCharged
    CompletedIsRecorded
    RunsBounded
    ExactWithoutFaults
PROPERTIES
    AllSettle
    ImplementsBooks
CHECK_DEADLOCK FALSE
