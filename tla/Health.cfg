\* Two checks overlap (one that waits for Redis and the interval's next one); the
\* stores change twice (an outage and its end, or an outage of each), one
\* connection or the gateway breaks, and the page is opened and perhaps left.
SPECIFICATION HealthFairSpec
CONSTANTS
    Check = {c1, c2}
    MaxChanges = 2
    MaxBreaks = 1
    MaxVisits = 1
INVARIANTS
    ReportIsReal
PROPERTIES
    PageConverges
    AwayIsUnknown
CHECK_DEADLOCK FALSE
