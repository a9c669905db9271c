\* A served call of one key, whose job may be run three times and outgrows a page
\* of two rows, and a text that names no key; the page is opened with and
\* without a key in its URL, and sends up to three lookups.
SPECIFICATION FairSpec
CONSTANTS
    j1 = j1
    k1 = k1
    Job = {j1}
    Increment = {2}
    Key = {k1}
    Unknown = unknown
    None = none
    KeyOf <- OneKeyOf
    Urls <- TwoUrls
    PageSize = 2
    MaxRows = 3
    MaxLookups = 3
INVARIANTS
    TypeOK
    ReportCovered
    ShownIsSearched
PROPERTY
    PageSettles
CHECK_DEADLOCK FALSE
