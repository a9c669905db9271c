\* Three creations in a row, two remounts and up to two faults, with a token that fits or not.
SPECIFICATION Spec
CONSTANTS
    MaxCreates = 3
    MaxFaults = 2
    MaxReloads = 2
    Demo = demo
    Mock = mock
    None = none
INVARIANTS
    KeysAccounted
    ListRepaired
PROPERTY
    RawKeySeen
CHECK_DEADLOCK FALSE
