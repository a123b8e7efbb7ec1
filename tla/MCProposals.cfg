CONSTANTS
    c1 = c1
    c2 = c2
    c3 = c3
    Calls <- MCCalls
    KeyOf <- MCKeyOf
    Limit = 3
    MaxFaults = 1
SPECIFICATION FairSpec
INVARIANTS
    ToldOnceAndRight
    OrphansAreExplained
PROPERTIES
    ResolvedIsReported
CHECK_DEADLOCK FALSE
