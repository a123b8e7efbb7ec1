CONSTANTS
    Rows = {cron, once}
    OneShot = {once}
    DeleteAfterRun = {once}
    Passes = {p1, p2}
    Limit = 2
    NoRow = NoRow
    Executions = {e1, e2}
    Delays = {0, 1}
    MaxTime = 2
    MaxArms = 2
    MaxJobs = 1
    MaxFaults = 1
SPECIFICATION FairSpec
INVARIANTS
    ClaimedOncePerOccurrence
    WokenOnce
PROPERTIES
    DueIsClaimed
CHECK_DEADLOCK FALSE
