CONSTANTS
    Events = {e1, e2, e3}
    MaxLines = 4
    Capacity = 2
    MaxRestarts = 1
    MaxRotations = 1
    MaxItems = 4
    MaxFaults = 2
    Drafters = {d1, d2}
    Drafts = {c1, c2}
    MaxLapses = 1
SPECIFICATION PipelinesSpec
INVARIANTS
    RepeatsHaveACause
    SecondWorksFromApproved
    ResultRestsOnStamp
    DraftsAreAccountedFor
PROPERTIES
    WrittenIsDispatched
    StampedGoesOn
CHECK_DEADLOCK FALSE
