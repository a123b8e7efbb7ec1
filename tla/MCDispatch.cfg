CONSTANTS
    Workers = {w1, w2}
    Nobody = Nobody
    LeaseCovers = TRUE
    MaxFaults = 3
    MaxPosts = 5
    MaxMessages = 2
    MaxHandlers <- MCHandlers
    MaxChatFaults = 1
SPECIFICATION DispatchSpec
INVARIANTS
    OneAtATime
    DoneMeansDelivered
    DuplicatesCostFaults
    RepliesAreTheirOwn
PROPERTIES
    KeepsTenure
    EstimatingIsDispatched
    EveryMessageIsAnswered
CHECK_DEADLOCK FALSE
