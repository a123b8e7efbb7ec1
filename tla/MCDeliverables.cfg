CONSTANTS
    Producer = producer
    People = {p1, p2}
    ChainLength = 2
    EditStatuses = {"awaiting_human"}
    MaxWrites = 3
    MaxFaults = 1
SPECIFICATION Spec
SYMMETRY Symmetry
INVARIANTS
    NothingIsLost
    PeopleFinalize
    GateClosesWhatWaits
    CompleteMeansOutput
CHECK_DEADLOCK FALSE
