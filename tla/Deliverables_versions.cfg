CONSTANTS
    Producer = producer
    People = {p1}
    ChainLength = 2
    EditStatuses = {"approved"}
    MaxWrites = 3
    MaxFaults = 0
SPECIFICATION Spec
PROPERTIES
    VersionsAreMonotone
CHECK_DEADLOCK FALSE
