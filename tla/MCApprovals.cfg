CONSTANTS
    charles = charles
    pat = pat
    olive = olive
    Users <- MCUsers
    RoleOf <- MCRoleOf
    Items = {i1}
SPECIFICATION FairSpec
INVARIANTS
    QuorumBeforeExecution
    HumanInTheLoop
    StatusIsAudited
PROPERTIES
    ClosedStaysClosed
    KeepsTheGate
    BreachIsAnnounced
    ApprovedIsExecuted
CHECK_DEADLOCK FALSE
