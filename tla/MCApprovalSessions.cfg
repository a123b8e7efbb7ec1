CONSTANTS
    charles = charles
    pat = pat
    None = None
    Users <- MCUsers
    RoleOf <- MCRoleOf
    Sessions = {s1, s2}
    InitialRows <- MCRows
    MaxEntries = 4
SYMMETRY SessionSymmetry
SPECIFICATION Spec
INVARIANTS
    EveryRunIsBacked
    BreachTaggedOnce
CHECK_DEADLOCK FALSE
