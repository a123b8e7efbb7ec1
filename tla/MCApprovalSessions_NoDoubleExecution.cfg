CONSTANTS
    charles = charles
    pat = pat
    None = None
    Users <- MCUsers
    RoleOf <- MCRoleOf
    Sessions = {s1, s2}
    InitialRows <- MCWrites
    MaxEntries = 3
SYMMETRY SessionSymmetry
SPECIFICATION Spec
INVARIANT
    NoDoubleExecution
CHECK_DEADLOCK FALSE
