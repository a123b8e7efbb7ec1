CONSTANTS
    t1 = t1
    t2 = t2
    t3 = t3
    t4 = t4
    ag1 = ag1
    ag2 = ag2
    l1 = l1
    l2 = l2
    l3 = l3
    c1 = c1
    c2 = c2
    k1 = k1
    k2 = k2
    k3 = k3
    Turns <- MCTurns
    ChatTurns = {t1, t2, t3}
    Agents = {ag1, ag2}
    AgentOf <- MCAgentOf
    AgentBudget = 2
    TenantBudget = 3
    RateLimit = 1
    MaxCalls = 2
    MaxWindows = 3
    MaxMonths = 1
    MaxFaults = 1
    Links = {l1, l2, l3}
    TenantOf <- MCTenantOf
    Chats = {c1, c2}
    Asks = {k1, k2, k3}
    Keep = 8
    MaxRounds = 2
    MaxCalled = 2
SPECIFICATION CloudSpec
SYMMETRY Symmetry
INVARIANTS
    OvershootIsBounded
    EveryCallIsBilled
    WindowsHold
    AnswersHold
    RefusalsEnd
CHECK_DEADLOCK FALSE
