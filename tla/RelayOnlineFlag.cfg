\* The online flag of a machine whose agent reconnects.
SPECIFICATION FairSpec
CONSTANTS
    m1 = m1
    m2 = m2
    u1 = u1
    u2 = u2
    a1 = a1
    a2 = a2
    a3 = a3
    c1 = c1
    c2 = c2
    s1 = s1
    s2 = s2
    None = None
    Machines <- OneMachine
    Users <- OneUser
    AgentMachine <- AgentsOfOne
    ClientUser <- ClientsOfOne
    SessionUser <- SessionsByOne
    SessionMachine <- SessionsOnOne
    AgentSockets = {a1, a2}
    ClientSockets = {c1}
    Sessions = {s1}
    RawClients = {}
    ChannelSize = 2
    MaxFaults = 0
PROPERTIES
    OnlineFlagConverges
