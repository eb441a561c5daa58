\* Two machines and two users, one of them with a client that also sends
\* SignalingOffers and repeats itself: its queues fill up, and then the relay
\* really may stop.
SPECIFICATION Spec
CONSTANTS
    m1 = m1
    m2 = m2
    u1 = u1
    u2 = u2
    a1 = a1
    a2 = a2
    a3 = a3
    c1 = c1
    c2 = c2
    s1 = s1
    s2 = s2
    None = None
    Machines = {m1, m2}
    Users = {u1, u2}
    AgentMachine <- AgentsOfTwo
    ClientUser <- ClientsOfTwo
    SessionUser <- SessionsByTwo
    SessionMachine <- SessionsOnTwo
    AgentSockets = {a1, a2}
    ClientSockets = {c1, c2}
    Sessions = {s1, s2}
    RawClients = {c2}
    ChannelSize = 1
    MaxFaults = 0
INVARIANTS
    RelayedToParties
CHECK_DEADLOCK FALSE
