\* Two agent sockets, a client and a connect request; up to five messages and
\* channels of one, so that channels fill up in both directions.
CONSTANTS
    m1 = m1 a1 = a1 a2 = a2 c1 = c1 c2 = c2 r1 = r1 None = None
    Machines <- OneMachine
    AgentSockets <- TwoAgents
    ClientSockets <- OneClient
    Requests <- OneRequest
    AgentMachine <- AgentsOn
    ClientMachine <- ClientsOn
    RequestMachine <- RequestsOn
    ChannelSize = 1
    MaxMessages = 5
SPECIFICATION FairSpec
INVARIANTS SendsToOpenChannel StallNeedsFullChannel
PROPERTIES CallsReturn
\* The relay may stop, and every socket may be gone at the end.
CHECK_DEADLOCK FALSE
