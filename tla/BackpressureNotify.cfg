\* One message more than the channel holds.
CONSTANTS
    m1 = m1 a1 = a1 a2 = a2 c1 = c1 c2 = c2 r1 = r1 None = None
    Machines <- OneMachine
    AgentSockets <- OneAgent
    ClientSockets <- TwoClients
    Requests <- OneRequest
    AgentMachine <- AgentsOn
    ClientMachine <- ClientsOn
    RequestMachine <- RequestsOn
    ChannelSize = 1
    MaxMessages = 2
SPECIFICATION FairSpec
PROPERTIES NotifyReturns
CHECK_DEADLOCK FALSE
