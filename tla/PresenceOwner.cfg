\* The presence entry of an agent that reconnects to the same process.
SPECIFICATION PresenceSpec
CONSTANTS
    i1 = i1
    p1 = p1
    p2 = p2
    Instances <- OneInstance
    NoInstance = NoInstance
    PSockets <- OldAndNew
    InstanceOf <- ServedByOne
    Ttls = {3}
    MinRefresh = 1
    MaxRedisFaults = 0
PROPERTIES
    LiveAgentIsSeen
