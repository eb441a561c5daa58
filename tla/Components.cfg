SPECIFICATION MCSpec
CONSTANTS
    iA = iA
    iB = iB
    s1 = s1
    s2 = s2
    s3 = s3
    \* RedisPresence
    Instances = {iA, iB}
    NoInstance = NoInstance
    PSockets = {s1, s2, s3}
    InstanceOf <- SocketsAt
    Ttls = {1, 3}
    MinRefresh = 1
    MaxRedisFaults = 1
    \* SessionRoute
    RouteInstances = {iA, iB}
    ConnectsAt = iA
    ClientsAt <- ClientSocketsAt
    MaxRouteFaults = 1
    \* MachineTokens
    Registration = registration
    Rotations = {r1, r2}
    NoToken = NoToken
    MaxDbFaults = 1
    \* Organizations
    Users = {"u", "v"}
    MixedCase = {"v"}
    ProviderRoles = {"admin"}
    MaxInvitations = 2
    MaxSignIns = 2
    MaxOrgFaults = 1
    \* Billing
    Ages <- DeliveryAges
    Tolerance = 300
    MaxSubscriptions = 2
    MaxDeliveries = 3
    MaxMembers = 1
    \* SignInGate
    Addresses = {"a"}
    UserAgents = {}
    MaxAttempts = 2
    Window = 2
    StateTtl = 1
    Leeway = 0
    \* WindowsService
    Desktops = {d1, d2}
    MaxChanges = 3
    MaxChildExits = 1
    MaxSvcFaults = 2
    MaxStarts = 2
    MaxArgument = 3
    \* AgentSession
    RequestIds = {x}
    RequireVideo = TRUE
    FrameCapacity = 1
    MaxRequests = 2
    MaxAgentFaults = 2
    \* VideoEncoder
    Bitrates = {1, 2}
    FirstBitrate = 1
    EncodedCapacity = 1
    MaxControls = 2
    MaxEncFaults = 1
    \* AudioPipeline
    DeviceFormats <- Formats
    OpusRate = 4
    OpusFrame = 3
    PcmCapacity = 2
    PacketFrames = {0, 1, 2, 5}
    MaxHeard = 8
    \* MediaBytes
    Bytes = {0, 1, 3}
    Headers = {1, 5, 39}
    MaxPayload = 3
    MaxNals = 2
    LengthBase = 4
    MaxSide = 4
    MaxPadding = 2
    \* InputPath
    Positions = {p}
    Usages = {4}
    MaxPerFrame = 2
    MaxEvents = 3
    DesktopSpans = {2, 3, 1920}
    DesktopOrigins <- Origins
    \* ClientVideo
    Shapes <- FrameShapes
    MaxFrames = 3
    MaxNetFaults = 1
    MaxDecFaults = 1
    \* ClientPlayback
    OutputDevices <- Outputs
    InputRate = 4
    InputChannels = 2
    DecodedFrames <- DecodedSizes
    QueueSeconds = 1
    CallbackFrames = {1, 2}
    MaxAudioPackets = 3
INVARIANTS
    ComponentsTypeOK
    RouteEndsWithClient
    TokensRotate
    OwnersComeFromOwners
    PlanFollowsSubscription
    BurstBounded
    AgentsAnswerToController
    AgentArgumentsSurvive
    AudioKeepsPace
    KeyRequestCarried
    SamplesSurvive
    PixelsInPlace
    InputOrder
    UnitsWhole
    ChannelsStayInPlace
PROPERTIES
    PresenceFollowsSocket
    DesktopKeepsAgent
    AgentProcessExits
    ControlsTakeEffect
CHECK_DEADLOCK FALSE
