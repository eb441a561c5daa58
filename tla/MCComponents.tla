----------------------------- MODULE MCComponents -----------------------------
(* Instances of the components that have a module of their own: one behaviour *)
(* is a behaviour of one of them, chosen in the initial state, while the      *)
(* others stay as they begin. Their fairness is theirs while they run.        *)
EXTENDS RedisPresence, SessionRoute, MachineTokens, Organizations, Billing, SignInGate,
        WindowsService, AgentSession, VideoEncoder, AudioPipeline, MediaBytes, InputPath,
        ClientVideo, ClientPlayback, TLC

CONSTANTS iA, iB, s1, s2, s3

VARIABLE component

-----------------------------------------------------------------------------
(* Values of the constants.                                                  *)

SocketsAt == s1 :> iA @@ s2 :> iA @@ s3 :> iB
ClientSocketsAt == s1 :> iA @@ s2 :> iB
DeliveryAges == {-301, -300, 300, 301}
Formats == {[tag |-> "float", bits |-> 32, rate |-> 3, channels |-> 2],
            [tag |-> "pcm", bits |-> 16, rate |-> 6, channels |-> 1],
            [tag |-> "float", bits |-> 64, rate |-> 4, channels |-> 2]}
Outputs == {[rate |-> 3, channels |-> 2], [rate |-> 5, channels |-> 1], [rate |-> 1, channels |-> 3]}
DecodedSizes == {-1, 0, 1, 3}
FrameShapes == {<<"slice">>, <<"params A", "fragment", "last fragment">>, <<"params B", "slice">>}
Origins == {-3, 0, 2}

-----------------------------------------------------------------------------
Components == {"presence", "route", "tokens", "organization", "billing", "gate", "service",
               "agent", "encoder", "audio", "bytes", "input", "video", "playback"}

(* What has several initial states has one of them when it does not run.     *)
Runs(name) == component = name
Either(name, chosen, value) == Runs(name) \/ chosen = value

MCInit ==
    /\ component \in Components
    /\ PresenceInit /\ Either("presence", ttl, CHOOSE t \in Ttls : TRUE)
    /\ RouteInit /\ TokensInit /\ BillingInit /\ GateInit
    /\ \E fromProvider \in BOOLEAN :
          Either("organization", fromProvider, FALSE) /\ OrganizationsInit(fromProvider)
    /\ \E inForeground \in BOOLEAN : Either("service", inForeground, FALSE) /\ ServiceInit(inForeground)
    /\ AgentInit
    /\ \E useNvenc \in BOOLEAN : Either("encoder", useNvenc, FALSE) /\ EncoderInit(useNvenc)
    /\ AudioInit /\ Either("audio", probed, CHOOSE f \in DeviceFormats : TRUE)
    /\ MediaInit /\ InputInit
    /\ \E windows \in BOOLEAN : Either("video", windows, FALSE) /\ VideoInit(windows)
    /\ \E d \in OutputDevices : Either("playback", d, CHOOSE o \in OutputDevices : TRUE) /\ PlaybackInit(d)

MCNext ==
    \/ /\ Runs("presence") /\ PresenceNext
       /\ UNCHANGED <<component, routeVars, tokenVars, orgVars, billingVars, gateVars, serviceVars, agentVars,
                      encoderVars, audioVars, mediaVars, inputVars, videoVars, playbackVars>>
    \/ /\ Runs("route") /\ RouteNext
       /\ UNCHANGED <<component, presenceVars, tokenVars, orgVars, billingVars, gateVars, serviceVars, agentVars,
                      encoderVars, audioVars, mediaVars, inputVars, videoVars, playbackVars>>
    \/ /\ Runs("tokens") /\ TokensNext
       /\ UNCHANGED <<component, presenceVars, routeVars, orgVars, billingVars, gateVars, serviceVars, agentVars,
                      encoderVars, audioVars, mediaVars, inputVars, videoVars, playbackVars>>
    \/ /\ Runs("organization") /\ OrganizationsNext
       /\ UNCHANGED <<component, presenceVars, routeVars, tokenVars, billingVars, gateVars, serviceVars, agentVars,
                      encoderVars, audioVars, mediaVars, inputVars, videoVars, playbackVars>>
    \/ /\ Runs("billing") /\ BillingNext
       /\ UNCHANGED <<component, presenceVars, routeVars, tokenVars, orgVars, gateVars, serviceVars, agentVars,
                      encoderVars, audioVars, mediaVars, inputVars, videoVars, playbackVars>>
    \/ /\ Runs("gate") /\ GateNext
       /\ UNCHANGED <<component, presenceVars, routeVars, tokenVars, orgVars, billingVars, serviceVars, agentVars,
                      encoderVars, audioVars, mediaVars, inputVars, videoVars, playbackVars>>
    \/ /\ Runs("service") /\ ServiceNext
       /\ UNCHANGED <<component, presenceVars, routeVars, tokenVars, orgVars, billingVars, gateVars, agentVars,
                      encoderVars, audioVars, mediaVars, inputVars, videoVars, playbackVars>>
    \/ /\ Runs("agent") /\ AgentNext
       /\ UNCHANGED <<component, presenceVars, routeVars, tokenVars, orgVars, billingVars, gateVars, serviceVars,
                      encoderVars, audioVars, mediaVars, inputVars, videoVars, playbackVars>>
    \/ /\ Runs("encoder") /\ EncoderNext
       /\ UNCHANGED <<component, presenceVars, routeVars, tokenVars, orgVars, billingVars, gateVars, serviceVars,
                      agentVars, audioVars, mediaVars, inputVars, videoVars, playbackVars>>
    \/ /\ Runs("audio") /\ AudioNext
       /\ UNCHANGED <<component, presenceVars, routeVars, tokenVars, orgVars, billingVars, gateVars, serviceVars,
                      agentVars, encoderVars, mediaVars, inputVars, videoVars, playbackVars>>
    \/ /\ Runs("bytes") /\ MediaNext
       /\ UNCHANGED <<component, presenceVars, routeVars, tokenVars, orgVars, billingVars, gateVars, serviceVars,
                      agentVars, encoderVars, audioVars, inputVars, videoVars, playbackVars>>
    \/ /\ Runs("input") /\ InputNext
       /\ UNCHANGED <<component, presenceVars, routeVars, tokenVars, orgVars, billingVars, gateVars, serviceVars,
                      agentVars, encoderVars, audioVars, mediaVars, videoVars, playbackVars>>
    \/ /\ Runs("video") /\ VideoNext
       /\ UNCHANGED <<component, presenceVars, routeVars, tokenVars, orgVars, billingVars, gateVars, serviceVars,
                      agentVars, encoderVars, audioVars, mediaVars, inputVars, playbackVars>>
    \/ /\ Runs("playback") /\ PlaybackNext
       /\ UNCHANGED <<component, presenceVars, routeVars, tokenVars, orgVars, billingVars, gateVars, serviceVars,
                      agentVars, encoderVars, audioVars, mediaVars, inputVars, videoVars>>

mcVars == <<component, presenceVars, routeVars, tokenVars, orgVars, billingVars, gateVars, serviceVars,
            agentVars, encoderVars, audioVars, mediaVars, inputVars, videoVars, playbackVars>>

(* Each module's specification, of the component that runs.                  *)
MCSpec ==
    /\ MCInit /\ [][MCNext]_mcVars
    /\ WF_presenceVars(Runs("presence") /\ Tick)
    /\ \A s \in PSockets :
          /\ WF_presenceVars(Runs("presence") /\ SetAgentOnline(s))
          /\ WF_presenceVars(Runs("presence") /\ dueIn[s] = 0 /\ RefreshAgent(s))
          /\ WF_presenceVars(Runs("presence") /\ ~Holds(s) /\ PresenceLeave(s))
          /\ WF_presenceVars(Runs("presence") /\ PresenceUnregister(s))
    /\ WF_serviceVars(Runs("service") /\ ConnectController)
    /\ WF_serviceVars(Runs("service") /\ FirstScan)
    /\ WF_serviceVars(Runs("service") /\ ScanTick)
    /\ WF_serviceVars(Runs("service") /\ (HandleSessionChange \/ StopController))
    /\ WF_serviceVars(Runs("service") /\ ReportStopped)
    /\ WF_encoderVars(Runs("encoder") /\ (StoreBitrate \/ SetBackendBitrate \/ TakeKeyframeRequest
                                            \/ ForceKeyframe \/ PendKeyframe))
    /\ WF_encoderVars(Runs("encoder") /\ (TakeForce \/ LoadBitrate \/ EncodeFrame))
    /\ WF_encoderVars(Runs("encoder") /\ WriteSample)
    /\ WF_agentVars(Runs("agent") /\ Connect)
    /\ WF_agentVars(Runs("agent") /\ TakeRequest)
    /\ WF_agentVars(Runs("agent") /\ readerAt = "ended" /\ requests = <<>> /\ MainReturns)
    /\ WF_agentVars(Runs("agent") /\ ProcessEnds)
    /\ \A r \in 1 .. MaxRequests :
          /\ WF_agentVars(Runs("agent") /\ r \in DOMAIN runs /\ CaptureThread(r))
          /\ WF_agentVars(Runs("agent") /\ r \in DOMAIN runs /\ TakeFrame(r))

-----------------------------------------------------------------------------
(* The variables of the component that runs have the types its module gives  *)
(* them: no counter, queue or buffer of the code leaves its bounds.          *)
ComponentsTypeOK ==
    CASE Runs("presence") -> PresenceTypeOK
      [] Runs("route") -> RouteTypeOK
      [] Runs("tokens") -> TokensTypeOK
      [] Runs("organization") -> OrganizationsTypeOK
      [] Runs("billing") -> BillingTypeOK
      [] Runs("gate") -> GateTypeOK
      [] Runs("service") -> ServiceTypeOK
      [] Runs("agent") -> AgentTypeOK
      [] Runs("encoder") -> EncoderTypeOK
      [] Runs("audio") -> AudioTypeOK
      [] Runs("bytes") -> MediaTypeOK
      [] Runs("input") -> InputTypeOK
      [] Runs("video") -> VideoTypeOK
      [] Runs("playback") -> PlaybackTypeOK
=============================================================================
