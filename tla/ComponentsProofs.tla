-------------------------- MODULE ComponentsProofs ---------------------------
(* Theorems about MCComponents, for every value of the modules' constants: a  *)
(* behaviour of it is one of every module, so that what is proved of a module *)
(* holds of MCComponents, and each module keeps its types in it.              *)
EXTENDS MCComponents, ServerProofs, WindowsAgentProofs, MediaProofs

(* Every module begins as it says, whichever component runs.                  *)
LEMMA EachBegins ==
    MCInit => /\ PresenceInit
              /\ RouteInit
              /\ TokensInit
              /\ \E fromProvider \in BOOLEAN : OrganizationsInit(fromProvider)
              /\ BillingInit
              /\ GateInit
              /\ \E inForeground \in BOOLEAN : ServiceInit(inForeground)
              /\ AgentInit
              /\ \E useNvenc \in BOOLEAN : EncoderInit(useNvenc)
              /\ AudioInit
              /\ MediaInit
              /\ InputInit
              /\ \E windows \in BOOLEAN : VideoInit(windows)
              /\ \E d \in OutputDevices : PlaybackInit(d)
BY Zenon DEF MCInit

(* A step of the component that runs is a step of its module, and none of the *)
(* others'.                                                                   *)
LEMMA EachSteps ==
    [MCNext]_mcVars => /\ [PresenceNext]_presenceVars
                       /\ [RouteNext]_routeVars
                       /\ [TokensNext]_tokenVars
                       /\ [OrganizationsNext]_orgVars
                       /\ [BillingNext]_billingVars
                       /\ [GateNext]_gateVars
                       /\ [ServiceNext]_serviceVars
                       /\ [AgentNext]_agentVars
                       /\ [EncoderNext]_encoderVars
                       /\ [AudioNext]_audioVars
                       /\ [MediaNext]_mediaVars
                       /\ [InputNext]_inputVars
                       /\ [VideoNext]_videoVars
                       /\ [PlaybackNext]_playbackVars
<1>1. [MCNext]_mcVars => [PresenceNext]_presenceVars
  BY Zenon DEF MCNext, mcVars
<1>2. [MCNext]_mcVars => [RouteNext]_routeVars
  BY Zenon DEF MCNext, mcVars
<1>3. [MCNext]_mcVars => [TokensNext]_tokenVars
  BY Zenon DEF MCNext, mcVars
<1>4. [MCNext]_mcVars => [OrganizationsNext]_orgVars
  BY Zenon DEF MCNext, mcVars
<1>5. [MCNext]_mcVars => [BillingNext]_billingVars
  BY Zenon DEF MCNext, mcVars
<1>6. [MCNext]_mcVars => [GateNext]_gateVars
  BY Zenon DEF MCNext, mcVars
<1>7. [MCNext]_mcVars => [ServiceNext]_serviceVars
  BY Zenon DEF MCNext, mcVars
<1>8. [MCNext]_mcVars => [AgentNext]_agentVars
  BY Zenon DEF MCNext, mcVars
<1>9. [MCNext]_mcVars => [EncoderNext]_encoderVars
  BY Zenon DEF MCNext, mcVars
<1>10. [MCNext]_mcVars => [AudioNext]_audioVars
  BY Zenon DEF MCNext, mcVars
<1>11. [MCNext]_mcVars => [MediaNext]_mediaVars
  BY Zenon DEF MCNext, mcVars
<1>12. [MCNext]_mcVars => [InputNext]_inputVars
  BY Zenon DEF MCNext, mcVars
<1>13. [MCNext]_mcVars => [VideoNext]_videoVars
  BY Zenon DEF MCNext, mcVars
<1>14. [MCNext]_mcVars => [PlaybackNext]_playbackVars
  BY Zenon DEF MCNext, mcVars
<1> QED BY <1>1, <1>2, <1>3, <1>4, <1>5, <1>6, <1>7, <1>8, <1>9, <1>10, <1>11, <1>12, <1>13, <1>14

(* A behaviour of MCComponents is one of every module, to the fairness: to    *)
(* choose which of them runs adds no state and no step to any.                *)
THEOREM EachBehaves ==
    MCSpec => /\ RouteSpec
              /\ TokensSpec
              /\ OrganizationsSpec
              /\ BillingSpec
              /\ GateSpec
              /\ AudioSpec
              /\ MediaSpec
              /\ InputSpec
              /\ VideoSpec
              /\ PlaybackSpec
              /\ PresenceInit /\ [][PresenceNext]_presenceVars
              /\ (\E inForeground \in BOOLEAN : ServiceInit(inForeground)) /\ [][ServiceNext]_serviceVars
              /\ AgentInit /\ [][AgentNext]_agentVars
              /\ (\E useNvenc \in BOOLEAN : EncoderInit(useNvenc)) /\ [][EncoderNext]_encoderVars
BY EachBegins, EachSteps, PTL DEF MCSpec, RouteSpec,
   TokensSpec,
   OrganizationsSpec,
   BillingSpec,
   GateSpec,
   AudioSpec,
   MediaSpec,
   InputSpec,
   VideoSpec,
   PlaybackSpec

(* The types that the modules give their variables.                           *)
AllTypes ==
    /\ PresenceTypeOK
    /\ RouteTypeOK
    /\ TokensTypeOK
    /\ OrganizationsTypeOK
    /\ BillingTypeOK
    /\ GateTypeOK
    /\ ServiceTypeOK
    /\ AgentTypeOK
    /\ EncoderTypeOK
    /\ AudioTypeOK
    /\ MediaTypeOK
    /\ InputTypeOK
    /\ VideoTypeOK
    /\ PlaybackTypeOK

(* ComponentsTypeOK holds of every state: no counter, queue or buffer of the  *)
(* code leaves its bounds, whichever component runs.                          *)
THEOREM ComponentsTyped == MCSpec => []ComponentsTypeOK
<1>1. MCSpec => []PresenceTypeOK
  BY EachBehaves, PresenceTypeInit, PresenceTypeKept, PTL
<1>2. MCSpec => []ServiceTypeOK
  <2>1. (\E inForeground \in BOOLEAN : ServiceInit(inForeground)) => ServiceTypeOK /\ Answering
    BY ServiceBegins
  <2> QED BY <2>1, EachBehaves, ServiceKept, PTL
<1>3. MCSpec => []AgentTypeOK
  BY EachBehaves, AgentBegins, AgentTypeIs, AgentKept, PTL
<1>4. MCSpec => []EncoderTypeOK
  <2>1. EncoderInv => EncoderTypeOK
    BY DEF EncoderInv
  <2> QED BY <2>1, EachBehaves, EncoderInvInit, EncoderInvKept, PTL
<1>5. MCSpec => [](component \in Components)
  <2>1. MCInit => component \in Components
    BY DEF MCInit
  <2>2. component \in Components /\ [MCNext]_mcVars => (component \in Components)'
    BY Zenon DEF MCNext, mcVars
  <2> QED BY <2>1, <2>2, PTL DEF MCSpec
<1>6. AllTypes /\ component \in Components => ComponentsTypeOK
  BY DEF AllTypes, ComponentsTypeOK, Components, Runs
<1>7. MCSpec => []AllTypes
  BY <1>1, <1>2, <1>3, <1>4, EachBehaves, RouteTyped, TokensTyped, OrganizationsTyped, BillingTyped,
     GateTyped, AudioTyped, MediaTyped, InputTyped, VideoTyped, PlaybackTyped, PTL
     DEF AllTypes
<1> QED BY <1>5, <1>6, <1>7, PTL
==============================================================================
