------------------------- MODULE SignalingRelayProofs -------------------------
(* Theorems about SignalingRelay, for any number of machines, sockets and   *)
(* sessions and any bound on faults.                                        *)
EXTENDS RelayRefinement, TLAPS

\* Every variable keeps its type.
THEOREM TypeCorrect == Spec => []TypeOK
<1> USE RelayAssumption
<1>1. Init => TypeOK
  BY DEF Init, TypeOK, TypeDb, TypeMaps, TypeAgents, TypeClients, Status,
              HandlersHaveASession,
         AgentState, ClientState
<1>2. TypeOK /\ [Next]_vars => TypeOK'
  <2> SUFFICES ASSUME TypeOK, [Next]_vars
               PROVE  TypeOK'
    OBVIOUS
  <2> USE DEF TypeOK, TypeDb, TypeMaps, TypeAgents, TypeClients, Status,
              HandlersHaveASession,
              AgentState, ClientState, dbVars, mapVars, agentVars, clientVars,
              Statement
  <2>1. ASSUME NEW a \in AgentSockets, AgentTask(a)
        PROVE  TypeOK'
    <3> USE DEF AStep, AReturn
    <3>1. CASE AgentMarkOnline(a)
      <4>1. TypeDb' /\ faults' \in 0..MaxFaults
        BY <3>1 DEF AgentMarkOnline
      <4>2. TypeMaps'
        BY <3>1 DEF AgentMarkOnline
      <4>3. TypeAgents'
        BY <3>1 DEF AgentMarkOnline
      <4>4. TypeClients'
        BY <3>1 DEF AgentMarkOnline
      <4>5. HandlersHaveASession'
        BY <3>1 DEF AgentMarkOnline
      <4> QED
        BY <4>1, <4>2, <4>3, <4>4, <4>5 DEF TypeOK
    <3>2. CASE AgentRegister(a)
      BY <3>2 DEF AgentRegister
    <3>3. CASE AgentForward(a)
      BY <3>3 DEF AgentForward
    <3>4. CASE AgentSuperseded(a)
      BY <3>4 DEF AgentSuperseded
    <3>5. CASE AgentRelayAnswer(a)
      <4>1. TypeDb' /\ faults' \in 0..MaxFaults
        BY <3>5 DEF AgentRelayAnswer
      <4>2. TypeMaps'
        BY <3>5 DEF AgentRelayAnswer
      <4>3. TypeAgents'
        BY <3>5 DEF AgentRelayAnswer
      <4>4. TypeClients'
        <5> DEFINE s == aCur[a]
        <5>1. /\ s \in Sessions
              /\ UNCHANGED <<cState, cCur, owned, got>>
          BY <3>5 DEF AgentRelayAnswer
        <5>2. CASE clients[s] = None
          BY <3>5, <5>1, <5>2 DEF AgentRelayAnswer
        <5>3. CASE clients[s] # None
          <6>1. toClient' = [toClient EXCEPT ![clients[s]] = Append(@, s)]
            BY <3>5, <5>3 DEF AgentRelayAnswer
          <6>2. clients[s] \in ClientSockets
            BY <5>1, <5>3
          <6> QED
            BY <5>1, <6>1, <6>2
        <5> QED
          BY <5>2, <5>3
      <4>5. HandlersHaveASession'
        BY <3>5 DEF AgentRelayAnswer
      <4> QED
        BY <4>1, <4>2, <4>3, <4>4, <4>5 DEF TypeOK
    <3>6. CASE AgentUnregister(a)
      <4>1. TypeDb' /\ faults' \in 0..MaxFaults
        BY <3>6 DEF AgentUnregister
      <4>2. TypeMaps'
        BY <3>6 DEF AgentUnregister
      <4>3. TypeAgents'
        <5>1. CASE IsCurrent(a)
          BY <3>6, <5>1 DEF AgentUnregister
        <5>2. CASE ~IsCurrent(a)
          <6>1. AReturn(a) /\ UNCHANGED <<aCur, atAgent>>
            BY <3>6, <5>2 DEF AgentUnregister
          <6> QED
            BY <6>1
        <5> QED
          BY <5>1, <5>2
      <4>4. TypeClients'
        BY <3>6 DEF AgentUnregister
      <4>5. HandlersHaveASession'
        BY <3>6 DEF AgentUnregister
      <4> QED
        BY <4>1, <4>2, <4>3, <4>4, <4>5 DEF TypeOK
    <3>7. CASE AgentMarkOffline(a)
      <4>1. TypeDb' /\ faults' \in 0..MaxFaults
        BY <3>7 DEF AgentMarkOffline
      <4>2. TypeMaps'
        BY <3>7 DEF AgentMarkOffline
      <4>3. TypeAgents'
        BY <3>7 DEF AgentMarkOffline
      <4>4. TypeClients'
        BY <3>7 DEF AgentMarkOffline
      <4>5. HandlersHaveASession'
        BY <3>7 DEF AgentMarkOffline
      <4> QED
        BY <4>1, <4>2, <4>3, <4>4, <4>5 DEF TypeOK
    <3>8. CASE AgentEndSessions(a)
      BY <3>8 DEF AgentEndSessions, MarkEnded
    <3> QED
      BY <2>1, <3>1, <3>2, <3>3, <3>4, <3>5, <3>6, <3>7, <3>8 DEF AgentTask
  <2>2. ASSUME NEW c \in ClientSockets, ClientTask(c)
        PROVE  TypeOK'
    <3> USE DEF CStep, CReturnIfLast
    <3>1. CASE ClientRegister(c)
      <4>1. TypeDb' /\ faults' \in 0..MaxFaults
        BY <3>1 DEF ClientRegister
      <4>2. TypeMaps'
        BY <3>1 DEF ClientRegister
      <4>3. TypeAgents'
        BY <3>1 DEF ClientRegister
      <4>4. TypeClients'
        <5>1. /\ cCur[c] \in Sessions
              /\ owned' = [owned EXCEPT ![c] = @ \cup {cCur[c]}]
              /\ UNCHANGED <<toClient, got>>
          BY <3>1 DEF ClientRegister
        <5>2. cState' \in [ClientSockets -> ClientState]
          <6>1. \E w \in {"notifying", "running"} :
                   cState' = [cState EXCEPT ![c] = w]
            BY <3>1 DEF ClientRegister
          <6> QED
            BY <6>1
        <5>3. cCur' \in [ClientSockets -> Sessions \cup {None}]
          BY <3>1 DEF ClientRegister
        <5> QED
          BY <5>1, <5>2, <5>3
      <4>5. HandlersHaveASession'
        BY <3>1 DEF ClientRegister
      <4> QED
        BY <4>1, <4>2, <4>3, <4>4, <4>5 DEF TypeOK
    <3>2. CASE ClientNotify(c)
      <4>1. TypeDb' /\ faults' \in 0..MaxFaults
        BY <3>2 DEF ClientNotify
      <4>2. TypeMaps'
        BY <3>2 DEF ClientNotify
      <4>3. TypeAgents'
        <5> DEFINE s == cCur[c]
                   a == agents[SessionMachine[s]]
        <5>1. /\ s \in Sessions
              /\ UNCHANGED <<aState, connId, aCur, atAgent>>
          BY <3>2 DEF ClientNotify
        <5>2. CASE a = None
          BY <3>2, <5>1, <5>2 DEF ClientNotify
        <5>3. CASE a # None
          <6>1. toAgent' = [toAgent EXCEPT ![a] = Append(@, s)]
            BY <3>2, <5>3 DEF ClientNotify
          <6>2. a \in AgentSockets
            BY <5>1, <5>3
          <6> QED
            BY <5>1, <6>1, <6>2
        <5> QED
          BY <5>2, <5>3
      <4>4. TypeClients'
        BY <3>2 DEF ClientNotify
      <4>5. HandlersHaveASession'
        BY <3>2 DEF ClientNotify
      <4> QED
        BY <4>1, <4>2, <4>3, <4>4, <4>5 DEF TypeOK
    <3>3. CASE ClientForward(c)
      BY <3>3 DEF ClientForward
    <3>4. CASE ClientUnregister(c)
      BY <3>4 DEF ClientUnregister
    <3>5. ASSUME NEW s \in Sessions, ClientEndSession(c, s)
          PROVE  TypeOK'
      BY <3>5 DEF ClientEndSession, MarkEnded
    <3> QED
      BY <2>2, <3>1, <3>2, <3>3, <3>4, <3>5 DEF ClientTask
  <2>3. ASSUME NEW s \in Sessions, ConnectInsert(s)
        PROVE  TypeOK'
    <3>1. TypeDb'
      BY <2>3 DEF ConnectInsert
    <3>2. faults' \in 0..MaxFaults /\ TypeMaps'
      BY <2>3 DEF ConnectInsert
    <3>3. TypeAgents' /\ TypeClients' /\ HandlersHaveASession'
      BY <2>3 DEF ConnectInsert
    <3> QED
      BY <3>1, <3>2, <3>3 DEF TypeOK
  <2>4. CASE Environment
    <3> USE DEF AStep, CStep
    <3>1. ASSUME NEW a \in AgentSockets,
                 AgentConnect(a) \/ AgentDisconnect(a)
          PROVE  TypeOK'
      BY <3>1 DEF AgentConnect, AgentDisconnect
    <3>2. ASSUME NEW a \in AgentSockets, NEW s \in Sessions, AgentAnswer(a, s)
          PROVE  TypeOK'
      <4>1. faults' \in 0..MaxFaults /\ TypeMaps' /\ TypeClients'
        BY <3>2 DEF AgentAnswer
      <4>2. CASE /\ MarkActive(s) \/ UNCHANGED status
                 /\ UNCHANGED <<aState, aCur>>
        <5>1. TypeDb'
          BY <3>2, <4>2 DEF AgentAnswer, MarkActive
        <5>2. TypeAgents'
          BY <3>2, <4>2 DEF AgentAnswer
        <5>3. HandlersHaveASession'
          BY <3>2, <4>2 DEF AgentAnswer
        <5> QED
          BY <4>1, <5>1, <5>2, <5>3 DEF TypeOK
      <4>3. CASE /\ MarkActive(s)
                 /\ aState' = [aState EXCEPT ![a] = "answering"]
                 /\ aCur' = [aCur EXCEPT ![a] = s]
        <5>1. TypeDb'
          BY <3>2, <4>3 DEF AgentAnswer, MarkActive
        <5>2. TypeAgents'
          BY <3>2, <4>3 DEF AgentAnswer
        <5>3. HandlersHaveASession'
          BY <3>2, <4>3 DEF AgentAnswer
        <5> QED
          BY <4>1, <5>1, <5>2, <5>3 DEF TypeOK
      <4> QED
        BY <3>2, <4>2, <4>3 DEF AgentAnswer
    <3>3. ASSUME NEW c \in ClientSockets, ClientConnect(c)
          PROVE  TypeOK'
      BY <3>3 DEF ClientConnect
    <3>4. ASSUME NEW c \in ClientSockets, ClientDisconnect(c)
          PROVE  TypeOK'
      BY <3>4 DEF ClientDisconnect
    <3>5. ASSUME NEW c \in ClientSockets, NEW s \in Sessions,
                 ClientConnectRequest(c, s)
          PROVE  TypeOK'
      BY <3>5 DEF ClientConnectRequest
    <3>6. ASSUME NEW c \in ClientSockets, NEW s \in Sessions,
                 ClientSignalingOffer(c, s)
          PROVE  TypeOK'
      BY <3>6 DEF ClientSignalingOffer
    <3>7. ASSUME NEW s \in Sessions, ConnectCheck(s)
          PROVE  TypeOK'
      BY <3>7 DEF ConnectCheck
    <3> QED
      BY <2>4, <3>1, <3>2, <3>3, <3>4, <3>5, <3>6, <3>7 DEF Environment
  <2>5. CASE ServerCrash
    <3>1. TypeDb' /\ faults' \in 0..MaxFaults
      BY <2>5 DEF ServerCrash
    <3>2. TypeMaps'
      BY <2>5 DEF ServerCrash
    <3>3. TypeAgents'
      BY <2>5 DEF ServerCrash
    <3>4. TypeClients'
      BY <2>5 DEF ServerCrash
    <3>5. HandlersHaveASession'
      BY <2>5 DEF ServerCrash, AgentLive, ClientLive
    <3> QED
      BY <3>1, <3>2, <3>3, <3>4, <3>5 DEF TypeOK
  <2>6. CASE UNCHANGED vars
    BY <2>6 DEF vars
  <2> QED
    BY <2>1, <2>2, <2>3, <2>4, <2>5, <2>6 DEF Next, Finished
<1> QED
  BY <1>1, <1>2, PTL DEF Spec

-----------------------------------------------------------------------------
(* The slots.  The invariant speaks of these variables only.               *)

slotVars == <<agents, aState, connId, nextConnId>>

\* What a step does to them: one of eight agent socket steps moves them, a
\* crash resets them, any other step leaves them alone.
LEMMA SlotSteps ==
  ASSUME TypeOK, [Next]_vars
  PROVE  \/ UNCHANGED slotVars
         \/ ServerCrash
         \/ \E a \in AgentSockets :
               \/ AgentMarkOnline(a) \/ AgentRegister(a) \/ AgentUnregister(a)
               \/ \E q \in {<<"idle", "opening">>, <<"running", "closing">>,
                            <<"running", "answering">>,
                            <<"answering", "running">>,
                            <<"offlining", "ending">>} :
                     /\ AStep(a, q[1], q[2])
                     /\ UNCHANGED <<agents, connId, nextConnId>>
               \/ /\ aState[a] = "ending"
                  /\ AReturn(a)
                  /\ UNCHANGED <<agents, nextConnId>>
<1> USE DEF slotVars, mapVars, agentVars, Statement, AStep
<1>1. ASSUME NEW c \in ClientSockets, ClientTask(c)
      PROVE  UNCHANGED slotVars
  BY <1>1 DEF ClientTask, ClientRegister, ClientNotify, ClientForward,
              ClientUnregister, ClientEndSession
<1>2. ASSUME NEW s \in Sessions, ConnectInsert(s) \/ ConnectCheck(s)
      PROVE  UNCHANGED slotVars
  BY <1>2 DEF ConnectInsert, ConnectCheck
<1>3. ASSUME NEW c \in ClientSockets,
             \/ ClientConnect(c) \/ ClientDisconnect(c)
             \/ \E s \in Sessions : ClientConnectRequest(c, s)
                                    \/ ClientSignalingOffer(c, s)
      PROVE  UNCHANGED slotVars
  BY <1>3 DEF ClientConnect, ClientDisconnect, ClientConnectRequest,
              ClientSignalingOffer
<1>4. ASSUME NEW a \in AgentSockets, AgentForward(a)
      PROVE  UNCHANGED slotVars
  BY <1>4 DEF AgentForward
<1>5. ASSUME NEW a \in AgentSockets, AgentConnect(a)
      PROVE  /\ AStep(a, "idle", "opening")
             /\ UNCHANGED <<agents, connId, nextConnId>>
  BY <1>5 DEF AgentConnect
<1>6. ASSUME NEW a \in AgentSockets, AgentSuperseded(a) \/ AgentDisconnect(a)
      PROVE  /\ AStep(a, "running", "closing")
             /\ UNCHANGED <<agents, connId, nextConnId>>
  BY <1>6 DEF AgentSuperseded, AgentDisconnect
<1>7. ASSUME NEW a \in AgentSockets, NEW s \in Sessions, AgentAnswer(a, s)
      PROVE  \/ UNCHANGED slotVars
             \/ /\ AStep(a, "running", "answering")
                /\ UNCHANGED <<agents, connId, nextConnId>>
  BY <1>7 DEF AgentAnswer
<1>8. ASSUME NEW a \in AgentSockets, AgentRelayAnswer(a)
      PROVE  /\ AStep(a, "answering", "running")
             /\ UNCHANGED <<agents, connId, nextConnId>>
  BY <1>8 DEF AgentRelayAnswer
<1>9. ASSUME NEW a \in AgentSockets, AgentMarkOffline(a)
      PROVE  /\ AStep(a, "offlining", "ending")
             /\ UNCHANGED <<agents, connId, nextConnId>>
  BY <1>9 DEF AgentMarkOffline
<1>10. ASSUME NEW a \in AgentSockets, AgentEndSessions(a)
       PROVE  /\ aState[a] = "ending"
              /\ AReturn(a)
              /\ UNCHANGED <<agents, nextConnId>>
  BY <1>10 DEF AgentEndSessions
<1>11. UNCHANGED vars => UNCHANGED slotVars
  BY DEF vars
<1> QED
  BY <1>1, <1>2, <1>3, <1>4, <1>5, <1>6, <1>7, <1>8, <1>9, <1>10, <1>11
     DEF Next, AgentTask, Environment, Finished

\* Every step keeps what the slots rest on.
LEMMA SlotInvStep == TypeOK /\ SlotInv /\ [Next]_vars => SlotInv'
<1> SUFFICES ASSUME TypeOK, SlotInv, [Next]_vars
             PROVE  SlotInv'
  OBVIOUS
<1> USE RelayAssumption DEF TypeOK, TypeMaps, TypeAgents, SlotInv, SlotIsLive,
        ConnIdsDistinct, ConnIdsIssued, mapVars
<1>1. CASE UNCHANGED slotVars
  BY <1>1 DEF slotVars
<1>2. CASE ServerCrash
  BY <1>2 DEF ServerCrash, AgentLive
<1>3. ASSUME NEW a \in AgentSockets, AgentMarkOnline(a)
      PROVE  SlotInv'
  BY <1>3 DEF AgentMarkOnline, AStep
<1>4. ASSUME NEW a \in AgentSockets, AgentRegister(a)
      PROVE  SlotInv'
  BY <1>4 DEF AgentRegister, AStep
<1>5. ASSUME NEW a \in AgentSockets, AgentUnregister(a)
      PROVE  SlotInv'
  <2>1. aState[a] = "closing" /\ UNCHANGED nextConnId
    BY <1>5 DEF AgentUnregister
  <2>2. CASE IsCurrent(a)
    <3>1. /\ agents' = [agents EXCEPT ![AgentMachine[a]] = None]
          /\ aState' = [aState EXCEPT ![a] = "offlining"]
          /\ UNCHANGED connId
      BY <1>5, <2>2 DEF AgentUnregister
    <3>2. agents[AgentMachine[a]] = a
      <4>1. agents[AgentMachine[a]] \in AgentSockets
        BY <2>2 DEF IsCurrent
      <4>2. connId[a] # 0
        BY <2>1
      <4> QED
        BY <2>2, <4>1, <4>2 DEF IsCurrent
    <3>3. SlotIsLive'
      BY <3>1, <3>2
    <3>4. ConnIdsDistinct' /\ ConnIdsIssued'
      BY <2>1, <3>1
    <3> QED
      BY <3>3, <3>4
  <2>3. CASE ~IsCurrent(a)
    <3>1. AReturn(a) /\ UNCHANGED agents
      BY <1>5, <2>3 DEF AgentUnregister
    <3>2. agents[AgentMachine[a]] # a
      BY <2>3 DEF IsCurrent
    <3>3. SlotIsLive'
      BY <3>1, <3>2 DEF AReturn
    <3>4. ConnIdsDistinct' /\ ConnIdsIssued'
      BY <2>1, <3>1 DEF AReturn
    <3> QED
      BY <3>3, <3>4
  <2> QED
    BY <2>2, <2>3
<1>6. ASSUME NEW a \in AgentSockets,
             NEW q \in {<<"idle", "opening">>, <<"running", "closing">>,
                        <<"running", "answering">>, <<"answering", "running">>,
                        <<"offlining", "ending">>},
             AStep(a, q[1], q[2]),
             UNCHANGED <<agents, connId, nextConnId>>
      PROVE  SlotInv'
  BY <1>6 DEF AStep
<1>7. ASSUME NEW a \in AgentSockets,
             aState[a] = "ending", AReturn(a), UNCHANGED <<agents, nextConnId>>
      PROVE  SlotInv'
  BY <1>7 DEF AReturn
<1> QED
  BY <1>1, <1>2, <1>3, <1>4, <1>5, <1>6, <1>7, SlotSteps

\* The slot of a machine always names a live socket of the machine, and no two
\* tasks share a connection id.
THEOREM SlotsCorrect == Spec => [](SlotIsLive /\ ConnIdsDistinct)
<1>1. Init => SlotInv
  BY RelayAssumption DEF Init, SlotInv, SlotIsLive, ConnIdsDistinct,
                         ConnIdsIssued
<1>2. SlotInv => SlotIsLive /\ ConnIdsDistinct
  BY DEF SlotInv
<1> QED
  BY <1>1, <1>2, SlotInvStep, TypeCorrect, PTL DEF Spec

\* The connection-id guard does what it is for: a socket that registered is not
\* removed from the map by another socket's cleanup.
THEOREM NoEviction == Spec => NotEvictedByTeardown
<1>1. Init => SlotInv
  BY RelayAssumption DEF Init, SlotInv, SlotIsLive, ConnIdsDistinct,
                         ConnIdsIssued
<1>2. TypeOK /\ SlotInv /\ [Next]_vars
        => [\A m \in Machines : agents[m] # None /\ agents'[m] = None =>
              \/ aState[agents[m]] = "closing"
                 /\ aState'[agents[m]] = "offlining"
              \/ faults' > faults]_vars
  <2> SUFFICES ASSUME TypeOK, SlotInv, [Next]_vars,
                      NEW m \in Machines, agents[m] # None, agents'[m] = None
               PROVE  \/ aState[agents[m]] = "closing"
                         /\ aState'[agents[m]] = "offlining"
                      \/ faults' > faults
    OBVIOUS
  <2>1. CASE ServerCrash
    BY <2>1 DEF ServerCrash, TypeOK
  <2>2. ASSUME NEW a \in AgentSockets, AgentUnregister(a)
        PROVE  aState[agents[m]] = "closing" /\ aState'[agents[m]] = "offlining"
    <3>1. IsCurrent(a) /\ m = AgentMachine[a]
      BY <2>2, RelayAssumption DEF AgentUnregister, TypeOK, TypeMaps
    <3>2. agents[m] = a
      BY <3>1 DEF IsCurrent, SlotInv, ConnIdsDistinct, ConnIdsIssued,
                  SlotIsLive, TypeOK, TypeMaps
    <3> QED
      BY <2>2, <3>1, <3>2 DEF AgentUnregister, TypeOK, TypeAgents
  <2>3. CASE agents' = agents
    BY <2>3
  <2>4. ASSUME NEW a \in AgentSockets, AgentRegister(a)
        PROVE  FALSE
    BY <2>4, RelayAssumption DEF AgentRegister, TypeOK, TypeMaps
  <2> QED
    BY <2>1, <2>2, <2>3, <2>4, SlotSteps DEF slotVars, AgentMarkOnline
<1> QED
  BY <1>1, <1>2, SlotInvStep, TypeCorrect, PTL DEF Spec, NotEvictedByTeardown

-----------------------------------------------------------------------------
(* The database and the maps, the sessions and the sockets.                   *)

\* The count of faults never falls.
LEMMA FaultsGrow ==
  ASSUME TypeOK, [Next]_vars
  PROVE  faults' \in Nat /\ faults' >= faults
<1> USE DEF TypeOK, Statement
<1>1. ASSUME NEW a \in AgentSockets, AgentTask(a)
      PROVE  faults' \in Nat /\ faults' >= faults
  BY <1>1, RelayAssumption
     DEF AgentTask, AgentMarkOnline, AgentRegister, AgentForward,
         AgentSuperseded, AgentRelayAnswer, AgentUnregister, AgentMarkOffline,
         AgentEndSessions
<1>2. ASSUME NEW c \in ClientSockets, ClientTask(c)
      PROVE  faults' \in Nat /\ faults' >= faults
  <2>1. CASE ClientRegister(c)
    BY <2>1, RelayAssumption DEF ClientRegister
  <2>2. CASE ClientNotify(c) \/ ClientForward(c) \/ ClientUnregister(c)
    BY <2>2, RelayAssumption DEF ClientNotify, ClientForward, ClientUnregister
  <2>3. ASSUME NEW s \in Sessions, ClientEndSession(c, s)
        PROVE  faults' \in Nat /\ faults' >= faults
    BY <2>3, RelayAssumption DEF ClientEndSession
  <2> QED
    BY <1>2, <2>1, <2>2, <2>3 DEF ClientTask
<1>3. CASE Environment
  BY <1>3, RelayAssumption
     DEF Environment, AgentConnect, AgentDisconnect, AgentAnswer,
         ClientConnect, ClientDisconnect, ClientConnectRequest,
         ClientSignalingOffer, ConnectCheck
<1>4. ASSUME NEW s \in Sessions, ConnectInsert(s)
      PROVE  faults' \in Nat /\ faults' >= faults
  BY <1>4, RelayAssumption DEF ConnectInsert
<1>5. CASE ServerCrash
  BY <1>5, RelayAssumption DEF ServerCrash
<1>6. CASE UNCHANGED vars
  BY <1>6, RelayAssumption DEF vars
<1> QED
  BY <1>1, <1>2, <1>3, <1>4, <1>5, <1>6 DEF Next, Finished

-----------------------------------------------------------------------------
(* The online flag.                                                        *)

\* The steps that move the flag, the slots, or a socket that minds the flag.
LEMMA FlagSteps ==
  ASSUME TypeOK, [Next]_vars
  PROVE  \/ \E a \in AgentSockets :
               AgentMarkOnline(a) \/ AgentRegister(a) \/ AgentUnregister(a)
               \/ AgentMarkOffline(a)
         \/ ServerCrash
         \/ /\ UNCHANGED <<dbOnline, agents>>
            /\ \A b \in AgentSockets :
                  aState[b] \in {"registering", "offlining"}
                      => aState'[b] = aState[b]
<1> USE DEF TypeOK, TypeAgents, dbVars, mapVars, agentVars, Statement, AStep
<1> DEFINE Other ==
             /\ UNCHANGED <<dbOnline, agents>>
             /\ \A b \in AgentSockets :
                   aState[b] \in {"registering", "offlining"}
                       => aState'[b] = aState[b]
<1>1. ASSUME NEW a \in AgentSockets,
             \/ AgentForward(a) \/ AgentSuperseded(a) \/ AgentRelayAnswer(a)
             \/ AgentConnect(a) \/ AgentDisconnect(a)
      PROVE  Other
  BY <1>1 DEF AgentForward, AgentSuperseded, AgentRelayAnswer, AgentConnect,
              AgentDisconnect
<1>2. ASSUME NEW a \in AgentSockets, AgentEndSessions(a)
      PROVE  Other
  BY <1>2 DEF AgentEndSessions, AReturn
<1>3. ASSUME NEW a \in AgentSockets, NEW s \in Sessions, AgentAnswer(a, s)
      PROVE  Other
  BY <1>3 DEF AgentAnswer
<1>4. ASSUME NEW c \in ClientSockets,
             \/ ClientTask(c) \/ ClientConnect(c) \/ ClientDisconnect(c)
             \/ \E s \in Sessions : ClientConnectRequest(c, s)
                                    \/ ClientSignalingOffer(c, s)
      PROVE  Other
  BY <1>4 DEF ClientTask, ClientRegister, ClientNotify, ClientForward,
              ClientUnregister, ClientEndSession, ClientConnect,
              ClientDisconnect, ClientConnectRequest, ClientSignalingOffer
<1>5. ASSUME NEW s \in Sessions, ConnectCheck(s) \/ ConnectInsert(s)
      PROVE  Other
  BY <1>5 DEF ConnectCheck, ConnectInsert
<1>6. UNCHANGED vars => Other
  BY DEF vars
<1> QED
  BY <1>1, <1>2, <1>3, <1>4, <1>5, <1>6
     DEF Next, AgentTask, Environment, Finished

\* A machine is only marked online while a socket minds the mark, as long as no
\* statement failed and the server did not crash: when all sockets of a machine
\* are gone, its offline write has come last.
THEOREM OnlineFlag == Spec => []OnlineFlagHasAnOwner
<1>1. Init => SlotInv /\ OnlineFlagHasAnOwner
  BY RelayAssumption DEF Init, SlotInv, SlotIsLive, ConnIdsDistinct,
                         ConnIdsIssued, OnlineFlagHasAnOwner
<1>2. TypeOK /\ SlotInv /\ OnlineFlagHasAnOwner /\ [Next]_vars
        => OnlineFlagHasAnOwner'
  <2> SUFFICES ASSUME TypeOK, SlotInv, OnlineFlagHasAnOwner, [Next]_vars,
                      faults' = 0, NEW m \in dbOnline'
               PROVE  \E a \in AgentSockets :
                         /\ AgentMachine[a] = m
                         /\ \/ aState'[a] \in {"registering", "offlining"}
                            \/ agents'[m] = a
    BY DEF OnlineFlagHasAnOwner
  <2> USE RelayAssumption DEF TypeOK, TypeDb, TypeMaps, TypeAgents
  <2>1. faults = 0
    BY FaultsGrow
  <2>2. ASSUME m \in dbOnline
        PROVE  \E a \in AgentSockets :
                  /\ AgentMachine[a] = m
                  /\ \/ aState[a] \in {"registering", "offlining"}
                     \/ agents[m] = a
    BY <2>1, <2>2 DEF OnlineFlagHasAnOwner
  <2>3. ASSUME NEW a \in AgentSockets, AgentMarkOnline(a)
        PROVE  \E b \in AgentSockets :
                  /\ AgentMachine[b] = m
                  /\ \/ aState'[b] \in {"registering", "offlining"}
                     \/ agents'[m] = b
    <3>1. /\ aState' = [aState EXCEPT ![a] = "registering"]
          /\ agents' = agents
          /\ m \in dbOnline \/ m = AgentMachine[a]
      BY <2>3 DEF AgentMarkOnline, AStep, Statement
    <3> QED
      BY <2>2, <3>1
  <2>4. ASSUME NEW a \in AgentSockets, AgentRegister(a)
        PROVE  \E b \in AgentSockets :
                  /\ AgentMachine[b] = m
                  /\ \/ aState'[b] \in {"registering", "offlining"}
                     \/ agents'[m] = b
    <3>1. /\ aState' = [aState EXCEPT ![a] = "running"]
          /\ agents' = [agents EXCEPT ![AgentMachine[a]] = a]
          /\ m \in dbOnline
      BY <2>4 DEF AgentRegister, AStep, dbVars
    <3>2. CASE m = AgentMachine[a]
      BY <3>1, <3>2
    <3>3. CASE m # AgentMachine[a]
      BY <2>2, <3>1, <3>3
    <3> QED
      BY <3>2, <3>3
  <2>5. ASSUME NEW a \in AgentSockets, AgentUnregister(a)
        PROVE  \E b \in AgentSockets :
                  /\ AgentMachine[b] = m
                  /\ \/ aState'[b] \in {"registering", "offlining"}
                     \/ agents'[m] = b
    <3>1. m \in dbOnline /\ aState[a] = "closing"
      BY <2>5 DEF AgentUnregister, dbVars
    <3>2. PICK b \in AgentSockets :
             /\ AgentMachine[b] = m
             /\ aState[b] \in {"registering", "offlining"} \/ agents[m] = b
      BY <2>2, <3>1
    <3>3. CASE IsCurrent(a)
      <4>1. /\ agents' = [agents EXCEPT ![AgentMachine[a]] = None]
            /\ aState' = [aState EXCEPT ![a] = "offlining"]
        BY <2>5, <3>3 DEF AgentUnregister
      <4>2. CASE m = AgentMachine[a]
        BY <4>1, <4>2
      <4>3. CASE m # AgentMachine[a]
        BY <3>2, <4>1, <4>3
      <4> QED
        BY <4>2, <4>3
    <3>4. CASE ~IsCurrent(a)
      <4>1. agents' = agents /\ aState' = [aState EXCEPT ![a] = "done"]
        BY <2>5, <3>4 DEF AgentUnregister, AReturn
      <4> QED
        BY <3>1, <3>2, <4>1
    <3> QED
      BY <3>3, <3>4
  <2>6. ASSUME NEW a \in AgentSockets, AgentMarkOffline(a)
        PROVE  \E b \in AgentSockets :
                  /\ AgentMachine[b] = m
                  /\ \/ aState'[b] \in {"registering", "offlining"}
                     \/ agents'[m] = b
    <3>1. /\ dbOnline' = dbOnline \ {AgentMachine[a]}
          /\ aState' = [aState EXCEPT ![a] = "ending"]
          /\ agents' = agents
      BY <2>1, <2>6 DEF AgentMarkOffline, AStep, Statement, mapVars
    <3>2. m \in dbOnline /\ m # AgentMachine[a]
      BY <3>1
    <3> QED
      BY <2>2, <3>1, <3>2
  <2>7. CASE ServerCrash
    BY <2>1, <2>7 DEF ServerCrash
  <2>8. CASE /\ UNCHANGED <<dbOnline, agents>>
             /\ \A b \in AgentSockets :
                   aState[b] \in {"registering", "offlining"}
                       => aState'[b] = aState[b]
    <3>1. PICK b \in AgentSockets :
             /\ AgentMachine[b] = m
             /\ aState[b] \in {"registering", "offlining"} \/ agents[m] = b
      BY <2>2, <2>8
    <3> QED
      BY <2>8, <3>1
  <2> QED
    BY <2>3, <2>4, <2>5, <2>6, <2>7, <2>8, FlagSteps
<1> QED
  BY <1>1, <1>2, SlotInvStep, TypeCorrect, PTL DEF Spec

-----------------------------------------------------------------------------
(* The client registrations.                                               *)

\* The steps that move a registration, an owned session or a client's task.
LEMMA RegistrationSteps ==
  ASSUME TypeOK, [Next]_vars
  PROVE  \/ UNCHANGED <<clients, cState, owned>>
         \/ ServerCrash
         \/ \E c \in ClientSockets :
               \/ ClientRegister(c) \/ ClientUnregister(c)
               \/ \E s \in Sessions : ClientEndSession(c, s)
               \/ \E p \in {"idle", "running", "notifying"},
                     q \in {"running", "registering", "notifying", "closing"} :
                     /\ CStep(c, p, q)
                     /\ p = "running" \/ q = "running"
                     /\ UNCHANGED <<clients, owned>>
<1> USE DEF mapVars, clientVars
<1>1. ASSUME NEW a \in AgentSockets, AgentTask(a)
      PROVE  UNCHANGED <<clients, cState, owned>>
  BY <1>1 DEF AgentTask, AgentMarkOnline, AgentRegister, AgentForward,
              AgentSuperseded, AgentRelayAnswer, AgentUnregister,
              AgentMarkOffline, AgentEndSessions
<1>2. ASSUME NEW a \in AgentSockets,
             \/ AgentConnect(a) \/ AgentDisconnect(a)
             \/ \E s \in Sessions : AgentAnswer(a, s)
      PROVE  UNCHANGED <<clients, cState, owned>>
  BY <1>2 DEF AgentConnect, AgentDisconnect, AgentAnswer
<1>3. ASSUME NEW s \in Sessions, ConnectInsert(s) \/ ConnectCheck(s)
      PROVE  UNCHANGED <<clients, cState, owned>>
  BY <1>3 DEF ConnectInsert, ConnectCheck
<1>4. ASSUME NEW c \in ClientSockets, ClientForward(c)
      PROVE  UNCHANGED <<clients, cState, owned>>
  BY <1>4 DEF ClientForward
<1>5. ASSUME NEW c \in ClientSockets,
             \/ ClientConnect(c) \/ ClientDisconnect(c) \/ ClientNotify(c)
             \/ \E s \in Sessions : ClientConnectRequest(c, s)
                                    \/ ClientSignalingOffer(c, s)
      PROVE  \E p \in {"idle", "running", "notifying"},
                q \in {"running", "registering", "notifying", "closing"} :
                /\ CStep(c, p, q)
                /\ p = "running" \/ q = "running"
                /\ UNCHANGED <<clients, owned>>
  <2>1. CASE ClientConnect(c)
    BY <2>1 DEF ClientConnect
  <2>2. CASE ClientDisconnect(c)
    BY <2>2 DEF ClientDisconnect
  <2>3. CASE ClientNotify(c)
    BY <2>3 DEF ClientNotify
  <2>4. ASSUME NEW s \in Sessions, ClientConnectRequest(c, s)
        PROVE  CStep(c, "running", "registering") /\ UNCHANGED <<clients, owned>>
    BY <2>4 DEF ClientConnectRequest
  <2>5. ASSUME NEW s \in Sessions, ClientSignalingOffer(c, s)
        PROVE  CStep(c, "running", "notifying") /\ UNCHANGED <<clients, owned>>
    BY <2>5 DEF ClientSignalingOffer
  <2> QED
    BY <1>5, <2>1, <2>2, <2>3, <2>4, <2>5
<1>6. UNCHANGED vars => UNCHANGED <<clients, cState, owned>>
  BY DEF vars
<1> QED
  BY <1>1, <1>2, <1>3, <1>4, <1>5, <1>6
     DEF Next, ClientTask, Environment, Finished

\* Every step leaves an owner to each client slot.
LEMMA ClientSlotStep ==
  TypeOK /\ ClientSlotIsOwned /\ [Next]_vars => ClientSlotIsOwned'
<1> SUFFICES ASSUME TypeOK, ClientSlotIsOwned, [Next]_vars
             PROVE  ClientSlotIsOwned'
  OBVIOUS
<1> USE RelayAssumption DEF TypeOK, TypeMaps, TypeClients, ClientSlotIsOwned,
        Serving
<1>1. CASE UNCHANGED <<clients, cState, owned>>
  BY <1>1
<1>2. CASE ServerCrash
  BY <1>2 DEF ServerCrash
<1>3. ASSUME NEW c \in ClientSockets, ClientRegister(c)
      PROVE  ClientSlotIsOwned'
  <2>1. /\ cState[c] = "registering"
        /\ cCur[c] \in Sessions
        /\ clients' = [clients EXCEPT ![cCur[c]] = c]
        /\ owned' = [owned EXCEPT ![c] = @ \cup {cCur[c]}]
    BY <1>3 DEF ClientRegister, HandlersHaveASession
  <2>2. \E w \in {"notifying", "running"} : cState' = [cState EXCEPT ![c] = w]
    BY <1>3 DEF ClientRegister, Statement
  <2> QED
    BY <2>1, <2>2
<1>4. ASSUME NEW c \in ClientSockets, ClientUnregister(c)
      PROVE  ClientSlotIsOwned'
  BY <1>4 DEF ClientUnregister, CReturnIfLast
<1>5. ASSUME NEW c \in ClientSockets, NEW s \in Sessions, ClientEndSession(c, s)
      PROVE  ClientSlotIsOwned'
  BY <1>5 DEF ClientEndSession, CReturnIfLast, mapVars
<1>6. ASSUME NEW c \in ClientSockets,
             NEW p \in {"idle", "running", "notifying"},
             NEW q \in {"running", "registering", "notifying", "closing"},
             CStep(c, p, q), UNCHANGED <<clients, owned>>
      PROVE  ClientSlotIsOwned'
  BY <1>6 DEF CStep
<1> QED
  BY <1>1, <1>2, <1>3, <1>4, <1>5, <1>6, RegistrationSteps

\* A registration never outlives its socket's task, and names a session that
\* the task will end, although several sockets may name one session and each
\* removes its sessions without looking whose entry it removes.
THEOREM Registrations == Spec => []ClientSlotIsOwned
<1>1. Init => ClientSlotIsOwned
  BY RelayAssumption DEF Init, ClientSlotIsOwned
<1> QED
  BY <1>1, ClientSlotStep, TypeCorrect, PTL DEF Spec

-----------------------------------------------------------------------------
(* What is relayed.                                                        *)

\* The sessions a socket handles and owns are its user's.
HandlesOwnSessions ==
    \A c \in ClientSockets :
        /\ cState[c] \in {"registering", "notifying"}
              => SessionUser[cCur[c]] = ClientUser[c]
        /\ \A s \in owned[c] : SessionUser[s] = ClientUser[c]

Queued(q, s) == \E i \in DOMAIN q : q[i] = s

\* A channel holds what it held and what is put into it.
LEMMA QueuedFacts ==
  ASSUME NEW S, NEW q \in Seq(S), NEW x \in S, NEW s
  PROVE  /\ Queued(Append(q, x), s) => s = x \/ Queued(q, s)
         /\ q # <<>> => (Queued(Tail(q), s) => Queued(q, s))
         /\ q # <<>> => Queued(q, Head(q))
         /\ ~Queued(<<>>, s)
<1>1. Queued(Append(q, x), s) => s = x \/ Queued(q, s)
  BY DEF Queued
<1>2. ASSUME q # <<>>, Queued(Tail(q), s)
      PROVE  Queued(q, s)
  <2>1. PICK i \in DOMAIN Tail(q) : Tail(q)[i] = s
    BY <1>2 DEF Queued
  <2>2. i + 1 \in DOMAIN q /\ q[i + 1] = s
    BY <1>2, <2>1
  <2> QED
    BY <2>2 DEF Queued
<1>3. q # <<>> => Queued(q, Head(q))
  BY DEF Queued
<1>4. ~Queued(<<>>, s)
  BY DEF Queued
<1> QED
  BY <1>1, <1>2, <1>3, <1>4

\* Every step leaves clients handling sessions of their own.
LEMMA HandlesOwnStep ==
  TypeOK /\ HandlesOwnSessions /\ [Next]_vars => HandlesOwnSessions'
<1> SUFFICES ASSUME TypeOK, HandlesOwnSessions, [Next]_vars
             PROVE  HandlesOwnSessions'
  OBVIOUS
<1> USE RelayAssumption DEF TypeOK, TypeClients, HandlesOwnSessions,
        HandlersHaveASession, mapVars, clientVars, CStep
<1>1. CASE UNCHANGED <<cState, cCur, owned>>
  BY <1>1
<1>2. ASSUME NEW a \in AgentSockets, AgentTask(a)
      PROVE  UNCHANGED <<cState, cCur, owned>>
  BY <1>2 DEF AgentTask, AgentMarkOnline, AgentRegister, AgentForward,
              AgentSuperseded, AgentRelayAnswer, AgentUnregister,
              AgentMarkOffline, AgentEndSessions
<1>3. ASSUME NEW a \in AgentSockets,
             \/ AgentConnect(a) \/ AgentDisconnect(a)
             \/ \E s \in Sessions : AgentAnswer(a, s)
      PROVE  UNCHANGED <<cState, cCur, owned>>
  BY <1>3 DEF AgentConnect, AgentDisconnect, AgentAnswer
<1>4. ASSUME NEW s \in Sessions, ConnectInsert(s) \/ ConnectCheck(s)
      PROVE  UNCHANGED <<cState, cCur, owned>>
  BY <1>4 DEF ConnectInsert, ConnectCheck
<1>5. ASSUME NEW c \in ClientSockets, ClientRegister(c)
      PROVE  HandlesOwnSessions'
  <2>1. /\ cState[c] = "registering"
        /\ owned' = [owned EXCEPT ![c] = @ \cup {cCur[c]}]
        /\ \/ cState' = [cState EXCEPT ![c] = "notifying"] /\ cCur' = cCur
           \/ /\ cState' = [cState EXCEPT ![c] = "running"]
              /\ cCur' = [cCur EXCEPT ![c] = None]
    BY <1>5 DEF ClientRegister, Statement
  <2> QED
    BY <2>1
<1>6. ASSUME NEW c \in ClientSockets, ClientNotify(c)
      PROVE  HandlesOwnSessions'
  <2>1. /\ cState' = [cState EXCEPT ![c] = "running"]
        /\ cCur' = [cCur EXCEPT ![c] = None]
        /\ owned' = owned
    BY <1>6 DEF ClientNotify
  <2> QED
    BY <2>1
<1>7. ASSUME NEW c \in ClientSockets, ClientForward(c)
      PROVE  HandlesOwnSessions'
  BY <1>1, <1>7 DEF ClientForward
<1>8. ASSUME NEW c \in ClientSockets, ClientUnregister(c)
      PROVE  HandlesOwnSessions'
  BY <1>8 DEF ClientUnregister, CReturnIfLast
<1>9. ASSUME NEW c \in ClientSockets, NEW s \in Sessions, ClientEndSession(c, s)
      PROVE  HandlesOwnSessions'
  BY <1>9 DEF ClientEndSession, CReturnIfLast
<1>10. ASSUME NEW c \in ClientSockets, ClientConnect(c) \/ ClientDisconnect(c)
       PROVE  HandlesOwnSessions'
  BY <1>10 DEF ClientConnect, ClientDisconnect
<1>11. ASSUME NEW c \in ClientSockets, NEW s \in Sessions,
              ClientConnectRequest(c, s) \/ ClientSignalingOffer(c, s)
       PROVE  HandlesOwnSessions'
  <2>1. /\ \E q \in {"registering", "notifying"} :
              cState' = [cState EXCEPT ![c] = q]
        /\ cCur' = [cCur EXCEPT ![c] = s]
        /\ owned' = owned
        /\ SessionUser[s] = ClientUser[c]
    BY <1>11 DEF ClientConnectRequest, ClientSignalingOffer, OwnsSession
  <2> QED
    BY <2>1
<1>12. CASE ServerCrash
  BY <1>12 DEF ServerCrash, ClientLive
<1>13. UNCHANGED vars => UNCHANGED <<cState, cCur, owned>>
  BY DEF vars
<1> QED
  BY <1>1, <1>2, <1>3, <1>4, <1>5, <1>6, <1>7, <1>8, <1>9, <1>10, <1>11, <1>12,
     <1>13 DEF Next, ClientTask, Environment, Finished

\* RelayedToParties, side by side.
ClientsReceiveOwn ==
    \A c \in ClientSockets : \A s \in Sessions :
        Queued(toClient[c], s) \/ s \in got[c]
            => SessionUser[s] = ClientUser[c]
AgentsReceiveOwn ==
    \A a \in AgentSockets : \A s \in Sessions :
        Queued(toAgent[a], s) \/ s \in atAgent[a]
            => SessionMachine[s] = AgentMachine[a]

\* Every step sends clients only what is of their sessions.
LEMMA ClientsReceiveOwnStep ==
  TypeOK /\ ClientSlotIsOwned /\ HandlesOwnSessions /\ ClientsReceiveOwn
    /\ [Next]_vars => ClientsReceiveOwn'
<1> SUFFICES ASSUME TypeOK, ClientSlotIsOwned, HandlesOwnSessions,
                    ClientsReceiveOwn, [Next]_vars
             PROVE  ClientsReceiveOwn'
  OBVIOUS
<1> USE RelayAssumption DEF TypeOK, TypeMaps, TypeClients, TypeAgents,
        ClientsReceiveOwn
<1>1. CASE UNCHANGED <<toClient, got>>
  BY <1>1 DEF Queued
<1>2. ASSUME NEW c \in ClientSockets, NEW q \in {<<>>, toClient[c]},
             got' = got, toClient' = [toClient EXCEPT ![c] = q]
      PROVE  ClientsReceiveOwn'
  BY <1>2 DEF Queued
<1>3. ASSUME NEW a \in AgentSockets, AgentRelayAnswer(a)
      PROVE  ClientsReceiveOwn'
  <2> DEFINE s == aCur[a]
  <2>1. s \in Sessions /\ got' = got
    BY <1>3 DEF AgentRelayAnswer, AStep, HandlersHaveASession
  <2>2. CASE clients[s] = None
    BY <1>1, <1>3, <2>1, <2>2 DEF AgentRelayAnswer
  <2>3. CASE clients[s] # None
    <3>1. clients[s] \in ClientSockets /\ SessionUser[s] = ClientUser[clients[s]]
      BY <2>1, <2>3 DEF ClientSlotIsOwned, HandlesOwnSessions
    <3>2. toClient' = [toClient EXCEPT ![clients[s]] = Append(@, s)]
      BY <1>3, <2>3 DEF AgentRelayAnswer
    <3>3. ASSUME NEW c \in ClientSockets, NEW t \in Sessions,
                 Queued(toClient'[c], t) \/ t \in got'[c]
          PROVE  SessionUser[t] = ClientUser[c]
      <4>1. CASE c = clients[s]
        <5>1. Queued(Append(toClient[c], s), t) \/ t \in got[c]
          BY <2>1, <3>1, <3>2, <3>3, <4>1
        <5>2. t = s \/ Queued(toClient[c], t) \/ t \in got[c]
          BY <2>1, <5>1, QueuedFacts
        <5> QED
          BY <3>1, <4>1, <5>2
      <4>2. CASE c # clients[s]
        BY <2>1, <3>1, <3>2, <3>3, <4>2
      <4> QED
        BY <4>1, <4>2
    <3> QED
      BY <3>3
  <2> QED
    BY <2>2, <2>3
<1>4. ASSUME NEW c \in ClientSockets, ClientForward(c)
      PROVE  ClientsReceiveOwn'
  <2>1. /\ toClient[c] # <<>>
        /\ toClient' = [toClient EXCEPT ![c] = Tail(@)]
        /\ got' = [got EXCEPT ![c] = @ \cup {Head(toClient[c])}]
    BY <1>4 DEF ClientForward
  <2>2. Head(toClient[c]) \in Sessions /\ Queued(toClient[c], Head(toClient[c]))
    BY <2>1, QueuedFacts
  <2>3. ASSUME NEW t \in Sessions, Queued(Tail(toClient[c]), t)
        PROVE  Queued(toClient[c], t)
    BY <2>1, <2>3, QueuedFacts
  <2> QED
    BY <2>1, <2>2, <2>3
<1>5. ASSUME NEW a \in AgentSockets,
             AgentTask(a) \/ AgentConnect(a) \/ AgentDisconnect(a)
             \/ \E s \in Sessions : AgentAnswer(a, s)
      PROVE  AgentRelayAnswer(a) \/ UNCHANGED <<toClient, got>>
  BY <1>5 DEF AgentTask, AgentMarkOnline, AgentRegister, AgentForward,
              AgentSuperseded, AgentUnregister, AgentMarkOffline,
              AgentEndSessions, AgentConnect, AgentDisconnect, AgentAnswer,
              clientVars
<1>6. ASSUME NEW s \in Sessions, ConnectInsert(s) \/ ConnectCheck(s)
      PROVE  UNCHANGED <<toClient, got>>
  BY <1>6 DEF ConnectInsert, ConnectCheck, clientVars
<1>7. ASSUME NEW c \in ClientSockets,
             \/ ClientUnregister(c)
             \/ \E s \in Sessions : ClientEndSession(c, s)
      PROVE  ClientsReceiveOwn'
  <2>1. /\ got' = got
        /\ \E q \in {<<>>, toClient[c]} :
              toClient' = [toClient EXCEPT ![c] = q]
    BY <1>7 DEF ClientUnregister, ClientEndSession, CReturnIfLast
  <2> QED
    BY <1>2, <2>1
<1>8. ASSUME NEW c \in ClientSockets,
             \/ ClientRegister(c) \/ ClientNotify(c) \/ ClientConnect(c)
             \/ ClientDisconnect(c)
             \/ \E s \in Sessions : ClientConnectRequest(c, s)
                                    \/ ClientSignalingOffer(c, s)
      PROVE  UNCHANGED <<toClient, got>>
  BY <1>8 DEF ClientRegister, ClientNotify, ClientConnect, ClientDisconnect,
              ClientConnectRequest, ClientSignalingOffer
<1>9. CASE ServerCrash
  BY <1>9 DEF ServerCrash, Queued
<1>10. UNCHANGED vars => UNCHANGED <<toClient, got>>
  BY DEF vars, clientVars
<1> QED
  BY <1>1, <1>3, <1>4, <1>5, <1>6, <1>7, <1>8, <1>9, <1>10
     DEF Next, ClientTask, Environment, Finished

\* Every step sends agents only what is of their machine.
LEMMA AgentsReceiveOwnStep ==
  TypeOK /\ SlotIsLive /\ AgentsReceiveOwn /\ [Next]_vars => AgentsReceiveOwn'
<1> SUFFICES ASSUME TypeOK, SlotIsLive, AgentsReceiveOwn, [Next]_vars
             PROVE  AgentsReceiveOwn'
  OBVIOUS
<1> USE RelayAssumption DEF TypeOK, TypeMaps, TypeClients, TypeAgents,
        AgentsReceiveOwn
<1>1. CASE UNCHANGED <<toAgent, atAgent>>
  BY <1>1 DEF Queued
<1>2. ASSUME NEW c \in ClientSockets, ClientNotify(c)
      PROVE  AgentsReceiveOwn'
  <2> DEFINE s == cCur[c]
             a == agents[SessionMachine[s]]
  <2>1. s \in Sessions /\ atAgent' = atAgent
    BY <1>2 DEF ClientNotify, CStep, HandlersHaveASession
  <2>2. CASE a = None
    BY <1>1, <1>2, <2>1, <2>2 DEF ClientNotify
  <2>3. CASE a # None
    <3>1. a \in AgentSockets /\ AgentMachine[a] = SessionMachine[s]
      BY <2>1, <2>3 DEF SlotIsLive
    <3>2. toAgent' = [toAgent EXCEPT ![a] = Append(@, s)]
      BY <1>2, <2>3 DEF ClientNotify
    <3>3. ASSUME NEW b \in AgentSockets, NEW t \in Sessions,
                 Queued(toAgent'[b], t) \/ t \in atAgent'[b]
          PROVE  SessionMachine[t] = AgentMachine[b]
      <4>1. CASE b = a
        <5>1. Queued(Append(toAgent[b], s), t) \/ t \in atAgent[b]
          BY <2>1, <3>1, <3>2, <3>3, <4>1
        <5>2. t = s \/ Queued(toAgent[b], t) \/ t \in atAgent[b]
          BY <2>1, <5>1, QueuedFacts
        <5> QED
          BY <3>1, <4>1, <5>2
      <4>2. CASE b # a
        BY <2>1, <3>1, <3>2, <3>3, <4>2
      <4> QED
        BY <4>1, <4>2
    <3> QED
      BY <3>3
  <2> QED
    BY <2>2, <2>3
<1>3. ASSUME NEW a \in AgentSockets, AgentForward(a)
      PROVE  AgentsReceiveOwn'
  <2>1. /\ toAgent[a] # <<>>
        /\ toAgent' = [toAgent EXCEPT ![a] = Tail(@)]
        /\ atAgent' = [atAgent EXCEPT ![a] = @ \cup {Head(toAgent[a])}]
    BY <1>3 DEF AgentForward
  <2>2. Head(toAgent[a]) \in Sessions /\ Queued(toAgent[a], Head(toAgent[a]))
    BY <2>1, QueuedFacts
  <2>3. ASSUME NEW t \in Sessions, Queued(Tail(toAgent[a]), t)
        PROVE  Queued(toAgent[a], t)
    BY <2>1, <2>3, QueuedFacts
  <2> QED
    BY <2>1, <2>2, <2>3
<1>4. ASSUME NEW a \in AgentSockets,
             \/ AgentSuperseded(a) \/ AgentDisconnect(a)
             \/ \E s \in Sessions : AgentAnswer(a, s)
      PROVE  AgentsReceiveOwn'
  <2>1. /\ toAgent' = toAgent
        /\ \E S \in SUBSET atAgent[a] : atAgent' = [atAgent EXCEPT ![a] = S]
    BY <1>4 DEF AgentSuperseded, AgentDisconnect, AgentAnswer
  <2> QED
    BY <2>1 DEF Queued
<1>5. ASSUME NEW a \in AgentSockets, AgentUnregister(a) \/ AgentEndSessions(a)
      PROVE  AgentsReceiveOwn'
  <2>1. atAgent' = atAgent
    BY <1>5 DEF AgentUnregister, AgentEndSessions
  <2>2. CASE toAgent' = toAgent
    BY <1>1, <2>1, <2>2
  <2>3. CASE toAgent' = [toAgent EXCEPT ![a] = <<>>]
    <3>1. ASSUME NEW b \in AgentSockets, NEW t \in Sessions,
                 Queued(toAgent'[b], t)
          PROVE  Queued(toAgent[b], t)
      BY <2>3, <3>1 DEF Queued
    <3> QED
      BY <2>1, <3>1
  <2> QED
    BY <1>5, <2>2, <2>3 DEF AgentUnregister, AgentEndSessions, AReturn
<1>6. ASSUME NEW a \in AgentSockets,
             AgentMarkOnline(a) \/ AgentRegister(a) \/ AgentRelayAnswer(a)
             \/ AgentMarkOffline(a) \/ AgentConnect(a)
      PROVE  UNCHANGED <<toAgent, atAgent>>
  BY <1>6 DEF AgentMarkOnline, AgentRegister, AgentRelayAnswer,
              AgentMarkOffline, AgentConnect
<1>7. ASSUME NEW s \in Sessions, ConnectInsert(s) \/ ConnectCheck(s)
      PROVE  UNCHANGED <<toAgent, atAgent>>
  BY <1>7 DEF ConnectInsert, ConnectCheck, agentVars
<1>8. ASSUME NEW c \in ClientSockets,
             \/ ClientTask(c) \/ ClientConnect(c) \/ ClientDisconnect(c)
             \/ \E s \in Sessions : ClientConnectRequest(c, s)
                                    \/ ClientSignalingOffer(c, s)
      PROVE  ClientNotify(c) \/ UNCHANGED <<toAgent, atAgent>>
  BY <1>8 DEF ClientTask, ClientRegister, ClientForward, ClientUnregister,
              ClientEndSession, ClientConnect, ClientDisconnect,
              ClientConnectRequest, ClientSignalingOffer, agentVars
<1>9. CASE ServerCrash
  BY <1>9 DEF ServerCrash, Queued
<1>10. UNCHANGED vars => UNCHANGED <<toAgent, atAgent>>
  BY DEF vars, agentVars
<1> QED
  BY <1>1, <1>2, <1>3, <1>4, <1>5, <1>6, <1>7, <1>8, <1>9, <1>10
     DEF Next, AgentTask, Environment, Finished

\* The inductive invariant of the relayed messages.
PartyInv == /\ TypeOK /\ SlotInv /\ ClientSlotIsOwned /\ HandlesOwnSessions
            /\ ClientsReceiveOwn /\ AgentsReceiveOwn

\* The invariant of the relayed messages holds in every state.
THEOREM PartyInvariant == Spec => []PartyInv
<1>1. Init => SlotInv
  BY RelayAssumption DEF Init, SlotInv, SlotIsLive, ConnIdsDistinct,
                         ConnIdsIssued
<1>2. Init => /\ ClientSlotIsOwned /\ HandlesOwnSessions
              /\ ClientsReceiveOwn /\ AgentsReceiveOwn
  BY RelayAssumption DEF Init, ClientSlotIsOwned, HandlesOwnSessions,
                         ClientsReceiveOwn, AgentsReceiveOwn, Queued
<1>3. SlotInv => SlotIsLive
  BY DEF SlotInv
<1> QED
  BY <1>1, <1>2, <1>3, TypeCorrect, SlotInvStep, ClientSlotStep,
     HandlesOwnStep, ClientsReceiveOwnStep, AgentsReceiveOwnStep, PTL
     DEF Spec, PartyInv

\* Whatever the relay queues for or has delivered to a client or an agent is
\* about a session of that client's user, or of that agent's machine: between
\* the ownership check and the delivery nothing lets a message stray.
THEOREM Parties == Spec => []RelayedToParties
<1>1. PartyInv => RelayedToParties
  BY DEF PartyInv, ClientsReceiveOwn, AgentsReceiveOwn, Queued,
         RelayedToParties
<1> QED
  BY <1>1, PartyInvariant, PTL

-----------------------------------------------------------------------------
(* The life of a session, and the refinement of RelayService.               *)

\* The offer is under way to an agent, or was delivered and is not answered.
Offered(s) ==
    \/ \E a \in AgentSockets : Queued(toAgent[a], s) \/ s \in atAgent[a]
    \/ \E c \in ClientSockets : cState[c] = "notifying" /\ cCur[c] = s

\* A client socket owns the session or is about to.
Held(s) ==
    \E c \in ClientSockets :
        s \in owned[c] \/ (cState[c] = "registering" /\ cCur[c] = s)

\* Rows are inserted before anyone names them, and once.
RowsComeFirst ==
    \A s \in Sessions :
        /\ s \in checked => status[s] = "none"
        /\ Offered(s) \/ Held(s) => status[s] # "none"

-----------------------------------------------------------------------------
(* How a step changes what these speak of.                                 *)

\* MarkEnded only ends sessions that have a row.
LEMMA MarkEndedEnds ==
  ASSUME TypeDb, NEW S \in SUBSET Sessions, MarkEnded(S), NEW s \in Sessions
  PROVE  status'[s] = status[s] \/ (status[s] # "none" /\ status'[s] = "ended")
  BY DEF MarkEnded, TypeDb, Status

\* The ways a row may change.
LEMMA StatusSteps ==
  ASSUME TypeOK, [Next]_vars, NEW s \in Sessions
  PROVE  \/ status'[s] = status[s]
         \/ ConnectInsert(s)
         \/ /\ \E a \in AgentSockets : AgentAnswer(a, s)
            /\ status[s] = "pending" /\ status'[s] = "active"
         \/ status[s] # "none" /\ status'[s] = "ended"
<1> USE DEF TypeOK, TypeDb, dbVars, Statement
<1>1. ASSUME NEW a \in AgentSockets,
             \/ AgentMarkOnline(a) \/ AgentRegister(a) \/ AgentForward(a)
             \/ AgentSuperseded(a) \/ AgentRelayAnswer(a) \/ AgentUnregister(a)
             \/ AgentMarkOffline(a) \/ AgentConnect(a) \/ AgentDisconnect(a)
      PROVE  status' = status
  BY <1>1 DEF AgentMarkOnline, AgentRegister, AgentForward, AgentSuperseded,
              AgentRelayAnswer, AgentUnregister, AgentMarkOffline, AgentConnect,
              AgentDisconnect
<1>2. ASSUME NEW a \in AgentSockets, AgentEndSessions(a)
      PROVE  status'[s] = status[s] \/ (status[s] # "none" /\ status'[s] = "ended")
  <2>1. CASE MarkEnded(SessionsOf(AgentMachine[a]))
    BY <2>1, MarkEndedEnds DEF SessionsOf
  <2>2. CASE status' = status
    BY <2>2
  <2> QED
    BY <1>2, <2>1, <2>2 DEF AgentEndSessions
<1>3. ASSUME NEW a \in AgentSockets, NEW t \in Sessions, AgentAnswer(a, t)
      PROVE  \/ status'[s] = status[s]
             \/ /\ AgentAnswer(a, s)
                /\ status[s] = "pending" /\ status'[s] = "active"
  BY <1>3 DEF AgentAnswer, MarkActive
<1>4. ASSUME NEW t \in Sessions, ConnectInsert(t)
      PROVE  status'[s] = status[s] \/ ConnectInsert(s)
  BY <1>4 DEF ConnectInsert
<1>5. ASSUME NEW t \in Sessions, ConnectCheck(t)
      PROVE  status' = status
  BY <1>5 DEF ConnectCheck
<1>6. ASSUME NEW c \in ClientSockets, NEW t \in Sessions, ClientEndSession(c, t)
      PROVE  status'[s] = status[s] \/ (status[s] # "none" /\ status'[s] = "ended")
  <2>1. CASE MarkEnded({t})
    BY <2>1, MarkEndedEnds
  <2>2. CASE status' = status
    BY <2>2
  <2> QED
    BY <1>6, <2>1, <2>2 DEF ClientEndSession
<1>7. ASSUME NEW c \in ClientSockets,
             \/ ClientRegister(c) \/ ClientNotify(c) \/ ClientForward(c)
             \/ ClientUnregister(c) \/ ClientConnect(c) \/ ClientDisconnect(c)
             \/ \E t \in Sessions : ClientConnectRequest(c, t)
                                    \/ ClientSignalingOffer(c, t)
      PROVE  status' = status
  BY <1>7 DEF ClientRegister, ClientNotify, ClientForward, ClientUnregister,
              ClientConnect, ClientDisconnect, ClientConnectRequest,
              ClientSignalingOffer
<1>8. ServerCrash \/ UNCHANGED vars => status' = status
  BY DEF ServerCrash, vars
<1> QED
  BY <1>1, <1>2, <1>3, <1>4, <1>5, <1>6, <1>7, <1>8
     DEF Next, AgentTask, ClientTask, Environment, Finished

\* A session is offered by the socket that registers it.
LEMMA OfferedSteps ==
  ASSUME TypeOK, [Next]_vars, NEW s \in Sessions, Offered(s)'
  PROVE  \/ Offered(s)
         \/ \E c \in ClientSockets : ClientRegister(c) /\ cCur[c] = s
         \/ \E c \in ClientSockets : ClientSignalingOffer(c, s)
<1> USE RelayAssumption DEF TypeOK, TypeMaps, TypeAgents, TypeClients, agentVars,
        clientVars
<1>1. CASE UNCHANGED <<toAgent, atAgent, cState, cCur>>
  BY <1>1 DEF Offered, Queued
<1>2. ASSUME NEW a \in AgentSockets, AgentForward(a)
      PROVE  Offered(s)
  <2>1. /\ toAgent[a] # <<>>
        /\ toAgent' = [toAgent EXCEPT ![a] = Tail(@)]
        /\ atAgent' = [atAgent EXCEPT ![a] = @ \cup {Head(toAgent[a])}]
        /\ UNCHANGED <<cState, cCur>>
    BY <1>2 DEF AgentForward
  <2>2. Head(toAgent[a]) \in Sessions /\ Queued(toAgent[a], Head(toAgent[a]))
    BY <2>1, QueuedFacts
  <2>3. Queued(Tail(toAgent[a]), s) => Queued(toAgent[a], s)
    BY <2>1, QueuedFacts
  <2>4. ASSUME NEW b \in AgentSockets, Queued(toAgent'[b], s) \/ s \in atAgent'[b]
        PROVE  Queued(toAgent[b], s) \/ s \in atAgent[b]
    BY <2>1, <2>2, <2>3, <2>4
  <2> QED
    BY <2>1, <2>4 DEF Offered
<1>3. ASSUME NEW a \in AgentSockets,
             \/ AgentSuperseded(a) \/ AgentDisconnect(a)
             \/ \E t \in Sessions : AgentAnswer(a, t)
      PROVE  Offered(s)
  <2>1. /\ UNCHANGED <<toAgent, cState, cCur>>
        /\ \E S \in SUBSET atAgent[a] : atAgent' = [atAgent EXCEPT ![a] = S]
    BY <1>3 DEF AgentSuperseded, AgentDisconnect, AgentAnswer
  <2> QED
    BY <2>1 DEF Offered, Queued
<1>4. ASSUME NEW a \in AgentSockets, AgentUnregister(a) \/ AgentEndSessions(a)
      PROVE  Offered(s)
  <2>1. UNCHANGED <<atAgent, cState, cCur>>
    BY <1>4 DEF AgentUnregister, AgentEndSessions
  <2>2. CASE toAgent' = toAgent
    BY <1>1, <2>1, <2>2 DEF Offered, Queued
  <2>3. CASE toAgent' = [toAgent EXCEPT ![a] = <<>>]
    <3>1. ASSUME NEW b \in AgentSockets, Queued(toAgent'[b], s)
          PROVE  Queued(toAgent[b], s)
      BY <2>3, <3>1 DEF Queued
    <3> QED
      BY <2>1, <3>1 DEF Offered
  <2> QED
    BY <1>4, <2>2, <2>3 DEF AgentUnregister, AgentEndSessions, AReturn
<1>5. ASSUME NEW a \in AgentSockets,
             AgentMarkOnline(a) \/ AgentRegister(a) \/ AgentRelayAnswer(a)
             \/ AgentMarkOffline(a) \/ AgentConnect(a)
      PROVE  UNCHANGED <<toAgent, atAgent, cState, cCur>>
  BY <1>5 DEF AgentMarkOnline, AgentRegister, AgentRelayAnswer,
              AgentMarkOffline, AgentConnect
<1>6. ASSUME NEW t \in Sessions, ConnectInsert(t) \/ ConnectCheck(t)
      PROVE  UNCHANGED <<toAgent, atAgent, cState, cCur>>
  BY <1>6 DEF ConnectInsert, ConnectCheck
<1>7. ASSUME NEW c \in ClientSockets, ClientRegister(c)
      PROVE  Offered(s) \/ cCur[c] = s
  <2>1. /\ UNCHANGED <<toAgent, atAgent>>
        /\ \/ cState' = [cState EXCEPT ![c] = "notifying"] /\ cCur' = cCur
           \/ /\ cState' = [cState EXCEPT ![c] = "running"]
              /\ cCur' = [cCur EXCEPT ![c] = None]
    BY <1>7 DEF ClientRegister, Statement
  <2> QED
    BY <2>1 DEF Offered, Queued
<1>8. ASSUME NEW c \in ClientSockets, ClientNotify(c)
      PROVE  Offered(s)
  <2> DEFINE t == cCur[c]
             a == agents[SessionMachine[t]]
  <2>1. /\ cState[c] = "notifying" /\ t \in Sessions
        /\ cState' = [cState EXCEPT ![c] = "running"]
        /\ cCur' = [cCur EXCEPT ![c] = None]
        /\ atAgent' = atAgent
    BY <1>8 DEF ClientNotify, CStep, HandlersHaveASession
  <2>2. CASE a = None
    <3>1. toAgent' = toAgent
      BY <1>8, <2>2 DEF ClientNotify
    <3> QED
      BY <2>1, <3>1 DEF Offered, Queued
  <2>3. CASE a # None
    <3>1. a \in AgentSockets /\ toAgent' = [toAgent EXCEPT ![a] = Append(@, t)]
      BY <1>8, <2>1, <2>3 DEF ClientNotify
    <3>2. ASSUME NEW b \in AgentSockets, Queued(toAgent'[b], s), s # t
          PROVE  Queued(toAgent[b], s)
      <4>1. CASE b = a
        <5>1. Queued(Append(toAgent[b], t), s)
          BY <3>1, <3>2, <4>1
        <5> QED
          BY <2>1, <3>2, <5>1, QueuedFacts
      <4>2. CASE b # a
        BY <3>1, <3>2, <4>2
      <4> QED
        BY <4>1, <4>2
    <3> QED
      BY <2>1, <3>2 DEF Offered
  <2> QED
    BY <2>2, <2>3
<1>9. ASSUME NEW c \in ClientSockets, ClientUnregister(c)
      PROVE  Offered(s)
  <2>1. /\ UNCHANGED <<toAgent, atAgent, cCur>>
        /\ \E q \in {"done", "ending"} : cState' = [cState EXCEPT ![c] = q]
    BY <1>9 DEF ClientUnregister, CReturnIfLast
  <2> QED
    BY <2>1 DEF Offered, Queued
<1>10. ASSUME NEW c \in ClientSockets, NEW t \in Sessions, ClientEndSession(c, t)
       PROVE  Offered(s)
  <2>1. /\ UNCHANGED <<toAgent, atAgent, cCur>>
        /\ \E q \in {"done", "ending"} : cState' = [cState EXCEPT ![c] = q]
    BY <1>10 DEF ClientEndSession, CReturnIfLast
  <2> QED
    BY <2>1 DEF Offered, Queued
<1>11. ASSUME NEW c \in ClientSockets,
              ClientForward(c) \/ ClientConnect(c) \/ ClientDisconnect(c)
       PROVE  Offered(s)
  <2>1. /\ UNCHANGED <<toAgent, atAgent, cCur>>
        /\ \/ cState' = cState
           \/ \E q \in {"running", "closing"} :
                 cState' = [cState EXCEPT ![c] = q]
    BY <1>11 DEF ClientForward, ClientConnect, ClientDisconnect, CStep
  <2> QED
    BY <2>1 DEF Offered, Queued
<1>12. ASSUME NEW c \in ClientSockets, NEW t \in Sessions,
              ClientConnectRequest(c, t)
       PROVE  Offered(s)
  <2>1. /\ UNCHANGED <<toAgent, atAgent>>
        /\ cState' = [cState EXCEPT ![c] = "registering"]
        /\ cCur' = [cCur EXCEPT ![c] = t]
    BY <1>12 DEF ClientConnectRequest, CStep
  <2> QED
    BY <2>1 DEF Offered, Queued
<1>13. ASSUME NEW c \in ClientSockets, NEW t \in Sessions,
              ClientSignalingOffer(c, t)
       PROVE  Offered(s) \/ s = t
  <2>1. /\ UNCHANGED <<toAgent, atAgent>>
        /\ cState' = [cState EXCEPT ![c] = "notifying"]
        /\ cCur' = [cCur EXCEPT ![c] = t]
    BY <1>13 DEF ClientSignalingOffer, CStep
  <2> QED
    BY <2>1 DEF Offered, Queued
<1>14. CASE ServerCrash
  <2>1. ~Offered(s)'
    BY <1>14 DEF ServerCrash, ClientLive, Offered, Queued
  <2> QED
    BY <2>1
<1>15. UNCHANGED vars => UNCHANGED <<toAgent, atAgent, cState, cCur>>
  BY DEF vars
<1>16. CASE \E a \in AgentSockets : AgentTask(a)
  BY <1>1, <1>2, <1>3, <1>4, <1>5, <1>16 DEF AgentTask
<1>17. CASE \E c \in ClientSockets : ClientTask(c)
  BY <1>7, <1>8, <1>9, <1>10, <1>11, <1>17 DEF ClientTask
<1>18. CASE Environment
  BY <1>1, <1>3, <1>5, <1>6, <1>11, <1>12, <1>13, <1>18 DEF Environment
<1> QED
  BY <1>1, <1>6, <1>14, <1>15, <1>16, <1>17, <1>18 DEF Next, Finished

\* A session is held from its ConnectRequest on.
LEMMA HeldSteps ==
  ASSUME TypeOK, [Next]_vars, NEW s \in Sessions, Held(s)'
  PROVE  Held(s) \/ \E c \in ClientSockets : ClientConnectRequest(c, s)
<1> USE RelayAssumption DEF TypeOK, TypeClients, clientVars, HandlersHaveASession
<1>1. CASE UNCHANGED <<cState, cCur, owned>>
  BY <1>1 DEF Held
<1>2. ASSUME NEW a \in AgentSockets,
             \/ AgentTask(a) \/ AgentConnect(a) \/ AgentDisconnect(a)
             \/ \E t \in Sessions : AgentAnswer(a, t)
      PROVE  UNCHANGED <<cState, cCur, owned>>
  BY <1>2 DEF AgentTask, AgentMarkOnline, AgentRegister, AgentForward,
              AgentSuperseded, AgentRelayAnswer, AgentUnregister,
              AgentMarkOffline, AgentEndSessions, AgentConnect,
              AgentDisconnect, AgentAnswer
<1>3. ASSUME NEW t \in Sessions, ConnectInsert(t) \/ ConnectCheck(t)
      PROVE  UNCHANGED <<cState, cCur, owned>>
  BY <1>3 DEF ConnectInsert, ConnectCheck
<1>4. ASSUME NEW c \in ClientSockets, ClientRegister(c)
      PROVE  Held(s)
  <2>1. /\ cState[c] = "registering"
        /\ owned' = [owned EXCEPT ![c] = @ \cup {cCur[c]}]
        /\ \E q \in {"notifying", "running"} : cState' = [cState EXCEPT ![c] = q]
        /\ \A b \in ClientSockets \ {c} : cCur'[b] = cCur[b]
    BY <1>4 DEF ClientRegister, Statement
  <2> QED
    BY <2>1 DEF Held
<1>5. ASSUME NEW c \in ClientSockets,
             \/ ClientNotify(c) \/ ClientForward(c) \/ ClientConnect(c)
             \/ ClientDisconnect(c)
             \/ \E t \in Sessions : ClientSignalingOffer(c, t)
      PROVE  Held(s)
  <2>1. /\ owned' = owned
        /\ \/ UNCHANGED <<cState, cCur>>
           \/ \E q \in {"running", "closing", "notifying"} :
                 cState' = [cState EXCEPT ![c] = q]
        /\ \A b \in ClientSockets \ {c} : cCur'[b] = cCur[b]
    BY <1>5 DEF ClientNotify, ClientForward, ClientConnect, ClientDisconnect,
                ClientSignalingOffer, CStep
  <2> QED
    BY <2>1 DEF Held
<1>6. ASSUME NEW c \in ClientSockets, NEW t \in Sessions,
             ClientConnectRequest(c, t)
      PROVE  Held(s) \/ s = t
  <2>1. /\ owned' = owned
        /\ cState' = [cState EXCEPT ![c] = "registering"]
        /\ cCur' = [cCur EXCEPT ![c] = t]
    BY <1>6 DEF ClientConnectRequest, CStep
  <2> QED
    BY <2>1 DEF Held
<1>7. ASSUME NEW c \in ClientSockets,
             ClientUnregister(c) \/ \E t \in Sessions : ClientEndSession(c, t)
      PROVE  Held(s)
  <2>1. /\ cCur' = cCur
        /\ \E q \in {"done", "ending"} : cState' = [cState EXCEPT ![c] = q]
        /\ \A b \in ClientSockets : owned'[b] \subseteq owned[b]
    <3>1. CASE ClientUnregister(c)
      BY <3>1 DEF ClientUnregister, CReturnIfLast
    <3>2. ASSUME NEW t \in Sessions, ClientEndSession(c, t)
          PROVE  /\ cCur' = cCur
                 /\ \E q \in {"done", "ending"} :
                       cState' = [cState EXCEPT ![c] = q]
                 /\ \A b \in ClientSockets : owned'[b] \subseteq owned[b]
      BY <3>2 DEF ClientEndSession, CReturnIfLast
    <3> QED
      BY <1>7, <3>1, <3>2
  <2> QED
    BY <2>1 DEF Held
<1>8. ServerCrash => ~Held(s)'
  BY DEF ServerCrash, ClientLive, Held
<1>9. UNCHANGED vars => UNCHANGED <<cState, cCur, owned>>
  BY DEF vars
<1> QED
  BY <1>1, <1>2, <1>3, <1>4, <1>5, <1>6, <1>7, <1>8, <1>9
     DEF Next, ClientTask, Environment, Finished

\* Every step puts the row before what refers to it.
LEMMA RowsStep ==
  TypeOK /\ RowsComeFirst /\ [Next]_vars => RowsComeFirst'
<1> SUFFICES ASSUME TypeOK, RowsComeFirst, [Next]_vars, NEW s \in Sessions
             PROVE  /\ s \in checked' => status'[s] = "none"
                    /\ Offered(s)' \/ Held(s)' => status'[s] # "none"
  BY DEF RowsComeFirst
<1>1. status[s] # "none" => status'[s] # "none"
  BY StatusSteps DEF ConnectInsert, TypeOK, TypeDb, Statement
<1>2. ASSUME Offered(s)' \/ Held(s)'
      PROVE  status'[s] # "none"
  <2>1. CASE Offered(s) \/ Held(s)
    BY <1>1, <2>1 DEF RowsComeFirst
  <2>2. ASSUME NEW c \in ClientSockets,
               ClientConnectRequest(c, s) \/ ClientSignalingOffer(c, s)
        PROVE  status'[s] # "none"
    BY <1>1, <2>2 DEF ClientConnectRequest, ClientSignalingOffer, OwnsSession
  <2>3. ASSUME NEW c \in ClientSockets, ClientRegister(c), cCur[c] = s
        PROVE  Held(s)
    BY <2>3 DEF ClientRegister, Held
  <2> QED
    BY <1>2, <2>1, <2>2, <2>3, OfferedSteps, HeldSteps
<1>3. ASSUME s \in checked'
      PROVE  status'[s] = "none"
  <2>1. \/ s \in checked
        \/ ConnectCheck(s)
    <3>1. ASSUME NEW t \in Sessions, ConnectCheck(t)
          PROVE  s \in checked \/ s = t
      BY <1>3, <3>1 DEF ConnectCheck
    <3>2. ASSUME NEW t \in Sessions, ConnectInsert(t)
          PROVE  s \in checked
      BY <1>3, <3>2 DEF ConnectInsert
    <3>3. ServerCrash => FALSE
      BY <1>3 DEF ServerCrash
    <3>4. ASSUME NEW a \in AgentSockets,
                 \/ AgentTask(a) \/ AgentConnect(a) \/ AgentDisconnect(a)
                 \/ \E t \in Sessions : AgentAnswer(a, t)
          PROVE  checked' = checked
      BY <3>4 DEF AgentTask, AgentMarkOnline, AgentRegister, AgentForward,
                  AgentSuperseded, AgentRelayAnswer, AgentUnregister,
                  AgentMarkOffline, AgentEndSessions, AgentConnect,
                  AgentDisconnect, AgentAnswer, mapVars
    <3>5. ASSUME NEW c \in ClientSockets,
                 \/ ClientTask(c) \/ ClientConnect(c) \/ ClientDisconnect(c)
                 \/ \E t \in Sessions : ClientConnectRequest(c, t)
                                        \/ ClientSignalingOffer(c, t)
          PROVE  checked' = checked
      BY <3>5 DEF ClientTask, ClientRegister, ClientNotify, ClientForward,
                  ClientUnregister, ClientEndSession, ClientConnect,
                  ClientDisconnect, ClientConnectRequest,
                  ClientSignalingOffer, mapVars
    <3>6. UNCHANGED vars => checked' = checked
      BY DEF vars, mapVars
    <3> QED
      BY <1>3, <3>1, <3>2, <3>3, <3>4, <3>5, <3>6
         DEF Next, Environment, Finished
  <2>2. ConnectInsert(s) => s \notin checked'
    BY DEF ConnectInsert
  <2>3. status[s] = "none"
    BY <2>1 DEF RowsComeFirst, ConnectCheck
  <2>4. ASSUME NEW a \in AgentSockets, AgentAnswer(a, s), status[s] = "pending"
        PROVE  FALSE
    BY <2>3, <2>4
  <2> QED
    BY <1>3, <2>2, <2>3, <2>4, StatusSteps
<1> QED
  BY <1>2, <1>3

\* A row is inserted once, and before anyone names it.
THEOREM RowsFirst == Spec => []RowsComeFirst
<1>1. Init => RowsComeFirst
  BY DEF Init, RowsComeFirst, Offered, Held, Queued
<1> QED
  BY <1>1, RowsStep, TypeCorrect, PTL DEF Spec

-----------------------------------------------------------------------------
(* Active sessions.                                                        *)

\* The user's clients are all apps/client.
PlainUser(s) == \A c \in RawClients : ClientUser[c] # SessionUser[s]

\* A session that is active, or pending and offered, has an owner.
OfferedHasAnOwner ==
    faults = 0 => \A s \in Sessions :
        /\ PlainUser(s)
        /\ status[s] = "active" \/ (status[s] = "pending" /\ Offered(s))
        => \E c \in ClientSockets : s \in owned[c]

\* A session is disowned only by being ended, or by a crash.
LEMMA OwnedSteps ==
  ASSUME TypeOK, [Next]_vars, NEW s \in Sessions, NEW c \in ClientSockets,
         s \in owned[c]
  PROVE  s \in owned'[c] \/ ServerCrash \/ ClientEndSession(c, s)
<1> USE DEF TypeOK, TypeClients, clientVars
<1>1. ASSUME NEW a \in AgentSockets,
             \/ AgentTask(a) \/ AgentConnect(a) \/ AgentDisconnect(a)
             \/ \E t \in Sessions : AgentAnswer(a, t)
      PROVE  owned' = owned
  BY <1>1 DEF AgentTask, AgentMarkOnline, AgentRegister, AgentForward,
              AgentSuperseded, AgentRelayAnswer, AgentUnregister,
              AgentMarkOffline, AgentEndSessions, AgentConnect,
              AgentDisconnect, AgentAnswer
<1>2. ASSUME NEW t \in Sessions, ConnectInsert(t) \/ ConnectCheck(t)
      PROVE  owned' = owned
  BY <1>2 DEF ConnectInsert, ConnectCheck
<1>3. ASSUME NEW b \in ClientSockets, ClientRegister(b)
      PROVE  s \in owned'[c]
  BY <1>3 DEF ClientRegister
<1>4. ASSUME NEW b \in ClientSockets, NEW t \in Sessions, ClientEndSession(b, t)
      PROVE  s \in owned'[c] \/ ClientEndSession(c, s)
  <2>1. owned' = [owned EXCEPT ![b] = @ \ {t}]
    BY <1>4 DEF ClientEndSession
  <2>2. CASE b = c /\ t = s
    BY <1>4, <2>2
  <2>3. CASE ~(b = c /\ t = s)
    BY <2>1, <2>3
  <2> QED
    BY <2>2, <2>3
<1>5. ASSUME NEW b \in ClientSockets,
             \/ ClientNotify(b) \/ ClientForward(b) \/ ClientUnregister(b)
             \/ ClientConnect(b) \/ ClientDisconnect(b)
             \/ \E t \in Sessions : ClientConnectRequest(b, t)
                                    \/ ClientSignalingOffer(b, t)
      PROVE  owned' = owned
  BY <1>5 DEF ClientNotify, ClientForward, ClientUnregister, ClientConnect,
              ClientDisconnect, ClientConnectRequest, ClientSignalingOffer
<1>6. UNCHANGED vars => owned' = owned
  BY DEF vars
<1> QED
  BY <1>1, <1>2, <1>3, <1>4, <1>5, <1>6
     DEF Next, ClientTask, Environment, Finished

\* Every step leaves an owner to a session that is offered.
LEMMA OwnerStep ==
  TypeOK /\ RowsComeFirst /\ OfferedHasAnOwner /\ [Next]_vars
    => OfferedHasAnOwner'
<1> SUFFICES ASSUME TypeOK, RowsComeFirst, OfferedHasAnOwner, [Next]_vars,
                    faults' = 0, NEW s \in Sessions, PlainUser(s),
                    status'[s] = "active"
                      \/ (status'[s] = "pending" /\ Offered(s)')
             PROVE  \E c \in ClientSockets : s \in owned'[c]
  BY DEF OfferedHasAnOwner, PlainUser
<1>1. faults = 0
  BY FaultsGrow DEF TypeOK
<1>2. ASSUME NEW c \in ClientSockets, ClientRegister(c), cCur[c] = s
      PROVE  s \in owned'[c]
  BY <1>2 DEF ClientRegister, TypeOK, TypeClients
<1>3. ASSUME NEW c \in ClientSockets, ClientSignalingOffer(c, s)
      PROVE  FALSE
  BY <1>3, RelayAssumption DEF ClientSignalingOffer, OwnsSession, PlainUser
<1>4. ASSUME NEW a \in AgentSockets, AgentAnswer(a, s)
      PROVE  Offered(s)
  BY <1>4 DEF AgentAnswer, Offered
<1>5. ASSUME status[s] = "active" \/ (status[s] = "pending" /\ Offered(s))
      PROVE  \E c \in ClientSockets : s \in owned'[c]
  <2>1. PICK c \in ClientSockets : s \in owned[c]
    BY <1>1, <1>5 DEF OfferedHasAnOwner
  <2>2. ~ServerCrash
    BY <1>1 DEF ServerCrash
  <2>3. ASSUME ClientEndSession(c, s)
        PROVE  status'[s] = "ended"
    <3>1. MarkEnded({s})
      BY <1>1, <2>3 DEF ClientEndSession, Statement
    <3>2. status[s] # "none"
      BY <1>5
    <3> QED
      BY <3>1, <3>2 DEF MarkEnded
  <2> QED
    BY <2>1, <2>2, <2>3, OwnedSteps
<1>6. CASE Offered(s)
  <2>1. status[s] # "none"
    BY <1>6 DEF RowsComeFirst
  <2>2. ~ConnectInsert(s)
    BY <2>1 DEF ConnectInsert, RowsComeFirst
  <2>3. status[s] \in {"pending", "active"}
    BY <2>1, <2>2, StatusSteps
  <2> QED
    BY <1>5, <1>6, <2>3
<1>7. CASE ~Offered(s)
  <2>1. CASE Offered(s)'
    BY <1>2, <1>3, <1>7, <2>1, OfferedSteps
  <2>2. CASE ~Offered(s)'
    <3>1. status'[s] = "active"
      BY <2>2
    <3>2. ~ConnectInsert(s)
      BY <1>1, <3>1 DEF ConnectInsert, Statement, TypeOK, TypeDb
    <3>3. status[s] = "active"
      BY <1>4, <1>7, <3>1, <3>2, StatusSteps
    <3> QED
      BY <1>5, <3>3
  <2> QED
    BY <2>1, <2>2
<1> QED
  BY <1>6, <1>7

\* An active session of a user of apps/client has a client socket that will end
\* it, as long as no statement failed and the server did not crash: an answer
\* that comes after the client left activates nothing.
THEOREM ActiveSessions == Spec => []ActiveSessionHasAnOwner
<1>1. Init => OfferedHasAnOwner
  BY DEF Init, OfferedHasAnOwner
<1>2. OfferedHasAnOwner => ActiveSessionHasAnOwner
  BY DEF OfferedHasAnOwner, ActiveSessionHasAnOwner, PlainUser
<1> QED
  BY <1>1, <1>2, OwnerStep, RowsFirst, TypeCorrect, PTL DEF Spec

-----------------------------------------------------------------------------
(* The refinement.                                                         *)

\* Who is served changes when a socket registers, and in a crash.
LEMMA ServedSteps ==
  ASSUME TypeOK, [Next]_vars
  PROVE  \/ \E a \in AgentSockets : AgentRegister(a)
         \/ ServerCrash
         \/ Served' = Served
<1> USE DEF TypeOK, TypeAgents, Served
<1>1. CASE UNCHANGED slotVars
  BY <1>1 DEF slotVars
<1>2. ASSUME NEW a \in AgentSockets, AgentMarkOnline(a)
      PROVE  Served' = Served
  BY <1>2 DEF AgentMarkOnline, AStep
<1>3. ASSUME NEW a \in AgentSockets, AgentUnregister(a)
      PROVE  Served' = Served
  BY <1>3 DEF AgentUnregister, AReturn
<1>4. ASSUME NEW a \in AgentSockets,
             NEW q \in {<<"idle", "opening">>, <<"running", "closing">>,
                        <<"running", "answering">>, <<"answering", "running">>,
                        <<"offlining", "ending">>},
             AStep(a, q[1], q[2])
      PROVE  Served' = Served
  BY <1>4 DEF AStep
<1>5. ASSUME NEW a \in AgentSockets, aState[a] = "ending", AReturn(a)
      PROVE  Served' = Served
  BY <1>5 DEF AReturn
<1> QED
  BY <1>1, <1>2, <1>3, <1>4, <1>5, SlotSteps

\* The slots and the sessions seldom move together: never, but for one.
LEMMA StatusMovers ==
  ASSUME TypeOK, [Next]_vars
  PROVE  \/ status' = status
         \/ \E s \in Sessions : ConnectInsert(s)
         \/ \E a \in AgentSockets, s \in Sessions : AgentAnswer(a, s)
         \/ \E a \in AgentSockets : AgentEndSessions(a)
         \/ \E c \in ClientSockets, s \in Sessions : ClientEndSession(c, s)
<1>1. ASSUME NEW a \in AgentSockets,
             \/ AgentMarkOnline(a) \/ AgentRegister(a) \/ AgentForward(a)
             \/ AgentSuperseded(a) \/ AgentRelayAnswer(a) \/ AgentUnregister(a)
             \/ AgentMarkOffline(a) \/ AgentConnect(a) \/ AgentDisconnect(a)
      PROVE  status' = status
  BY <1>1 DEF AgentMarkOnline, AgentRegister, AgentForward, AgentSuperseded,
              AgentRelayAnswer, AgentUnregister, AgentMarkOffline, AgentConnect,
              AgentDisconnect, dbVars
<1>2. ASSUME NEW c \in ClientSockets,
             \/ ClientRegister(c) \/ ClientNotify(c) \/ ClientForward(c)
             \/ ClientUnregister(c) \/ ClientConnect(c) \/ ClientDisconnect(c)
             \/ \E t \in Sessions : ClientConnectRequest(c, t)
                                    \/ ClientSignalingOffer(c, t)
      PROVE  status' = status
  BY <1>2 DEF ClientRegister, ClientNotify, ClientForward, ClientUnregister,
              ClientConnect, ClientDisconnect, ClientConnectRequest,
              ClientSignalingOffer, dbVars
<1>3. \A t \in Sessions : ConnectCheck(t) => status' = status
  BY DEF ConnectCheck, dbVars
<1>4. ServerCrash \/ UNCHANGED vars => status' = status
  BY DEF ServerCrash, vars, dbVars
<1> QED
  BY <1>1, <1>2, <1>3, <1>4
     DEF Next, AgentTask, ClientTask, Environment, Finished

\* Every step of the relay is one of the service, or none.
LEMMA StepRefines ==
  PartyInv /\ RowsComeFirst /\ [Next]_vars => [Service!Next]_(Service!vars)
<1> SUFFICES ASSUME PartyInv, RowsComeFirst, [Next]_vars
             PROVE  Service!Next \/ UNCHANGED <<agents, Served, status>>
  BY DEF Service!vars
<1>1. TypeOK
  BY DEF PartyInv
<1> USE <1>1, RelayAssumption
<1>2. ASSUME NEW s \in Sessions, ConnectInsert(s)
      PROVE  Service!Next \/ UNCHANGED <<agents, Served, status>>
  <2>1. UNCHANGED <<agents, Served>>
    BY <1>2 DEF ConnectInsert, agentVars, Served
  <2>2. status[s] = "none"
    BY <1>2 DEF ConnectInsert, RowsComeFirst
  <2>3. status' = status \/ status' = [status EXCEPT ![s] = "pending"]
    BY <1>2 DEF ConnectInsert, Statement
  <2> QED
    BY <2>1, <2>2, <2>3 DEF Service!Next, Service!Provision
<1>3. ASSUME NEW a \in AgentSockets, NEW s \in Sessions, AgentAnswer(a, s)
      PROVE  Service!Next \/ UNCHANGED <<agents, Served, status>>
  <2>1. agents' = agents
    BY <1>3 DEF AgentAnswer, mapVars
  <2>2. Served' = Served
    BY <1>3 DEF AgentAnswer, Served, Statement, TypeOK, TypeAgents
  <2>3. a \in Served /\ AgentMachine[a] = SessionMachine[s]
    BY <1>3 DEF AgentAnswer, Served, PartyInv, AgentsReceiveOwn
  <2>4. status' = status \/ MarkActive(s)
    BY <1>3 DEF AgentAnswer, Statement
  <2>5. CASE MarkActive(s) /\ status[s] = "pending"
    <3>1. status' = [status EXCEPT ![s] = "active"]
      BY <2>5 DEF MarkActive
    <3> QED
      BY <2>1, <2>2, <2>3, <2>5, <3>1 DEF Service!Next, Service!Activate
  <2>6. CASE MarkActive(s) /\ status[s] # "pending"
    <3>1. status' = status
      BY <2>6 DEF MarkActive, TypeOK, TypeDb
    <3> QED
      BY <2>1, <2>2, <3>1
  <2> QED
    BY <2>1, <2>2, <2>4, <2>5, <2>6
<1>4. ASSUME NEW S \in SUBSET Sessions, MarkEnded(S), UNCHANGED <<agents, Served>>
      PROVE  Service!Next
  <2> DEFINE T == {s \in S : status[s] \in {"pending", "active"}}
  <2>1. status' = [s \in Sessions |-> IF s \in T THEN "ended" ELSE status[s]]
    BY <1>4 DEF MarkEnded, TypeOK, TypeDb, Status
  <2>2. Service!End(T)
    BY <1>4, <2>1 DEF Service!End
  <2> QED
    BY <2>2 DEF Service!Next
<1>5. ASSUME NEW a \in AgentSockets, AgentEndSessions(a)
      PROVE  Service!Next \/ UNCHANGED <<agents, Served, status>>
  <2>1. UNCHANGED <<agents, Served>>
    BY <1>5 DEF AgentEndSessions, AReturn, mapVars, Served, TypeOK, TypeAgents
  <2>2. MarkEnded(SessionsOf(AgentMachine[a])) \/ status' = status
    BY <1>5 DEF AgentEndSessions, Statement
  <2> QED
    BY <1>4, <2>1, <2>2 DEF SessionsOf
<1>6. ASSUME NEW c \in ClientSockets, NEW s \in Sessions, ClientEndSession(c, s)
      PROVE  Service!Next \/ UNCHANGED <<agents, Served, status>>
  <2>1. UNCHANGED <<agents, Served>>
    BY <1>6 DEF ClientEndSession, mapVars, agentVars, Served
  <2>2. MarkEnded({s}) \/ status' = status
    BY <1>6 DEF ClientEndSession, Statement
  <2> QED
    BY <1>4, <2>1, <2>2
<1>7. CASE status' = status
  <2>1. ASSUME NEW a \in AgentSockets, AgentRegister(a)
        PROVE  Service!Next
    <3>1. a \notin Served /\ Served' = Served \cup {a}
      BY <2>1 DEF AgentRegister, AStep, Served, TypeOK, TypeAgents
    <3>2. agents' = [agents EXCEPT ![AgentMachine[a]] = a]
      BY <2>1 DEF AgentRegister
    <3> QED
      BY <1>7, <3>1, <3>2 DEF Service!Next, Service!Register
  <2>2. CASE ServerCrash
    <3>1. Served \subseteq Served' /\ Served' \subseteq AgentSockets
      BY <2>2 DEF ServerCrash, Served, AgentLive, TypeOK, TypeAgents
    <3> QED
      BY <1>7, <2>2, <3>1 DEF ServerCrash, Service!Next, Service!Restart
  <2>3. ASSUME NEW a \in AgentSockets, AgentUnregister(a), Served' = Served
        PROVE  Service!Next \/ UNCHANGED <<agents, Served, status>>
    <3>1. CASE IsCurrent(a)
      <4>1. /\ agents[AgentMachine[a]] # None
            /\ agents' = [agents EXCEPT ![AgentMachine[a]] = None]
            /\ AgentMachine[a] \in Machines
        BY <2>3, <3>1 DEF AgentUnregister, IsCurrent
      <4> QED
        BY <1>7, <2>3, <4>1 DEF Service!Next, Service!Release
    <3>2. CASE ~IsCurrent(a)
      BY <1>7, <2>3, <3>2 DEF AgentUnregister
    <3> QED
      BY <3>1, <3>2
  <2>4. CASE agents' = agents /\ Served' = Served
    BY <1>7, <2>4
  <2>5. ASSUME NEW a \in AgentSockets, AgentMarkOnline(a)
        PROVE  agents' = agents
    BY <2>5 DEF AgentMarkOnline
  <2> QED
    BY <2>1, <2>2, <2>3, <2>4, <2>5, SlotSteps, ServedSteps DEF slotVars
<1> QED
  BY <1>2, <1>3, <1>5, <1>6, <1>7, StatusMovers

\* The relay implements its one-step specification, whatever the interleaving
\* of tasks and requests, the statements that fail and the crashes.
THEOREM RelayImplementsService == Spec => ImplementsService
<1>1. Init => Service!Init
  <2>1. Init => Served = {}
    BY DEF Init, Served
  <2> QED
    BY <2>1 DEF Init, Service!Init
<1> QED
  BY <1>1, StepRefines, PartyInvariant, RowsFirst, PTL
     DEF Spec, ImplementsService, Service!Spec

-----------------------------------------------------------------------------
(* What the service promises, said of the relay.                           *)

\* A session goes forward: it is recorded, activated once if at all, by an agent
\* of its machine, and ended for good.
SessionsGoForward ==
    \A s \in Sessions :
        \/ status'[s] = status[s]
        \/ status[s] = "none" /\ status'[s] = "pending"
        \/ /\ status[s] = "pending" /\ status'[s] = "active"
           /\ \E a \in Served : AgentMachine[a] = SessionMachine[s]
        \/ status[s] \in {"pending", "active"} /\ status'[s] = "ended"

\* A slot goes to a socket that never had one; and who had one is known from then on.
SlotsGoToNewcomers ==
    /\ Served \subseteq Served'
    /\ \A m \in Machines :
          agents'[m] # agents[m] /\ agents'[m] # None => agents'[m] \in Served' \ Served

\* A step of the service does no other.
LEMMA ServiceSteps ==
  ASSUME TypeOK, [Service!Next]_(Service!vars)
  PROVE  SessionsGoForward /\ SlotsGoToNewcomers
<1>0. /\ status \in [Sessions -> Status] /\ agents \in [Machines -> AgentSockets \cup {None}]
      /\ Served \subseteq AgentSockets
  BY DEF TypeOK, TypeDb, TypeMaps, Served
<1>1. CASE UNCHANGED <<agents, Served, status>>
  BY <1>1 DEF SessionsGoForward, SlotsGoToNewcomers
<1>2. ASSUME NEW a \in AgentSockets, Service!Register(a)
      PROVE  SessionsGoForward /\ SlotsGoToNewcomers
  BY <1>0, <1>2 DEF Service!Register, SessionsGoForward, SlotsGoToNewcomers
<1>3. ASSUME NEW m \in Machines, Service!Release(m)
      PROVE  SessionsGoForward /\ SlotsGoToNewcomers
  BY <1>0, <1>3 DEF Service!Release, SessionsGoForward, SlotsGoToNewcomers
<1>4. CASE Service!Restart
  BY <1>0, <1>4 DEF Service!Restart, SessionsGoForward, SlotsGoToNewcomers
<1>5. ASSUME NEW s \in Sessions, Service!Provision(s) \/ Service!Activate(s)
      PROVE  SessionsGoForward /\ SlotsGoToNewcomers
  BY <1>0, <1>5 DEF Service!Provision, Service!Activate, SessionsGoForward, SlotsGoToNewcomers
<1>6. ASSUME NEW S \in SUBSET Sessions, Service!End(S)
      PROVE  SessionsGoForward /\ SlotsGoToNewcomers
  BY <1>0, <1>6 DEF Service!End, SessionsGoForward, SlotsGoToNewcomers
<1> QED
  BY <1>1, <1>2, <1>3, <1>4, <1>5, <1>6 DEF Service!Next, Service!vars

\* Whatever the interleaving of tasks and the faults, no answer, crash or late
\* cleanup takes a session back or revives it, and no socket comes back to a
\* slot it lost (mark_session_active, mark_session_ended, register_agent).
THEOREM RelayPromises == Spec => [][SessionsGoForward /\ SlotsGoToNewcomers]_vars
<1>1. PartyInv /\ RowsComeFirst /\ [Next]_vars => SessionsGoForward /\ SlotsGoToNewcomers
  BY StepRefines, ServiceSteps DEF PartyInv
<1> QED
  BY <1>1, PartyInvariant, RowsFirst, PTL DEF Spec

-----------------------------------------------------------------------------
(* A client that leaves.                                                   *)

\* The cleanup of a client socket takes up no session, and lets go of one only
\* when its row is ended, or when a statement fails or the server crashes.
CleanupEndsOwned ==
    \A c \in ClientSockets : cState[c] \in {"closing", "ending"} =>
        /\ owned'[c] \subseteq owned[c]
        /\ \A s \in owned[c] :
              \/ cState'[c] \in {"closing", "ending"} /\ s \in owned'[c]
              \/ status'[s] = "ended"
              \/ faults' # faults

\* A step of another task, or of the cleanup itself, leaves a socket in it.
LEMMA CleanupSteps ==
  ASSUME TypeOK, [Next]_vars, NEW c \in ClientSockets, cState[c] \in {"closing", "ending"}
  PROVE  \/ cState'[c] = cState[c] /\ owned'[c] = owned[c]
         \/ ServerCrash
         \/ ClientUnregister(c)
         \/ \E s \in Sessions : ClientEndSession(c, s)
<1> USE DEF TypeOK, TypeClients, clientVars
<1>1. ASSUME NEW a \in AgentSockets,
             \/ AgentTask(a) \/ AgentConnect(a) \/ AgentDisconnect(a)
             \/ \E t \in Sessions : AgentAnswer(a, t)
      PROVE  owned' = owned /\ cState' = cState
  BY <1>1 DEF AgentTask, AgentMarkOnline, AgentRegister, AgentForward,
              AgentSuperseded, AgentRelayAnswer, AgentUnregister,
              AgentMarkOffline, AgentEndSessions, AgentConnect,
              AgentDisconnect, AgentAnswer
<1>2. ASSUME NEW t \in Sessions, ConnectInsert(t) \/ ConnectCheck(t)
      PROVE  owned' = owned /\ cState' = cState
  BY <1>2 DEF ConnectInsert, ConnectCheck
<1>3. ASSUME NEW b \in ClientSockets, b # c, ClientTask(b)
      PROVE  cState'[c] = cState[c] /\ owned'[c] = owned[c]
  BY <1>3 DEF ClientTask, ClientRegister, ClientNotify, ClientForward, ClientUnregister,
              ClientEndSession, CReturnIfLast, CStep, Statement
<1>4. ASSUME NEW b \in ClientSockets,
             \/ ClientConnect(b) \/ ClientDisconnect(b)
             \/ \E t \in Sessions : ClientConnectRequest(b, t)
                                    \/ ClientSignalingOffer(b, t)
      PROVE  cState'[c] = cState[c] /\ owned'[c] = owned[c]
  BY <1>4 DEF ClientConnect, ClientDisconnect, ClientConnectRequest, ClientSignalingOffer, CStep
<1>5. ~ClientRegister(c) /\ ~ClientNotify(c) /\ ~ClientForward(c)
  BY DEF ClientRegister, ClientNotify, ClientForward, CStep
<1>6. UNCHANGED vars => owned' = owned /\ cState' = cState
  BY DEF vars
<1>7. ClientTask(c) => ClientUnregister(c) \/ \E s \in Sessions : ClientEndSession(c, s)
  BY <1>5 DEF ClientTask
<1> QED
  BY <1>1, <1>2, <1>3, <1>4, <1>6, <1>7 DEF Next, Environment, Finished

\* Every step of the cleanup keeps or ends what the socket owned.
LEMMA CleanupEnds ==
  ASSUME TypeOK, RowsComeFirst, [Next]_vars, NEW c \in ClientSockets,
         cState[c] \in {"closing", "ending"}
  PROVE  /\ owned'[c] \subseteq owned[c]
         /\ \A s \in owned[c] :
               \/ cState'[c] \in {"closing", "ending"} /\ s \in owned'[c]
               \/ status'[s] = "ended"
               \/ faults' # faults
<1>0. /\ cState \in [ClientSockets -> ClientState] /\ owned \in [ClientSockets -> SUBSET Sessions]
      /\ owned[c] \subseteq Sessions /\ faults \in Nat
  BY RelayAssumption DEF TypeOK, TypeClients
<1>1. CASE ServerCrash
  <2>1. faults' = faults + 1 /\ owned'[c] = {}
    BY <1>1 DEF ServerCrash
  <2> QED
    BY <1>0, <2>1
<1>2. CASE ClientUnregister(c)
  <2>1. owned' = owned
    BY <1>2 DEF ClientUnregister
  <2>2. owned[c] # {} => cState'[c] = "ending"
    BY <1>0, <1>2 DEF ClientUnregister, CReturnIfLast
  <2> QED
    BY <2>1, <2>2
<1>3. ASSUME NEW t \in Sessions, ClientEndSession(c, t)
      PROVE  /\ owned'[c] \subseteq owned[c]
             /\ \A s \in owned[c] :
                   \/ cState'[c] \in {"closing", "ending"} /\ s \in owned'[c]
                   \/ status'[s] = "ended"
                   \/ faults' # faults
  <2>1. owned'[c] = owned[c] \ {t} /\ t \in owned[c]
    BY <1>0, <1>3 DEF ClientEndSession
  <2>2. owned'[c] # {} => cState'[c] = "ending"
    BY <1>0, <1>3, <2>1 DEF ClientEndSession, CReturnIfLast
  <2>3. status[t] # "none"
    BY <2>1 DEF RowsComeFirst, Held
  <2>4. status'[t] = "ended" \/ faults' # faults
    <3>1. MarkEnded({t}) \/ faults' = faults + 1
      BY <1>3 DEF ClientEndSession, Statement
    <3>2. MarkEnded({t}) => status'[t] = "ended"
      BY <2>3 DEF MarkEnded
    <3> QED
      BY <1>0, <3>1, <3>2
  <2> QED
    BY <2>1, <2>2, <2>4
<1> QED
  BY <1>1, <1>2, <1>3, CleanupSteps

\* When a client's socket goes, each session it owned is ended or still to be
\* ended by its cleanup, which goes through them one at a time and returns after
\* the last: the safety part of LeavingClientEndsSessions (handle_client_socket).
THEOREM LeavingClients == Spec => [][CleanupEndsOwned]_vars
<1>1. TypeOK /\ RowsComeFirst /\ [Next]_vars => CleanupEndsOwned
  BY CleanupEnds DEF CleanupEndsOwned
<1> QED
  BY <1>1, TypeCorrect, RowsFirst, PTL DEF Spec

-----------------------------------------------------------------------------
(* Messages on their way.                                                  *)

\* A channel changes at its ends: a message is put in behind the others, or the
\* first is taken out and given to the peer.
InOrder(q, p, given) ==
    \/ p = q
    \/ \E s \in Sessions : p = Append(q, s)
    \/ q # <<>> /\ p = Tail(q) /\ Head(q) \in given

\* The channel of a loop that goes on changes in order; and an answer that is
\* being relayed is put into the channel of the client registered for its
\* session, if there is one, unless the server crashes.
NothingOvertakes ==
    /\ \A a \in AgentSockets :
          InLoop(a) /\ InLoop(a)' => InOrder(toAgent[a], toAgent'[a], atAgent'[a])
    /\ \A c \in ClientSockets :
          Serving(c) /\ Serving(c)' => InOrder(toClient[c], toClient'[c], got'[c])
    /\ \A a \in AgentSockets : aState[a] = "answering" =>
          \/ aState'[a] = "answering" /\ aCur'[a] = aCur[a]
          \/ clients[aCur[a]] = None
          \/ toClient'[clients[aCur[a]]] = Append(toClient[clients[aCur[a]]], aCur[a])
          \/ faults' # faults

\* Only ClientNotify puts offers into the channel of a loop that goes on, and
\* only its own AgentForward takes them out.
LEMMA OfferSteps ==
  ASSUME TypeOK, [Next]_vars, NEW a \in AgentSockets, InLoop(a), InLoop(a)'
  PROVE  toAgent'[a] = toAgent[a] \/ AgentForward(a) \/ \E c \in ClientSockets : ClientNotify(c)
<1> USE RelayAssumption DEF TypeOK, TypeAgents
<1>1. ASSUME NEW b \in AgentSockets, b # a, AgentForward(b) \/ AgentUnregister(b) \/ AgentEndSessions(b)
      PROVE  toAgent'[a] = toAgent[a]
  BY <1>1 DEF AgentForward, AgentUnregister, AgentEndSessions, AReturn
<1>2. ~AgentUnregister(a) /\ ~AgentEndSessions(a)
  BY DEF InLoop, AgentUnregister, AgentEndSessions
<1>3. ASSUME NEW b \in AgentSockets,
             \/ AgentMarkOnline(b) \/ AgentRegister(b) \/ AgentSuperseded(b)
             \/ AgentRelayAnswer(b) \/ AgentMarkOffline(b)
             \/ AgentConnect(b) \/ AgentDisconnect(b)
             \/ \E s \in Sessions : AgentAnswer(b, s)
      PROVE  toAgent' = toAgent
  BY <1>3 DEF AgentMarkOnline, AgentRegister, AgentSuperseded, AgentRelayAnswer,
              AgentMarkOffline, AgentConnect, AgentDisconnect, AgentAnswer
<1>4. ASSUME NEW s \in Sessions, ConnectInsert(s) \/ ConnectCheck(s)
      PROVE  toAgent' = toAgent
  BY <1>4 DEF ConnectInsert, ConnectCheck, agentVars
<1>5. ASSUME NEW c \in ClientSockets,
             \/ ClientRegister(c) \/ ClientForward(c) \/ ClientUnregister(c)
             \/ ClientConnect(c) \/ ClientDisconnect(c)
             \/ \E s \in Sessions : ClientEndSession(c, s) \/ ClientConnectRequest(c, s)
                                    \/ ClientSignalingOffer(c, s)
      PROVE  toAgent' = toAgent
  BY <1>5 DEF ClientRegister, ClientForward, ClientUnregister, ClientEndSession,
              ClientConnect, ClientDisconnect, ClientConnectRequest,
              ClientSignalingOffer, agentVars
<1>6. ~ServerCrash
  BY DEF ServerCrash, InLoop, AgentLive
<1>7. UNCHANGED vars => toAgent' = toAgent
  BY DEF vars, agentVars
<1>8. ASSUME NEW b \in AgentSockets, AgentTask(b)
      PROVE  toAgent'[a] = toAgent[a] \/ AgentForward(a)
  <2>1. CASE b = a
    BY <1>2, <1>3, <1>8, <2>1, Zenon DEF AgentTask
  <2>2. CASE b # a
    BY <1>1, <1>3, <1>8, <2>2, Zenon DEF AgentTask
  <2> QED
    BY <2>1, <2>2
<1> QED
  BY <1>3, <1>4, <1>5, <1>6, <1>7, <1>8, Zenon DEF Next, ClientTask, Environment, Finished

\* Offers change their channel at its ends.
LEMMA OffersInOrder ==
  ASSUME TypeOK, [Next]_vars, NEW a \in AgentSockets, InLoop(a), InLoop(a)'
  PROVE  InOrder(toAgent[a], toAgent'[a], atAgent'[a])
<1> USE RelayAssumption DEF TypeOK, TypeMaps, TypeAgents, InOrder
<1>1. ASSUME NEW c \in ClientSockets, ClientNotify(c)
      PROVE  InOrder(toAgent[a], toAgent'[a], atAgent'[a])
  <2>1. cCur[c] \in Sessions
    BY <1>1 DEF ClientNotify, CStep, HandlersHaveASession, TypeClients
  <2>2. \/ toAgent' = toAgent
        \/ \E b \in AgentSockets : toAgent' = [toAgent EXCEPT ![b] = Append(@, cCur[c])]
    <3>1. agents[SessionMachine[cCur[c]]] \in AgentSockets \cup {None}
      BY <2>1
    <3> QED
      BY <1>1, <3>1 DEF ClientNotify
  <2>3. ASSUME NEW b \in AgentSockets, toAgent' = [toAgent EXCEPT ![b] = Append(@, cCur[c])]
        PROVE  toAgent'[a] \in {toAgent[a], Append(toAgent[a], cCur[c])}
    BY <2>3
  <2> QED
    BY <2>1, <2>2, <2>3
<1>2. CASE AgentForward(a)
  BY <1>2 DEF AgentForward
<1> QED
  BY <1>1, <1>2, OfferSteps

\* A loop whose socket lost its slot, to a newer socket or to the cleanup of a
\* newer one, does not get it back, and its channel is only emptied.
SupersededDrains ==
    \A a \in AgentSockets : InLoop(a) /\ agents[AgentMachine[a]] # a =>
        /\ agents'[AgentMachine[a]] # a
        /\ InLoop(a)' => toAgent'[a] = toAgent[a] \/ Len(toAgent'[a]) < Len(toAgent[a])

\* An offer is put into the channel of a socket that holds its machine's slot.
LEMMA NoNewOffers ==
  ASSUME TypeOK, SlotIsLive, [Next]_vars, NEW a \in AgentSockets,
         InLoop(a), InLoop(a)', agents[AgentMachine[a]] # a
  PROVE  toAgent'[a] = toAgent[a] \/ Len(toAgent'[a]) < Len(toAgent[a])
<1> USE RelayAssumption DEF TypeOK, TypeMaps, TypeAgents
<1>1. ASSUME NEW c \in ClientSockets, ClientNotify(c)
      PROVE  toAgent'[a] = toAgent[a]
  <2> DEFINE m == SessionMachine[cCur[c]]
  <2>1. m \in Machines
    BY <1>1 DEF ClientNotify, CStep, HandlersHaveASession, TypeClients
  <2>2. agents[m] # a
    <3>1. CASE agents[m] = None
      BY <3>1
    <3>2. CASE agents[m] # None
      BY <2>1, <3>2 DEF SlotIsLive
    <3> QED
      BY <3>1, <3>2
  <2>3. CASE agents[m] = None
    BY <1>1, <2>3 DEF ClientNotify
  <2>4. CASE agents[m] # None
    <3>1. toAgent' = [toAgent EXCEPT ![agents[m]] = Append(@, cCur[c])]
      BY <1>1, <2>4 DEF ClientNotify
    <3> QED
      BY <2>2, <3>1
  <2> QED
    BY <2>3, <2>4
<1>2. CASE AgentForward(a)
  <2>1. toAgent[a] \in Seq(Sessions) /\ toAgent[a] # <<>> /\ toAgent'[a] = Tail(toAgent[a])
    BY <1>2 DEF AgentForward
  <2> QED
    BY <2>1
<1> QED
  BY <1>1, <1>2, OfferSteps

\* The slot of a socket that lost it goes to others from then on, and the loop,
\* whose only sender was in the map, has no more to forward than what is left in
\* its channel: the safety part of SupersededSocketLeaves (register_agent).
THEOREM SupersededLeave == Spec => [][SupersededDrains]_vars
<1>1. ASSUME PartyInv, RowsComeFirst, [Next]_vars PROVE SupersededDrains
  <2>1. TypeOK /\ SlotInv
    BY <1>1 DEF PartyInv
  <2>2. SlotsGoToNewcomers
    BY <1>1, StepRefines, ServiceSteps DEF PartyInv
  <2>3. ASSUME NEW a \in AgentSockets, InLoop(a), agents[AgentMachine[a]] # a
        PROVE  agents'[AgentMachine[a]] # a
    <3>1. a \in Served /\ AgentMachine[a] \in Machines /\ a # None
      BY <2>3, RelayAssumption DEF Served, InLoop
    <3> QED
      BY <2>2, <2>3, <3>1 DEF SlotsGoToNewcomers
  <2> QED
    BY <1>1, <2>1, <2>3, NoNewOffers DEF SupersededDrains, SlotInv
<1> QED
  BY <1>1, PartyInvariant, RowsFirst, PTL DEF Spec

\* Answers: only AgentRelayAnswer puts in and only ClientForward takes out.
LEMMA AnswersInOrder ==
  ASSUME TypeOK, [Next]_vars, NEW c \in ClientSockets, Serving(c), Serving(c)'
  PROVE  InOrder(toClient[c], toClient'[c], got'[c])
<1> USE RelayAssumption DEF TypeOK, TypeMaps, TypeClients, InOrder
<1>1. CASE toClient' = toClient
  BY <1>1
<1>2. CASE \E q : \E b \in ClientSockets \ {c} : toClient' = [toClient EXCEPT ![b] = q]
  BY <1>2
<1>3. ASSUME NEW a \in AgentSockets, AgentRelayAnswer(a)
      PROVE  InOrder(toClient[c], toClient'[c], got'[c])
  <2>1. aCur[a] \in Sessions
    BY <1>3 DEF AgentRelayAnswer, AStep, HandlersHaveASession, TypeAgents
  <2>2. \/ toClient' = toClient
        \/ \E b \in ClientSockets : toClient' = [toClient EXCEPT ![b] = Append(@, aCur[a])]
    BY <1>3, <2>1 DEF AgentRelayAnswer
  <2>3. ASSUME NEW b \in ClientSockets, toClient' = [toClient EXCEPT ![b] = Append(@, aCur[a])]
        PROVE  toClient'[c] \in {toClient[c], Append(toClient[c], aCur[a])}
    BY <2>3
  <2> QED
    BY <1>1, <2>1, <2>2, <2>3
<1>4. ASSUME NEW b \in ClientSockets, ClientForward(b)
      PROVE  InOrder(toClient[c], toClient'[c], got'[c])
  BY <1>4 DEF ClientForward
<1>5. ASSUME NEW b \in ClientSockets,
             ClientUnregister(b) \/ \E s \in Sessions : ClientEndSession(b, s)
      PROVE  \E q : \E d \in ClientSockets \ {c} : toClient' = [toClient EXCEPT ![d] = q]
  <2>1. b # c
    BY <1>5 DEF Serving, ClientUnregister, ClientEndSession
  <2> QED
    BY <1>5, <2>1 DEF ClientUnregister, ClientEndSession, CReturnIfLast
<1>6. ASSUME NEW b \in AgentSockets,
             \/ AgentMarkOnline(b) \/ AgentRegister(b) \/ AgentForward(b) \/ AgentSuperseded(b)
             \/ AgentUnregister(b) \/ AgentMarkOffline(b) \/ AgentEndSessions(b)
             \/ AgentConnect(b) \/ AgentDisconnect(b)
             \/ \E s \in Sessions : AgentAnswer(b, s)
      PROVE  toClient' = toClient
  BY <1>6 DEF AgentMarkOnline, AgentRegister, AgentForward, AgentSuperseded, AgentUnregister,
              AgentMarkOffline, AgentEndSessions, AgentConnect, AgentDisconnect,
              AgentAnswer, clientVars
<1>7. ASSUME NEW s \in Sessions, ConnectInsert(s) \/ ConnectCheck(s)
      PROVE  toClient' = toClient
  BY <1>7 DEF ConnectInsert, ConnectCheck, clientVars
<1>8. ASSUME NEW b \in ClientSockets,
             \/ ClientRegister(b) \/ ClientNotify(b) \/ ClientConnect(b) \/ ClientDisconnect(b)
             \/ \E s \in Sessions : ClientConnectRequest(b, s) \/ ClientSignalingOffer(b, s)
      PROVE  toClient' = toClient
  BY <1>8 DEF ClientRegister, ClientNotify, ClientConnect, ClientDisconnect,
              ClientConnectRequest, ClientSignalingOffer
<1>9. ~ServerCrash
  BY DEF ServerCrash, Serving, ClientLive
<1>10. UNCHANGED vars => toClient' = toClient
  BY DEF vars, clientVars
<1> QED
  BY <1>1, <1>2, <1>3, <1>4, <1>5, <1>6, <1>7, <1>8, <1>9, <1>10
     DEF Next, AgentTask, ClientTask, Environment, Finished

\* An answer in hand is put into the channel or stays in hand.
LEMMA AnswerPutIn ==
  ASSUME TypeOK, [Next]_vars, NEW a \in AgentSockets, aState[a] = "answering"
  PROVE  \/ aState'[a] = "answering" /\ aCur'[a] = aCur[a]
         \/ clients[aCur[a]] = None
         \/ toClient'[clients[aCur[a]]] = Append(toClient[clients[aCur[a]]], aCur[a])
         \/ faults' # faults
<1> USE RelayAssumption DEF TypeOK, TypeMaps, TypeAgents, TypeClients, AStep
<1>1. CASE AgentRelayAnswer(a)
  <2>1. aCur[a] \in Sessions
    BY DEF HandlersHaveASession
  <2>2. CASE clients[aCur[a]] # None
    <3>1. clients[aCur[a]] \in ClientSockets
      BY <2>1, <2>2
    <3>2. toClient' = [toClient EXCEPT ![clients[aCur[a]]] = Append(@, aCur[a])]
      BY <1>1, <2>2 DEF AgentRelayAnswer
    <3> QED
      BY <3>1, <3>2
  <2> QED
    BY <2>2
<1>2. ASSUME NEW b \in AgentSockets, b # a,
             \/ AgentTask(b) \/ AgentConnect(b) \/ AgentDisconnect(b)
             \/ \E s \in Sessions : AgentAnswer(b, s)
      PROVE  aState'[a] = aState[a] /\ aCur'[a] = aCur[a]
  BY <1>2 DEF AgentTask, AgentMarkOnline, AgentRegister, AgentForward, AgentSuperseded,
              AgentRelayAnswer, AgentUnregister, AgentMarkOffline, AgentEndSessions,
              AgentConnect, AgentDisconnect, AgentAnswer, AReturn, Statement
<1>3. /\ ~AgentConnect(a) /\ ~AgentDisconnect(a) /\ \A s \in Sessions : ~AgentAnswer(a, s)
      /\ AgentTask(a) => AgentRelayAnswer(a)
  BY DEF AgentTask, AgentMarkOnline, AgentRegister, AgentForward, AgentSuperseded,
         AgentUnregister, AgentMarkOffline, AgentEndSessions, AgentConnect,
         AgentDisconnect, AgentAnswer
<1>4. ASSUME NEW s \in Sessions, ConnectInsert(s) \/ ConnectCheck(s)
      PROVE  aState' = aState /\ aCur' = aCur
  BY <1>4 DEF ConnectInsert, ConnectCheck, agentVars
<1>5. ASSUME NEW c \in ClientSockets,
             \/ ClientTask(c) \/ ClientConnect(c) \/ ClientDisconnect(c)
             \/ \E s \in Sessions : ClientConnectRequest(c, s) \/ ClientSignalingOffer(c, s)
      PROVE  aState' = aState /\ aCur' = aCur
  BY <1>5 DEF ClientTask, ClientRegister, ClientNotify, ClientForward, ClientUnregister,
              ClientEndSession, ClientConnect, ClientDisconnect, ClientConnectRequest,
              ClientSignalingOffer, agentVars
<1>6. CASE ServerCrash
  <2>1. faults' = faults + 1 /\ faults \in Nat
    BY <1>6 DEF ServerCrash
  <2> QED
    BY <2>1
<1>7. UNCHANGED vars => aState' = aState /\ aCur' = aCur
  BY DEF vars, agentVars
<1>8. ASSUME NEW b \in AgentSockets,
             \/ AgentTask(b) \/ AgentConnect(b) \/ AgentDisconnect(b)
             \/ \E s \in Sessions : AgentAnswer(b, s)
      PROVE  AgentRelayAnswer(a) \/ (aState'[a] = aState[a] /\ aCur'[a] = aCur[a])
  <2>1. CASE b # a
    BY <1>2, <1>8, <2>1, Zenon
  <2>2. CASE b = a
    BY <1>3, <1>8, <2>2, Zenon
  <2> QED
    BY <2>1, <2>2
<1>9. \/ aState'[a] = aState[a] /\ aCur'[a] = aCur[a]
      \/ AgentRelayAnswer(a) \/ ServerCrash
  BY <1>4, <1>5, <1>7, <1>8, Zenon DEF Next, Environment, Finished
<1> QED
  BY <1>1, <1>6, <1>9, Zenon

\* Between a loop's channel and its peer no message is lost, doubled or
\* overtaken while the loop goes on, and an answer is not given up for a full
\* channel: the safety parts of OfferReachesAgent and AnswerReachesClient
\* (notify_agent, send_to_client, the loops of the two sockets).
THEOREM MessagesKeepOrder == Spec => [][NothingOvertakes]_vars
<1>1. TypeOK /\ [Next]_vars => NothingOvertakes
  BY OffersInOrder, AnswersInOrder, AnswerPutIn DEF NothingOvertakes
<1> QED
  BY <1>1, TypeCorrect, PTL DEF Spec

=============================================================================
