---------------------- MODULE RelayBackpressureProofs ----------------------
(* Theorems about RelayBackpressure, for any number of sockets and requests *)
(* and any size of the channels.                                            *)
EXTENDS RelayBackpressure, TLAPS

\* The lock's queue keeps its type.
LEMMA QueueType ==
  ASSUME TypeLocks, NEW l \in Maps, NEW t \in Tasks,
         Await(l, t) \/ (Granted(l, t) /\ Served(l)) \/ waiting' = waiting
  PROVE  waiting' \in [Maps -> Seq(Tasks)]
<1>1. CASE Await(l, t)
  BY <1>1 DEF TypeLocks, Await
<1>2. CASE Granted(l, t) /\ Served(l)
  <2>1. Tail(waiting[l]) \in Seq(Tasks)
    BY <1>2 DEF TypeLocks, Granted
  <2> QED
    BY <1>2, <2>1 DEF TypeLocks, Served
<1>3. CASE waiting' = waiting
  BY <1>3 DEF TypeLocks
<1> QED
  BY <1>1, <1>2, <1>3

\* Every variable keeps its type; in particular no channel overflows.
THEOREM TypeCorrect == Spec => []TypeOK
<1> USE BackpressureAssumption
<1>1. Init => TypeOK
  BY DEF Init, TypeOK, TypeMaps, TypeLocks, TypeTasks, TypeChannels, Maps, State,
         Tasks
<1>2. TypeOK /\ [Next]_vars => TypeOK'
  <2> SUFFICES ASSUME TypeOK, [Next]_vars
               PROVE  TypeOK'
    OBVIOUS
  <2> USE DEF TypeOK
  <2>1. ASSUME NEW a \in AgentSockets, AgentRegister(a)
        PROVE  TypeOK'
    <3>1. TypeMaps'
      BY <2>1 DEF AgentRegister, TypeMaps
    <3>2. TypeLocks'
      <4>1. waiting' \in [Maps -> Seq(Tasks)]
        <5>1. a \in Tasks /\ "agents" \in Maps
          BY DEF Tasks, Maps
        <5> QED
          BY <2>1, <5>1, QueueType DEF AgentRegister
      <4>2. readers' \in [Maps -> SUBSET Tasks]
        BY <2>1 DEF AgentRegister, TypeLocks, Maps, Tasks
      <4> QED
        BY <4>1, <4>2 DEF TypeLocks
    <3>3. TypeTasks'
      BY <2>1 DEF AgentRegister, TypeTasks, TypeMaps, Become, State, Tasks
    <3>4. TypeChannels'
      BY <2>1 DEF AgentRegister, TypeChannels, TypeTasks, PeerSends
    <3> QED
      BY <3>1, <3>2, <3>3, <3>4
  <2>2. ASSUME NEW a \in AgentSockets, AgentLook(a)
        PROVE  TypeOK'
    <3>1. TypeMaps'
      BY <2>2 DEF AgentLook, TypeMaps
    <3>2. TypeLocks'
      <4>1. waiting' \in [Maps -> Seq(Tasks)]
        <5>1. a \in Tasks /\ "clients" \in Maps
          BY DEF Tasks, Maps
        <5> QED
          BY <2>2, <5>1, QueueType DEF AgentLook
      <4>2. readers' \in [Maps -> SUBSET Tasks]
        BY <2>2 DEF AgentLook, TypeLocks, Maps, Tasks
      <4> QED
        BY <4>1, <4>2 DEF TypeLocks
    <3>3. TypeTasks'
      BY <2>2 DEF AgentLook, TypeTasks, TypeMaps, Become, State, Tasks
    <3>4. TypeChannels'
      BY <2>2 DEF AgentLook, TypeChannels, TypeTasks, PeerSends
    <3> QED
      BY <3>1, <3>2, <3>3, <3>4
  <2>3. ASSUME NEW a \in AgentSockets, AgentPush(a)
        PROVE  TypeOK'
    <3>1. TypeMaps'
      BY <2>3 DEF AgentPush, TypeMaps
    <3>2. TypeLocks'
      BY <2>3 DEF AgentPush, TypeLocks, lockVars, Maps, Tasks
    <3>3. TypeTasks'
      BY <2>3 DEF AgentPush, TypeTasks, TypeMaps, Become, State, Tasks
    <3>4. TypeChannels'
      BY <2>3 DEF AgentPush, TypeChannels, TypeTasks, Become, Tasks
    <3> QED
      BY <3>1, <3>2, <3>3, <3>4
  <2>4. ASSUME NEW a \in AgentSockets, AgentForward(a)
        PROVE  TypeOK'
    <3>1. TypeMaps'
      BY <2>4 DEF AgentForward, TypeMaps
    <3>2. TypeLocks'
      BY <2>4 DEF AgentForward, TypeLocks, lockVars, Maps, Tasks
    <3>3. TypeTasks'
      BY <2>4 DEF AgentForward, TypeTasks, TypeMaps, Become, State, Tasks
    <3>4. TypeChannels'
      BY <2>4 DEF AgentForward, TypeChannels, TypeTasks, PeerSends
    <3> QED
      BY <3>1, <3>2, <3>3, <3>4
  <2>5. ASSUME NEW a \in AgentSockets, AgentWritten(a)
        PROVE  TypeOK'
    <3>1. TypeMaps'
      BY <2>5 DEF AgentWritten, TypeMaps
    <3>2. TypeLocks'
      BY <2>5 DEF AgentWritten, TypeLocks, lockVars, Maps, Tasks
    <3>3. TypeTasks'
      BY <2>5 DEF AgentWritten, TypeTasks, TypeMaps, Become, State, Tasks
    <3>4. TypeChannels'
      BY <2>5 DEF AgentWritten, TypeChannels, TypeTasks, PeerSends
    <3> QED
      BY <3>1, <3>2, <3>3, <3>4
  <2>6. ASSUME NEW a \in AgentSockets, AgentSuperseded(a)
        PROVE  TypeOK'
    <3>1. TypeMaps'
      BY <2>6 DEF AgentSuperseded, AgentLeave, TypeMaps
    <3>2. TypeLocks'
      <4>1. waiting' \in [Maps -> Seq(Tasks)]
        <5>1. a \in Tasks /\ "agents" \in Maps
          BY DEF Tasks, Maps
        <5> QED
          BY <2>6, <5>1, QueueType DEF AgentSuperseded, AgentLeave
      <4>2. readers' \in [Maps -> SUBSET Tasks]
        BY <2>6 DEF AgentSuperseded, AgentLeave, TypeLocks, Maps, Tasks
      <4> QED
        BY <4>1, <4>2 DEF TypeLocks
    <3>3. TypeTasks'
      BY <2>6 DEF AgentSuperseded, AgentLeave, TypeTasks, TypeMaps, Become, State, Tasks
    <3>4. TypeChannels'
      BY <2>6 DEF AgentSuperseded, AgentLeave, TypeChannels, TypeTasks, PeerSends
    <3> QED
      BY <3>1, <3>2, <3>3, <3>4
  <2>7. ASSUME NEW a \in AgentSockets, AgentUnregister(a)
        PROVE  TypeOK'
    <3>1. TypeMaps'
      BY <2>7 DEF AgentUnregister, TypeMaps
    <3>2. TypeLocks'
      <4>1. waiting' \in [Maps -> Seq(Tasks)]
        <5>1. a \in Tasks /\ "agents" \in Maps
          BY DEF Tasks, Maps
        <5> QED
          BY <2>7, <5>1, QueueType DEF AgentUnregister
      <4>2. readers' \in [Maps -> SUBSET Tasks]
        BY <2>7 DEF AgentUnregister, TypeLocks, Maps, Tasks
      <4> QED
        BY <4>1, <4>2 DEF TypeLocks
    <3>3. TypeTasks'
      BY <2>7 DEF AgentUnregister, TypeTasks, TypeMaps, Become, State, Tasks
    <3>4. TypeChannels'
      BY <2>7 DEF AgentUnregister, TypeChannels, TypeTasks, PeerSends
    <3> QED
      BY <3>1, <3>2, <3>3, <3>4
  <2>8. ASSUME NEW a \in AgentSockets, AgentConnect(a)
        PROVE  TypeOK'
    <3>1. TypeMaps'
      BY <2>8 DEF AgentConnect, TypeMaps
    <3>2. TypeLocks'
      <4>1. waiting' \in [Maps -> Seq(Tasks)]
        <5>1. a \in Tasks /\ "agents" \in Maps
          BY DEF Tasks, Maps
        <5> QED
          BY <2>8, <5>1, QueueType DEF AgentConnect
      <4>2. readers' \in [Maps -> SUBSET Tasks]
        BY <2>8 DEF AgentConnect, TypeLocks, Maps, Tasks
      <4> QED
        BY <4>1, <4>2 DEF TypeLocks
    <3>3. TypeTasks'
      BY <2>8 DEF AgentConnect, TypeTasks, TypeMaps, Become, State, Tasks
    <3>4. TypeChannels'
      BY <2>8 DEF AgentConnect, TypeChannels, TypeTasks, PeerSends
    <3> QED
      BY <3>1, <3>2, <3>3, <3>4
  <2>9. ASSUME NEW a \in AgentSockets, AgentBreak(a)
        PROVE  TypeOK'
    <3>1. TypeMaps'
      BY <2>9 DEF AgentBreak, AgentLeave, TypeMaps
    <3>2. TypeLocks'
      <4>1. waiting' \in [Maps -> Seq(Tasks)]
        <5>1. a \in Tasks /\ "agents" \in Maps
          BY DEF Tasks, Maps
        <5> QED
          BY <2>9, <5>1, QueueType DEF AgentBreak, AgentLeave
      <4>2. readers' \in [Maps -> SUBSET Tasks]
        BY <2>9 DEF AgentBreak, AgentLeave, TypeLocks, Maps, Tasks
      <4> QED
        BY <4>1, <4>2 DEF TypeLocks
    <3>3. TypeTasks'
      BY <2>9 DEF AgentBreak, AgentLeave, TypeTasks, TypeMaps, Become, State, Tasks
    <3>4. TypeChannels'
      BY <2>9 DEF AgentBreak, AgentLeave, TypeChannels, TypeTasks, PeerSends
    <3> QED
      BY <3>1, <3>2, <3>3, <3>4
  <2>10. ASSUME NEW c \in ClientSockets, ClientRegister(c)
        PROVE  TypeOK'
    <3>1. TypeMaps'
      BY <2>10 DEF ClientRegister, TypeMaps
    <3>2. TypeLocks'
      <4>1. Tail(waiting["clients"]) \in Seq(Tasks)
        BY <2>10 DEF ClientRegister, TypeLocks, Granted, Maps
      <4>2. Append(waiting["agents"], c) \in Seq(Tasks)
        BY DEF TypeLocks, Maps, Tasks
      <4> QED
        BY <2>10, <4>1, <4>2 DEF ClientRegister, TypeLocks, Maps
    <3>3. TypeTasks'
      BY <2>10 DEF ClientRegister, TypeTasks, TypeMaps, Become, State, Tasks
    <3>4. TypeChannels'
      BY <2>10 DEF ClientRegister, TypeChannels, TypeTasks, PeerSends
    <3> QED
      BY <3>1, <3>2, <3>3, <3>4
  <2>11. ASSUME NEW c \in ClientSockets, ClientLook(c)
        PROVE  TypeOK'
    <3>1. TypeMaps'
      BY <2>11 DEF ClientLook, TypeMaps
    <3>2. TypeLocks'
      <4>1. waiting' \in [Maps -> Seq(Tasks)]
        <5>1. c \in Tasks /\ "agents" \in Maps
          BY DEF Tasks, Maps
        <5> QED
          BY <2>11, <5>1, QueueType DEF ClientLook
      <4>2. readers' \in [Maps -> SUBSET Tasks]
        BY <2>11 DEF ClientLook, TypeLocks, Maps, Tasks
      <4> QED
        BY <4>1, <4>2 DEF TypeLocks
    <3>3. TypeTasks'
      BY <2>11 DEF ClientLook, TypeTasks, TypeMaps, Become, State, Tasks
    <3>4. TypeChannels'
      BY <2>11 DEF ClientLook, TypeChannels, TypeTasks, PeerSends
    <3> QED
      BY <3>1, <3>2, <3>3, <3>4
  <2>12. ASSUME NEW c \in ClientSockets, ClientPush(c)
        PROVE  TypeOK'
    <3>1. TypeMaps'
      BY <2>12 DEF ClientPush, TypeMaps
    <3>2. TypeLocks'
      BY <2>12 DEF ClientPush, TypeLocks, lockVars, Maps, Tasks
    <3>3. TypeTasks'
      BY <2>12 DEF ClientPush, TypeTasks, TypeMaps, Become, State, Tasks
    <3>4. TypeChannels'
      BY <2>12 DEF ClientPush, TypeChannels, TypeTasks, Become, Tasks
    <3> QED
      BY <3>1, <3>2, <3>3, <3>4
  <2>13. ASSUME NEW c \in ClientSockets, ClientForward(c)
        PROVE  TypeOK'
    <3>1. TypeMaps'
      BY <2>13 DEF ClientForward, TypeMaps
    <3>2. TypeLocks'
      BY <2>13 DEF ClientForward, TypeLocks, lockVars, Maps, Tasks
    <3>3. TypeTasks'
      BY <2>13 DEF ClientForward, TypeTasks, TypeMaps, Become, State, Tasks
    <3>4. TypeChannels'
      BY <2>13 DEF ClientForward, TypeChannels, TypeTasks, PeerSends
    <3> QED
      BY <3>1, <3>2, <3>3, <3>4
  <2>14. ASSUME NEW c \in ClientSockets, ClientWritten(c)
        PROVE  TypeOK'
    <3>1. TypeMaps'
      BY <2>14 DEF ClientWritten, TypeMaps
    <3>2. TypeLocks'
      BY <2>14 DEF ClientWritten, TypeLocks, lockVars, Maps, Tasks
    <3>3. TypeTasks'
      BY <2>14 DEF ClientWritten, TypeTasks, TypeMaps, Become, State, Tasks
    <3>4. TypeChannels'
      BY <2>14 DEF ClientWritten, TypeChannels, TypeTasks, PeerSends
    <3> QED
      BY <3>1, <3>2, <3>3, <3>4
  <2>15. ASSUME NEW c \in ClientSockets, ClientUnregister(c)
        PROVE  TypeOK'
    <3>1. TypeMaps'
      BY <2>15 DEF ClientUnregister, TypeMaps
    <3>2. TypeLocks'
      <4>1. waiting' \in [Maps -> Seq(Tasks)]
        <5>1. c \in Tasks /\ "clients" \in Maps
          BY DEF Tasks, Maps
        <5> QED
          BY <2>15, <5>1, QueueType DEF ClientUnregister
      <4>2. readers' \in [Maps -> SUBSET Tasks]
        BY <2>15 DEF ClientUnregister, TypeLocks, Maps, Tasks
      <4> QED
        BY <4>1, <4>2 DEF TypeLocks
    <3>3. TypeTasks'
      BY <2>15 DEF ClientUnregister, TypeTasks, TypeMaps, Become, State, Tasks
    <3>4. TypeChannels'
      BY <2>15 DEF ClientUnregister, TypeChannels, TypeTasks, PeerSends
    <3> QED
      BY <3>1, <3>2, <3>3, <3>4
  <2>16. ASSUME NEW c \in ClientSockets, ClientConnect(c)
        PROVE  TypeOK'
    <3>1. TypeMaps'
      BY <2>16 DEF ClientConnect, TypeMaps
    <3>2. TypeLocks'
      BY <2>16 DEF ClientConnect, TypeLocks, lockVars, Maps, Tasks
    <3>3. TypeTasks'
      BY <2>16 DEF ClientConnect, TypeTasks, TypeMaps, Become, State, Tasks
    <3>4. TypeChannels'
      BY <2>16 DEF ClientConnect, TypeChannels, TypeTasks, PeerSends
    <3> QED
      BY <3>1, <3>2, <3>3, <3>4
  <2>17. ASSUME NEW c \in ClientSockets, ClientRequest(c)
        PROVE  TypeOK'
    <3>1. TypeMaps'
      BY <2>17 DEF ClientRequest, TypeMaps
    <3>2. TypeLocks'
      <4>1. waiting' \in [Maps -> Seq(Tasks)]
        <5>1. c \in Tasks /\ "clients" \in Maps
          BY DEF Tasks, Maps
        <5> QED
          BY <2>17, <5>1, QueueType DEF ClientRequest
      <4>2. readers' \in [Maps -> SUBSET Tasks]
        BY <2>17 DEF ClientRequest, TypeLocks, Maps, Tasks
      <4> QED
        BY <4>1, <4>2 DEF TypeLocks
    <3>3. TypeTasks'
      BY <2>17 DEF ClientRequest, TypeTasks, TypeMaps, Become, State, Tasks
    <3>4. TypeChannels'
      BY <2>17 DEF ClientRequest, TypeChannels, TypeTasks, PeerSends
    <3> QED
      BY <3>1, <3>2, <3>3, <3>4
  <2>18. ASSUME NEW c \in ClientSockets, ClientMessage(c)
        PROVE  TypeOK'
    <3>1. TypeMaps'
      BY <2>18 DEF ClientMessage, TypeMaps
    <3>2. TypeLocks'
      <4>1. waiting' \in [Maps -> Seq(Tasks)]
        <5>1. c \in Tasks /\ "agents" \in Maps
          BY DEF Tasks, Maps
        <5> QED
          BY <2>18, <5>1, QueueType DEF ClientMessage
      <4>2. readers' \in [Maps -> SUBSET Tasks]
        BY <2>18 DEF ClientMessage, TypeLocks, Maps, Tasks
      <4> QED
        BY <4>1, <4>2 DEF TypeLocks
    <3>3. TypeTasks'
      BY <2>18 DEF ClientMessage, TypeTasks, TypeMaps, Become, State, Tasks
    <3>4. TypeChannels'
      BY <2>18 DEF ClientMessage, TypeChannels, TypeTasks, PeerSends
    <3> QED
      BY <3>1, <3>2, <3>3, <3>4
  <2>19. ASSUME NEW c \in ClientSockets, ClientBreak(c)
        PROVE  TypeOK'
    <3>1. TypeMaps'
      BY <2>19 DEF ClientBreak, TypeMaps
    <3>2. TypeLocks'
      <4>1. waiting' \in [Maps -> Seq(Tasks)]
        <5>1. c \in Tasks /\ "clients" \in Maps
          BY DEF Tasks, Maps
        <5> QED
          BY <2>19, <5>1, QueueType DEF ClientBreak
      <4>2. readers' \in [Maps -> SUBSET Tasks]
        BY <2>19 DEF ClientBreak, TypeLocks, Maps, Tasks
      <4> QED
        BY <4>1, <4>2 DEF TypeLocks
    <3>3. TypeTasks'
      BY <2>19 DEF ClientBreak, TypeTasks, TypeMaps, Become, State, Tasks
    <3>4. TypeChannels'
      BY <2>19 DEF ClientBreak, TypeChannels, TypeTasks, PeerSends
    <3> QED
      BY <3>1, <3>2, <3>3, <3>4
  <2>20. ASSUME NEW r \in Requests, RequestAnswered(r)
        PROVE  TypeOK'
    <3>1. TypeMaps'
      BY <2>20 DEF RequestAnswered, TypeMaps
    <3>2. TypeLocks'
      <4>1. waiting' \in [Maps -> Seq(Tasks)]
        <5>1. r \in Tasks /\ "agents" \in Maps
          BY DEF Tasks, Maps
        <5> QED
          BY <2>20, <5>1, QueueType DEF RequestAnswered
      <4>2. readers' \in [Maps -> SUBSET Tasks]
        BY <2>20 DEF RequestAnswered, TypeLocks, Maps, Tasks
      <4> QED
        BY <4>1, <4>2 DEF TypeLocks
    <3>3. TypeTasks'
      BY <2>20 DEF RequestAnswered, TypeTasks, TypeMaps, Become, State, Tasks
    <3>4. TypeChannels'
      BY <2>20 DEF RequestAnswered, TypeChannels, TypeTasks, PeerSends
    <3> QED
      BY <3>1, <3>2, <3>3, <3>4
  <2>21. ASSUME NEW r \in Requests, RequestArrives(r)
        PROVE  TypeOK'
    <3>1. TypeMaps'
      BY <2>21 DEF RequestArrives, TypeMaps
    <3>2. TypeLocks'
      <4>1. waiting' \in [Maps -> Seq(Tasks)]
        <5>1. r \in Tasks /\ "agents" \in Maps
          BY DEF Tasks, Maps
        <5> QED
          BY <2>21, <5>1, QueueType DEF RequestArrives
      <4>2. readers' \in [Maps -> SUBSET Tasks]
        BY <2>21 DEF RequestArrives, TypeLocks, Maps, Tasks
      <4> QED
        BY <4>1, <4>2 DEF TypeLocks
    <3>3. TypeTasks'
      BY <2>21 DEF RequestArrives, TypeTasks, TypeMaps, Become, State, Tasks
    <3>4. TypeChannels'
      BY <2>21 DEF RequestArrives, TypeChannels, TypeTasks, PeerSends
    <3> QED
      BY <3>1, <3>2, <3>3, <3>4
  <2>22. ASSUME NEW a \in AgentSockets, NEW c \in ClientSockets,
                AgentMessage(a, c)
        PROVE  TypeOK'
    <3>1. TypeMaps'
      BY <2>22 DEF AgentMessage, TypeMaps
    <3>2. TypeLocks'
      <4>1. waiting' \in [Maps -> Seq(Tasks)]
        <5>1. a \in Tasks /\ "clients" \in Maps
          BY DEF Tasks, Maps
        <5> QED
          BY <2>22, <5>1, QueueType DEF AgentMessage
      <4> QED
        BY <2>22, <4>1 DEF AgentMessage, TypeLocks
    <3>3. TypeTasks'
      BY <2>22 DEF AgentMessage, TypeTasks, TypeMaps, Become, State, Tasks
    <3>4. TypeChannels'
      BY <2>22 DEF AgentMessage, TypeChannels, TypeTasks, PeerSends
    <3> QED
      BY <3>1, <3>2, <3>3, <3>4
  <2>23. CASE UNCHANGED vars
    BY <2>23 DEF vars, lockVars, TypeMaps, TypeLocks, TypeTasks, TypeChannels
  <2> QED
    BY <2>1, <2>2, <2>3, <2>4, <2>5, <2>6, <2>7, <2>8, <2>9, <2>10, <2>11,
       <2>12, <2>13, <2>14, <2>15, <2>16, <2>17, <2>18, <2>19, <2>20, <2>21,
       <2>22, <2>23
       DEF Next, Server, Peers, AgentTask, ClientTask
<1> QED
  BY <1>1, <1>2, PTL DEF Spec

-----------------------------------------------------------------------------
(* Senders under a guard.                                                  *)

\* A socket's task is between its connection and its return.
Alive(t) == pc[t] \notin {"idle", "done"}

\* The map of clients names tasks that have not returned, and an agent's task
\* that awaits room holds the guard that keeps its client's entry there.
ClientGuards ==
    /\ \A c \in clients : Alive(c)
    /\ \A a \in AgentSockets : pc[a] = "pushing" =>
          a \in readers["clients"] /\ peer[a] \in clients

\* The same for the map of agents.
AgentGuards ==
    /\ \A m \in Machines : agents[m] # None =>
          AgentMachine[agents[m]] = m /\ Alive(agents[m])
    /\ \A c \in ClientSockets : pc[c] = "pushing" =>
          c \in readers["agents"] /\ peer[c] = agents[ClientMachine[c]]

\* Only unregister_client_sessions empties the map, and it needs the write guard.
LEMMA ClientGuardsStep ==
  TypeOK /\ ClientGuards /\ [Next]_vars => ClientGuards'
<1> SUFFICES ASSUME TypeOK, ClientGuards, [Next]_vars
             PROVE  ClientGuards'
  OBVIOUS
<1> USE BackpressureAssumption
    DEF TypeOK, TypeMaps, TypeLocks, TypeTasks, Maps, Tasks, State,
        ClientGuards, Alive, Become, lockVars
<1>1. ASSUME NEW a \in AgentSockets, AgentLook(a)
      PROVE  ClientGuards'
  <2>1. pc[a] = "looking" /\ UNCHANGED clients
    BY <1>1 DEF AgentLook
  <2>2. CASE peer[a] \in clients
    <3>1. /\ readers' = [readers EXCEPT !["clients"] = @ \cup {a}]
          /\ pc' = [pc EXCEPT ![a] = "pushing"]
          /\ peer' = peer
      BY <1>1, <2>2 DEF AgentLook
    <3> QED
      BY <2>1, <2>2, <3>1
  <2>3. CASE peer[a] \notin clients
    <3>1. /\ readers' = readers
          /\ pc' = [pc EXCEPT ![a] = "running"]
          /\ peer' = [peer EXCEPT ![a] = None]
      BY <1>1, <2>3 DEF AgentLook
    <3> QED
      BY <2>1, <3>1
  <2> QED
    BY <2>2, <2>3
<1>2. ASSUME NEW a \in AgentSockets, AgentPush(a)
      PROVE  ClientGuards'
  BY <1>2 DEF AgentPush
<1>3. ASSUME NEW a \in AgentSockets, NEW c \in ClientSockets, AgentMessage(a, c)
      PROVE  ClientGuards'
  BY <1>3 DEF AgentMessage
<1>4. ASSUME NEW a \in AgentSockets,
             AgentRegister(a) \/ AgentForward(a) \/ AgentWritten(a)
             \/ AgentSuperseded(a) \/ AgentUnregister(a) \/ AgentConnect(a)
             \/ AgentBreak(a)
      PROVE  ClientGuards'
  <2>1. /\ UNCHANGED <<clients, readers, peer>>
        /\ \E q \in State \ {"pushing"} : pc' = [pc EXCEPT ![a] = q]
    BY <1>4 DEF AgentRegister, AgentForward, AgentWritten, AgentSuperseded,
                AgentUnregister, AgentConnect, AgentBreak, AgentLeave
  <2> QED
    BY <2>1
<1>5. ASSUME NEW c \in ClientSockets, ClientUnregister(c)
      PROVE  ClientGuards'
  <2>1. /\ readers["clients"] = {}
        /\ clients' = clients \ {c}
        /\ pc' = [pc EXCEPT ![c] = "done"]
        /\ UNCHANGED <<readers, peer>>
    BY <1>5 DEF ClientUnregister, Granted
  <2>2. \A a \in AgentSockets : pc'[a] # "pushing"
    BY <2>1
  <2> QED
    BY <2>1, <2>2
<1>6. ASSUME NEW c \in ClientSockets, ClientRegister(c)
      PROVE  ClientGuards'
  BY <1>6 DEF ClientRegister
<1>7. ASSUME NEW c \in ClientSockets, ClientLook(c)
      PROVE  ClientGuards'
  <2>1. /\ clients' = clients /\ readers'["clients"] = readers["clients"]
        /\ \E q \in {"pushing", "running"} : pc' = [pc EXCEPT ![c] = q]
        /\ \A a \in AgentSockets : peer'[a] = peer[a]
    BY <1>7 DEF ClientLook
  <2> QED
    BY <2>1
<1>8. ASSUME NEW c \in ClientSockets, ClientPush(c)
      PROVE  ClientGuards'
  BY <1>8 DEF ClientPush
<1>9. ASSUME NEW c \in ClientSockets,
             ClientForward(c) \/ ClientWritten(c) \/ ClientConnect(c)
             \/ ClientRequest(c) \/ ClientMessage(c) \/ ClientBreak(c)
      PROVE  ClientGuards'
  <2>1. /\ UNCHANGED <<clients, readers, peer>>
        /\ \E q \in State \ {"idle", "done"} : pc' = [pc EXCEPT ![c] = q]
    BY <1>9 DEF ClientForward, ClientWritten, ClientConnect, ClientRequest,
                ClientMessage, ClientBreak
  <2> QED
    BY <2>1
<1>10. ASSUME NEW r \in Requests, RequestArrives(r) \/ RequestAnswered(r)
       PROVE  ClientGuards'
  BY <1>10 DEF RequestArrives, RequestAnswered
<1>11. UNCHANGED vars => ClientGuards'
  BY DEF vars
<1> QED
  BY <1>1, <1>2, <1>3, <1>4, <1>5, <1>6, <1>7, <1>8, <1>9, <1>10, <1>11
     DEF Next, Server, Peers, AgentTask, ClientTask

\* The entry a client sends to is replaced or dropped under the write guard.
LEMMA AgentGuardsStep ==
  TypeOK /\ AgentGuards /\ [Next]_vars => AgentGuards'
<1> SUFFICES ASSUME TypeOK, AgentGuards, [Next]_vars
             PROVE  AgentGuards'
  OBVIOUS
<1> USE BackpressureAssumption
    DEF TypeOK, TypeMaps, TypeLocks, TypeTasks, Maps, Tasks, State,
        AgentGuards, Alive, Become, lockVars
<1>1. ASSUME NEW c \in ClientSockets, ClientLook(c)
      PROVE  AgentGuards'
  <2> DEFINE a == agents[ClientMachine[c]]
  <2>1. pc[c] = "looking" /\ UNCHANGED agents
    BY <1>1 DEF ClientLook
  <2>2. CASE a # None
    <3>1. /\ readers' = [readers EXCEPT !["agents"] = @ \cup {c}]
          /\ pc' = [pc EXCEPT ![c] = "pushing"]
          /\ peer' = [peer EXCEPT ![c] = a]
      BY <1>1, <2>2 DEF ClientLook
    <3> QED
      BY <2>1, <3>1
  <2>3. CASE a = None
    <3>1. /\ UNCHANGED <<readers, peer>>
          /\ pc' = [pc EXCEPT ![c] = "running"]
      BY <1>1, <2>3 DEF ClientLook
    <3> QED
      BY <2>1, <3>1
  <2> QED
    BY <2>2, <2>3
<1>2. ASSUME NEW c \in ClientSockets, ClientPush(c)
      PROVE  AgentGuards'
  BY <1>2 DEF ClientPush
<1>3. ASSUME NEW c \in ClientSockets,
             ClientRegister(c) \/ ClientForward(c) \/ ClientWritten(c)
             \/ ClientConnect(c) \/ ClientRequest(c) \/ ClientMessage(c)
             \/ ClientBreak(c) \/ ClientUnregister(c)
      PROVE  AgentGuards'
  <2>1. /\ UNCHANGED <<agents, readers, peer>>
        /\ \E q \in State \ {"pushing"} : pc' = [pc EXCEPT ![c] = q]
    BY <1>3 DEF ClientRegister, ClientForward, ClientWritten, ClientConnect,
                ClientRequest, ClientMessage, ClientBreak, ClientUnregister
  <2> QED
    BY <2>1
<1>4. ASSUME NEW a \in AgentSockets, AgentRegister(a) \/ AgentUnregister(a)
      PROVE  AgentGuards'
  <2>1. readers["agents"] = {} /\ UNCHANGED <<readers, peer>>
    BY <1>4 DEF AgentRegister, AgentUnregister, Granted
  <2>2. \A c \in ClientSockets : pc'[c] # "pushing"
    BY <1>4, <2>1 DEF AgentRegister, AgentUnregister
  <2>3. \A m \in Machines : agents'[m] # None =>
           AgentMachine[agents'[m]] = m /\ pc'[agents'[m]] \notin {"idle", "done"}
    <3>1. CASE AgentRegister(a)
      BY <3>1 DEF AgentRegister
    <3>2. CASE AgentUnregister(a)
      BY <3>2 DEF AgentUnregister
    <3> QED
      BY <1>4, <3>1, <3>2
  <2> QED
    BY <2>2, <2>3
<1>5. ASSUME NEW a \in AgentSockets, AgentLook(a)
      PROVE  AgentGuards'
  <2>1. /\ agents' = agents /\ readers'["agents"] = readers["agents"]
        /\ \E q \in {"pushing", "running"} : pc' = [pc EXCEPT ![a] = q]
        /\ \A c \in ClientSockets : peer'[c] = peer[c]
    BY <1>5 DEF AgentLook
  <2> QED
    BY <2>1
<1>6. ASSUME NEW a \in AgentSockets, AgentPush(a)
      PROVE  AgentGuards'
  BY <1>6 DEF AgentPush
<1>7. ASSUME NEW a \in AgentSockets, NEW c \in ClientSockets, AgentMessage(a, c)
      PROVE  AgentGuards'
  BY <1>7 DEF AgentMessage
<1>8. ASSUME NEW a \in AgentSockets,
             AgentForward(a) \/ AgentWritten(a) \/ AgentSuperseded(a)
             \/ AgentConnect(a) \/ AgentBreak(a)
      PROVE  AgentGuards'
  <2>1. /\ UNCHANGED <<agents, readers, peer>>
        /\ \E q \in State \ {"idle", "done"} : pc' = [pc EXCEPT ![a] = q]
    BY <1>8 DEF AgentForward, AgentWritten, AgentSuperseded, AgentConnect,
                AgentBreak, AgentLeave
  <2> QED
    BY <2>1
<1>9. ASSUME NEW r \in Requests, RequestArrives(r) \/ RequestAnswered(r)
      PROVE  AgentGuards'
  BY <1>9 DEF RequestArrives, RequestAnswered
<1>10. UNCHANGED vars => AgentGuards'
  BY DEF vars
<1> QED
  BY <1>1, <1>2, <1>3, <1>4, <1>5, <1>6, <1>7, <1>8, <1>9, <1>10
     DEF Next, Server, Peers, AgentTask, ClientTask

\* A message is never put into a channel whose receiver is gone: the read guard
\* that makes a full channel dangerous is what makes this so.
THEOREM OpenChannels == Spec => []SendsToOpenChannel
<1>1. Init => ClientGuards /\ AgentGuards
  BY BackpressureAssumption DEF Init, ClientGuards, AgentGuards, Tasks
<1>2. TypeOK /\ ClientGuards /\ AgentGuards => SendsToOpenChannel
  <2> SUFFICES ASSUME TypeOK, ClientGuards, AgentGuards,
                      NEW t \in AgentSockets \cup ClientSockets,
                      pc[t] = "pushing"
               PROVE  Alive(peer[t])
    BY DEF SendsToOpenChannel, Alive
  <2>1. CASE t \in AgentSockets
    BY <2>1 DEF ClientGuards
  <2>2. CASE t \in ClientSockets
    <3>1. peer[t] \in AgentSockets
      BY <2>2 DEF TypeOK, TypeTasks
    <3>2. agents[ClientMachine[t]] = peer[t] /\ ClientMachine[t] \in Machines
      BY <2>2, BackpressureAssumption DEF AgentGuards
    <3>3. peer[t] # None
      BY <3>1, BackpressureAssumption DEF Tasks
    <3> QED
      BY <3>2, <3>3 DEF AgentGuards
  <2> QED
    BY <2>1, <2>2
<1> QED
  BY <1>1, <1>2, TypeCorrect, ClientGuardsStep, AgentGuardsStep, PTL DEF Spec
-----------------------------------------------------------------------------
(* Who waits for whom.                                                     *)

\* A task at s awaits the lock of map l: a socket writes to its own map and
\* reads the other, a connect request reads the map of agents.
Awaits(l, t, s) ==
    IF l = "agents"
    THEN \/ t \in AgentSockets /\ s \in {"registering", "closing"}
         \/ t \in ClientSockets \cup Requests /\ s = "looking"
    ELSE \/ t \in ClientSockets /\ s \in {"registering", "closing"}
         \/ t \in AgentSockets /\ s = "looking"

Waiters(l, at) == {t \in Tasks : Awaits(l, t, at[t])}

\* A queue holds the members of a set, each once.
Lists(q, W) ==
    /\ \A t \in W : \E i \in 1..Len(q) : q[i] = t
    /\ \A i \in 1..Len(q) : q[i] \in W
    /\ \A i, j \in 1..Len(q) : q[i] = q[j] => i = j

\* No waiter is lost and none is left behind in a queue.
QueuesMatch == \A l \in Maps : Lists(waiting[l], Waiters(l, pc))

\* Only a task that awaits room holds a guard across a step.
GuardsHeld ==
    /\ \A t \in readers["agents"] : t \in ClientSockets /\ pc[t] = "pushing"
    /\ \A t \in readers["clients"] : t \in AgentSockets /\ pc[t] = "pushing"

\* A connect request only looks.
RequestsLook == \A r \in Requests : pc[r] \in {"idle", "looking", "done"}

\* A task joins the end of a queue.
LEMMA Joins ==
  ASSUME NEW S, NEW q \in Seq(S), NEW W, NEW t \in S, t \notin W, Lists(q, W)
  PROVE  Lists(Append(q, t), W \cup {t})
<1> DEFINE p == Append(q, t)
<1>1. /\ Len(p) = Len(q) + 1 /\ p[Len(q) + 1] = t
      /\ \A i \in 1..Len(q) : p[i] = q[i]
      /\ Len(q) \in Nat
  OBVIOUS
<1>2. \A i \in 1..Len(p) : i \in 1..Len(q) \/ i = Len(q) + 1
  BY <1>1
<1>3. \A i \in 1..Len(q) : i \in 1..Len(p)
  BY <1>1
<1>4. Len(q) + 1 \in 1..Len(p)
  BY <1>1
<1> HIDE DEF p
<1>5. \A u \in W \cup {t} : \E i \in 1..Len(p) : p[i] = u
  BY <1>1, <1>3, <1>4 DEF Lists
<1>6. \A i \in 1..Len(p) : p[i] \in W \cup {t}
  BY <1>1, <1>2 DEF Lists
<1>7. \A i, j \in 1..Len(p) : p[i] = p[j] => i = j
  BY <1>1, <1>2 DEF Lists
<1> QED
  BY <1>5, <1>6, <1>7 DEF Lists, p

\* The first task leaves a queue.
LEMMA Leaves ==
  ASSUME NEW S, NEW q \in Seq(S), q # <<>>, NEW W, Lists(q, W)
  PROVE  Lists(Tail(q), W \ {Head(q)})
<1> DEFINE p == Tail(q)
<1>1. /\ Len(q) = Len(p) + 1 /\ Len(p) \in Nat
      /\ q[1] = Head(q)
      /\ \A i \in 1..Len(p) : p[i] = q[i + 1]
  OBVIOUS
<1>2. \A i \in 1..Len(p) : i + 1 \in 1..Len(q) /\ i + 1 # 1
  BY <1>1
<1>3. 1 \in 1..Len(q)
  BY <1>1
<1>4. \A i \in 1..Len(q) : i = 1 \/ (i - 1 \in 1..Len(p) /\ (i - 1) + 1 = i)
  BY <1>1
<1> HIDE DEF p
<1>5. \A u \in W \ {Head(q)} : \E i \in 1..Len(p) : p[i] = u
  <2> SUFFICES ASSUME NEW u \in W, u # Head(q)
               PROVE  \E i \in 1..Len(p) : p[i] = u
    OBVIOUS
  <2>1. PICK i \in 1..Len(q) : q[i] = u
    BY DEF Lists
  <2>2. i # 1
    BY <2>1, <1>1
  <2>3. i - 1 \in 1..Len(p) /\ (i - 1) + 1 = i
    BY <2>2, <1>4
  <2>4. p[i - 1] = u
    BY <2>1, <2>3, <1>1
  <2> QED
    BY <2>3, <2>4
<1>6. \A i \in 1..Len(p) : p[i] \in W \ {Head(q)}
  <2> TAKE i \in 1..Len(p)
  <2>1. p[i] = q[i + 1] /\ i + 1 \in 1..Len(q) /\ i + 1 # 1
    BY <1>1, <1>2
  <2> QED
    BY <2>1, <1>1, <1>3 DEF Lists
<1>7. \A i, j \in 1..Len(p) : p[i] = p[j] => i = j
  <2> TAKE i, j \in 1..Len(p)
  <2>1. /\ p[i] = q[i + 1] /\ i + 1 \in 1..Len(q)
        /\ p[j] = q[j + 1] /\ j + 1 \in 1..Len(q)
    BY <1>1, <1>2
  <2>2. p[i] = p[j] => i + 1 = j + 1
    BY <2>1 DEF Lists
  <2> QED
    BY <2>2
<1> QED
  BY <1>5, <1>6, <1>7 DEF Lists, p

\* What a task's move does to the waiters of a map.
LEMMA Moves ==
  ASSUME NEW l \in Maps, NEW t \in Tasks, NEW s \in State,
         pc \in [Tasks -> State], pc' = [pc EXCEPT ![t] = s]
  PROVE  Waiters(l, pc') = IF Awaits(l, t, s) THEN Waiters(l, pc) \cup {t}
                                              ELSE Waiters(l, pc) \ {t}
<1>1. pc'[t] = s /\ \A u \in Tasks : u # t => pc'[u] = pc[u]
  OBVIOUS
<1>2. \A u \in Tasks : u # t => (u \in Waiters(l, pc') <=> u \in Waiters(l, pc))
  BY <1>1, Zenon DEF Waiters
<1>3. t \in Waiters(l, pc') <=> Awaits(l, t, s)
  BY <1>1, Zenon DEF Waiters
<1>4. \A u : u \in Waiters(l, pc') \/ u \in Waiters(l, pc) => u \in Tasks
  BY Zenon DEF Waiters
<1> HIDE DEF Waiters
<1>5. CASE Awaits(l, t, s)
  BY <1>2, <1>3, <1>4, <1>5
<1>6. CASE ~Awaits(l, t, s)
  <2>1. \A u : u \in Waiters(l, pc') <=> u \in Waiters(l, pc) \ {t}
    BY <1>2, <1>3, <1>4, <1>6, Zenon
  <2>2. Waiters(l, pc') = Waiters(l, pc) \ {t}
    BY <2>1, Zenon
  <2> QED
    BY <1>6, <2>2
<1> QED
  BY <1>5, <1>6

\* A task asks for a lock.
LEMMA Asks ==
  ASSUME TypeOK, NEW l \in Maps, NEW t \in Tasks, NEW s \in State,
         Lists(waiting[l], Waiters(l, pc)),
         pc' = [pc EXCEPT ![t] = s], ~Awaits(l, t, pc[t]), Awaits(l, t, s),
         waiting'[l] = Append(waiting[l], t)
  PROVE  Lists(waiting'[l], Waiters(l, pc'))
<1>1. waiting[l] \in Seq(Tasks) /\ pc \in [Tasks -> State]
  BY DEF TypeOK, TypeLocks, TypeTasks
<1>2. t \notin Waiters(l, pc)
  BY DEF Waiters
<1>3. Waiters(l, pc') = Waiters(l, pc) \cup {t}
  BY <1>1, Moves
<1>4. Lists(Append(waiting[l], t), Waiters(l, pc) \cup {t})
  BY <1>1, <1>2, Joins
<1> QED
  BY <1>3, <1>4

\* A task is served.
LEMMA IsServed ==
  ASSUME TypeOK, NEW l \in Maps, NEW t \in Tasks, NEW s \in State,
         Lists(waiting[l], Waiters(l, pc)),
         pc' = [pc EXCEPT ![t] = s], Granted(l, t), ~Awaits(l, t, s),
         waiting'[l] = Tail(waiting[l])
  PROVE  Lists(waiting'[l], Waiters(l, pc'))
<1>1. waiting[l] \in Seq(Tasks) /\ pc \in [Tasks -> State]
  BY DEF TypeOK, TypeLocks, TypeTasks
<1>2. waiting[l] # <<>> /\ Head(waiting[l]) = t
  BY DEF Granted
<1>3. Waiters(l, pc') = Waiters(l, pc) \ {t}
  BY <1>1, Moves
<1> QED
  BY <1>1, <1>2, <1>3, Leaves

\* A task does something else.
LEMMA Passes ==
  ASSUME TypeOK, NEW l \in Maps, NEW t \in Tasks, NEW s \in State,
         Lists(waiting[l], Waiters(l, pc)),
         pc' = [pc EXCEPT ![t] = s], ~Awaits(l, t, pc[t]), ~Awaits(l, t, s),
         waiting'[l] = waiting[l]
  PROVE  Lists(waiting'[l], Waiters(l, pc'))
<1>1. pc \in [Tasks -> State]
  BY DEF TypeOK, TypeTasks
<1>2. t \notin Waiters(l, pc)
  BY DEF Waiters
<1>3. Waiters(l, pc') = Waiters(l, pc) \ {t}
  BY <1>1, Moves
<1>4. Waiters(l, pc) \ {t} = Waiters(l, pc)
  BY <1>2
<1> QED
  BY <1>3, <1>4

\* Every step keeps the queues: it asks for a lock, is served or does neither.
LEMMA QueuesMatchStep ==
  TypeOK /\ QueuesMatch /\ [Next]_vars => QueuesMatch'
<1> SUFFICES ASSUME TypeOK, QueuesMatch, [Next]_vars, NEW l \in Maps
             PROVE  Lists(waiting'[l], Waiters(l, pc'))
  BY DEF QueuesMatch
<1>0. /\ Lists(waiting[l], Waiters(l, pc))
      /\ waiting \in [Maps -> Seq(Tasks)] /\ pc \in [Tasks -> State]
      /\ l = "agents" \/ l = "clients"
  BY DEF QueuesMatch, TypeOK, TypeLocks, TypeTasks, Maps
<1> DEFINE Kept == Lists(waiting'[l], Waiters(l, pc'))
<1>1. ASSUME NEW t \in Tasks, NEW s \in State, pc' = [pc EXCEPT ![t] = s],
             \/ /\ waiting'[l] = Append(waiting[l], t)
                /\ ~Awaits(l, t, pc[t]) /\ Awaits(l, t, s)
             \/ /\ waiting'[l] = Tail(waiting[l])
                /\ Granted(l, t) /\ ~Awaits(l, t, s)
             \/ /\ waiting'[l] = waiting[l]
                /\ ~Awaits(l, t, pc[t]) /\ ~Awaits(l, t, s)
      PROVE  Kept
  BY <1>0, <1>1, Asks, IsServed, Passes
<1> USE BackpressureAssumption
<1>2. ASSUME NEW a \in AgentSockets,
             AgentConnect(a) \/ AgentSuperseded(a) \/ AgentBreak(a)
      PROVE  Kept
  <2>1. PICK s \in {"registering", "closing"} :
          /\ pc[a] \in {"idle", "running", "writing"}
          /\ pc' = [pc EXCEPT ![a] = s]
          /\ Await("agents", a)
    BY <1>2 DEF AgentConnect, AgentSuperseded, AgentBreak, AgentLeave, Become
  <2>2. IF l = "agents" THEN waiting'[l] = Append(waiting[l], a)
                        ELSE waiting'[l] = waiting[l]
    BY <2>1, <1>0 DEF Await, Maps
  <2>3. a \in Tasks /\ s \in State
    BY <2>1 DEF Tasks, State
  <2>4. /\ ~Awaits(l, a, pc[a])
        /\ Awaits(l, a, s) <=> l = "agents"
    BY <2>1, <1>0 DEF Awaits
  <2> QED
    BY <1>1, <2>1, <2>2, <2>3, <2>4
<1>3. ASSUME NEW c \in ClientSockets, ClientRequest(c) \/ ClientBreak(c)
      PROVE  Kept
  <2>1. PICK s \in {"registering", "closing"} :
          /\ pc[c] \in {"running", "writing"}
          /\ pc' = [pc EXCEPT ![c] = s]
          /\ Await("clients", c)
    BY <1>3 DEF ClientRequest, ClientBreak, Become
  <2>2. IF l = "clients" THEN waiting'[l] = Append(waiting[l], c)
                         ELSE waiting'[l] = waiting[l]
    BY <2>1, <1>0 DEF Await, Maps
  <2>3. c \in Tasks /\ s \in State
    BY <2>1 DEF Tasks, State
  <2>4. /\ ~Awaits(l, c, pc[c])
        /\ Awaits(l, c, s) <=> l = "clients"
    BY <2>1, <1>0 DEF Awaits
  <2> QED
    BY <1>1, <2>1, <2>2, <2>3, <2>4
<1>4. ASSUME NEW a \in AgentSockets, NEW c \in ClientSockets, AgentMessage(a, c)
      PROVE  Kept
  <2>1. /\ pc[a] = "running"
        /\ pc' = [pc EXCEPT ![a] = "looking"]
        /\ Await("clients", a)
    BY <1>4 DEF AgentMessage, Become
  <2>2. IF l = "clients" THEN waiting'[l] = Append(waiting[l], a)
                         ELSE waiting'[l] = waiting[l]
    BY <2>1, <1>0 DEF Await, Maps
  <2>3. a \in Tasks /\ "looking" \in State
    BY DEF Tasks, State
  <2>4. /\ ~Awaits(l, a, pc[a])
        /\ Awaits(l, a, "looking") <=> l = "clients"
    BY <2>1, <1>0 DEF Awaits
  <2> QED
    BY <1>1, <2>1, <2>2, <2>3, <2>4
<1>5. ASSUME NEW t \in ClientSockets \cup Requests,
             \/ t \in ClientSockets /\ ClientMessage(t)
             \/ t \in Requests /\ RequestArrives(t)
      PROVE  Kept
  <2>1. /\ pc[t] \in {"idle", "running"}
        /\ pc' = [pc EXCEPT ![t] = "looking"]
        /\ Await("agents", t)
    BY <1>5 DEF ClientMessage, RequestArrives, Become
  <2>2. IF l = "agents" THEN waiting'[l] = Append(waiting[l], t)
                        ELSE waiting'[l] = waiting[l]
    BY <2>1, <1>0 DEF Await, Maps
  <2>3. t \in Tasks /\ "looking" \in State
    BY DEF Tasks, State
  <2>4. /\ ~Awaits(l, t, pc[t])
        /\ Awaits(l, t, "looking") <=> l = "agents"
    BY <2>1, <1>0 DEF Awaits
  <2> QED
    BY <1>1, <2>1, <2>2, <2>3, <2>4
<1>6. ASSUME NEW a \in AgentSockets, AgentRegister(a) \/ AgentUnregister(a)
      PROVE  Kept
  <2>1. PICK s \in {"running", "done"} :
          /\ pc[a] \in {"registering", "closing"}
          /\ pc' = [pc EXCEPT ![a] = s]
          /\ Granted("agents", a) /\ Served("agents")
    BY <1>6 DEF AgentRegister, AgentUnregister, Become
  <2>2. IF l = "agents" THEN waiting'[l] = Tail(waiting[l])
                        ELSE waiting'[l] = waiting[l]
    BY <2>1, <1>0 DEF Served, Maps
  <2>3. a \in Tasks /\ s \in State
    BY <2>1 DEF Tasks, State
  <2>4. /\ ~Awaits(l, a, s)
        /\ Awaits(l, a, pc[a]) <=> l = "agents"
    BY <2>1, <1>0 DEF Awaits
  <2> QED
    BY <1>1, <2>1, <2>2, <2>3, <2>4, <1>0
<1>7. ASSUME NEW a \in AgentSockets, AgentLook(a)
      PROVE  Kept
  <2>1. PICK s \in {"running", "pushing"} :
          /\ pc[a] = "looking"
          /\ pc' = [pc EXCEPT ![a] = s]
          /\ Granted("clients", a) /\ Served("clients")
    BY <1>7 DEF AgentLook
  <2>2. IF l = "clients" THEN waiting'[l] = Tail(waiting[l])
                         ELSE waiting'[l] = waiting[l]
    BY <2>1, <1>0 DEF Served, Maps
  <2>3. a \in Tasks /\ s \in State
    BY <2>1 DEF Tasks, State
  <2>4. /\ ~Awaits(l, a, s)
        /\ Awaits(l, a, pc[a]) <=> l = "clients"
    BY <2>1, <1>0 DEF Awaits
  <2> QED
    BY <1>1, <2>1, <2>2, <2>3, <2>4, <1>0
<1>8. ASSUME NEW c \in ClientSockets, ClientUnregister(c)
      PROVE  Kept
  <2>1. /\ pc[c] = "closing"
        /\ pc' = [pc EXCEPT ![c] = "done"]
        /\ Granted("clients", c) /\ Served("clients")
    BY <1>8 DEF ClientUnregister, Become
  <2>2. IF l = "clients" THEN waiting'[l] = Tail(waiting[l])
                         ELSE waiting'[l] = waiting[l]
    BY <2>1, <1>0 DEF Served, Maps
  <2>3. c \in Tasks /\ "done" \in State
    BY DEF Tasks, State
  <2>4. /\ ~Awaits(l, c, "done")
        /\ Awaits(l, c, pc[c]) <=> l = "clients"
    BY <2>1, <1>0 DEF Awaits
  <2> QED
    BY <1>1, <2>1, <2>2, <2>3, <2>4, <1>0
<1>9. ASSUME NEW t \in ClientSockets \cup Requests,
             \/ t \in ClientSockets /\ ClientLook(t)
             \/ t \in Requests /\ RequestAnswered(t)
      PROVE  Kept
  <2>1. PICK s \in {"running", "pushing", "done"} :
          /\ pc[t] = "looking"
          /\ pc' = [pc EXCEPT ![t] = s]
          /\ Granted("agents", t) /\ Served("agents")
    BY <1>9 DEF ClientLook, RequestAnswered, Become
  <2>2. IF l = "agents" THEN waiting'[l] = Tail(waiting[l])
                        ELSE waiting'[l] = waiting[l]
    BY <2>1, <1>0 DEF Served, Maps
  <2>3. t \in Tasks /\ s \in State
    BY <2>1 DEF Tasks, State
  <2>4. /\ ~Awaits(l, t, s)
        /\ Awaits(l, t, pc[t]) <=> l = "agents"
    BY <2>1, <1>0 DEF Awaits
  <2> QED
    BY <1>1, <2>1, <2>2, <2>3, <2>4, <1>0
<1>10. ASSUME NEW c \in ClientSockets, ClientRegister(c)
       PROVE  Kept
  <2>1. /\ pc[c] = "registering"
        /\ pc' = [pc EXCEPT ![c] = "looking"]
        /\ Granted("clients", c)
    BY <1>10 DEF ClientRegister, Become
  <2>2. IF l = "clients" THEN waiting'[l] = Tail(waiting[l])
                         ELSE waiting'[l] = Append(waiting[l], c)
    BY <1>10, <1>0 DEF ClientRegister, Maps
  <2>3. c \in Tasks /\ "looking" \in State
    BY DEF Tasks, State
  <2>4. /\ Awaits(l, c, "looking") <=> l = "agents"
        /\ Awaits(l, c, pc[c]) <=> l = "clients"
    BY <2>1, <1>0 DEF Awaits
  <2> QED
    BY <1>1, <2>1, <2>2, <2>3, <2>4, <1>0
<1>11. ASSUME NEW t \in AgentSockets \cup ClientSockets,
              \/ t \in AgentSockets
                 /\ (AgentPush(t) \/ AgentForward(t) \/ AgentWritten(t))
              \/ t \in ClientSockets
                 /\ (ClientPush(t) \/ ClientForward(t) \/ ClientWritten(t)
                     \/ ClientConnect(t))
       PROVE  Kept
  <2>1. PICK s \in {"running", "writing"} :
          /\ pc[t] \in {"idle", "pushing", "running", "writing"}
          /\ pc' = [pc EXCEPT ![t] = s]
          /\ UNCHANGED waiting
    BY <1>11 DEF AgentPush, AgentForward, AgentWritten, ClientPush,
                 ClientForward, ClientWritten, ClientConnect, Become, lockVars
  <2>2. t \in Tasks /\ s \in State
    BY <2>1 DEF Tasks, State
  <2>3. ~Awaits(l, t, pc[t]) /\ ~Awaits(l, t, s)
    BY <2>1, <1>0 DEF Awaits
  <2> QED
    BY <1>1, <2>1, <2>2, <2>3
<1>12. UNCHANGED vars => Kept
  BY <1>0 DEF vars, lockVars
<1> HIDE DEF Kept
<1>13. ASSUME NEW a \in AgentSockets, AgentTask(a)
       PROVE  Kept
  BY <1>13, <1>2, <1>6, <1>7, <1>11 DEF AgentTask
<1>14. ASSUME NEW c \in ClientSockets, ClientTask(c)
       PROVE  Kept
  <2>1. CASE ClientLook(c)
    BY <2>1, <1>9
  <2>2. CASE ClientPush(c) \/ ClientForward(c) \/ ClientWritten(c)
    BY <2>2, <1>11
  <2> QED
    BY <1>14, <1>8, <1>10, <2>1, <2>2 DEF ClientTask
<1>15. ASSUME NEW r \in Requests, RequestAnswered(r) \/ RequestArrives(r)
       PROVE  Kept
  BY <1>15, <1>5, <1>9
<1>16. ASSUME NEW a \in AgentSockets, AgentConnect(a) \/ AgentBreak(a)
       PROVE  Kept
  BY <1>16, <1>2
<1>17. ASSUME NEW c \in ClientSockets,
              ClientConnect(c) \/ ClientRequest(c) \/ ClientMessage(c)
              \/ ClientBreak(c)
       PROVE  Kept
  <2>1. CASE ClientConnect(c)
    BY <2>1, <1>11
  <2>2. CASE ClientMessage(c)
    BY <2>2, <1>5
  <2> QED
    BY <1>17, <1>3, <2>1, <2>2
<1>18. Kept
  BY <1>4, <1>12, <1>13, <1>14, <1>15, <1>16, <1>17 DEF Next, Server, Peers
<1> QED
  BY <1>18 DEF Kept

\* Guards are taken by a lookup that finds a sender, and given back with the
\* send.
LEMMA GuardsHeldStep ==
  TypeOK /\ GuardsHeld /\ [Next]_vars => GuardsHeld'
<1> SUFFICES ASSUME TypeOK, GuardsHeld, [Next]_vars
             PROVE  GuardsHeld'
  OBVIOUS
<1> USE BackpressureAssumption
    DEF TypeOK, TypeLocks, TypeTasks, Maps, Tasks, GuardsHeld, Become, lockVars
<1>1. ASSUME NEW a \in AgentSockets, AgentLook(a)
      PROVE  GuardsHeld'
  <2>1. CASE peer[a] \in clients
    <3>1. /\ readers' = [readers EXCEPT !["clients"] = @ \cup {a}]
          /\ pc[a] = "looking" /\ pc' = [pc EXCEPT ![a] = "pushing"]
      BY <1>1, <2>1 DEF AgentLook
    <3> QED
      BY <3>1
  <2>2. CASE peer[a] \notin clients
    <3>1. /\ readers' = readers
          /\ pc[a] = "looking" /\ pc' = [pc EXCEPT ![a] = "running"]
      BY <1>1, <2>2 DEF AgentLook
    <3> QED
      BY <3>1
  <2> QED
    BY <2>1, <2>2
<1>2. ASSUME NEW a \in AgentSockets, AgentPush(a)
      PROVE  GuardsHeld'
  <2>1. /\ readers' = [readers EXCEPT !["clients"] = @ \ {a}]
        /\ pc' = [pc EXCEPT ![a] = "running"]
    BY <1>2 DEF AgentPush
  <2> QED
    BY <2>1
<1>3. ASSUME NEW c \in ClientSockets, ClientLook(c)
      PROVE  GuardsHeld'
  <2> DEFINE found == agents[ClientMachine[c]] # None
  <2>1. CASE found
    <3>1. /\ readers' = [readers EXCEPT !["agents"] = @ \cup {c}]
          /\ pc[c] = "looking" /\ pc' = [pc EXCEPT ![c] = "pushing"]
      BY <1>3, <2>1 DEF ClientLook
    <3> QED
      BY <3>1
  <2>2. CASE ~found
    <3>1. /\ readers' = readers
          /\ pc[c] = "looking" /\ pc' = [pc EXCEPT ![c] = "running"]
      BY <1>3, <2>2 DEF ClientLook
    <3> QED
      BY <3>1
  <2> QED
    BY <2>1, <2>2
<1>4. ASSUME NEW c \in ClientSockets, ClientPush(c)
      PROVE  GuardsHeld'
  <2>1. /\ readers' = [readers EXCEPT !["agents"] = @ \ {c}]
        /\ pc' = [pc EXCEPT ![c] = "running"]
    BY <1>4 DEF ClientPush
  <2> QED
    BY <2>1
<1>5. ASSUME NEW t \in Tasks, NEW s, pc[t] # "pushing",
             pc' = [pc EXCEPT ![t] = s], readers' = readers
      PROVE  GuardsHeld'
  BY <1>5
<1>6. ASSUME NEW a \in AgentSockets,
             AgentRegister(a) \/ AgentForward(a) \/ AgentWritten(a)
             \/ AgentSuperseded(a) \/ AgentUnregister(a) \/ AgentConnect(a)
             \/ AgentBreak(a)
      PROVE  GuardsHeld'
  <2>1. /\ readers' = readers /\ pc[a] # "pushing"
        /\ \E s \in State : pc' = [pc EXCEPT ![a] = s]
    BY <1>6 DEF AgentRegister, AgentForward, AgentWritten, AgentSuperseded,
                AgentUnregister, AgentConnect, AgentBreak, AgentLeave, State
  <2> QED
    BY <2>1, <1>5
<1>7. ASSUME NEW a \in AgentSockets, NEW c \in ClientSockets, AgentMessage(a, c)
      PROVE  GuardsHeld'
  BY <1>7, <1>5 DEF AgentMessage
<1>8. ASSUME NEW c \in ClientSockets,
             ClientRegister(c) \/ ClientForward(c) \/ ClientWritten(c)
             \/ ClientUnregister(c) \/ ClientConnect(c) \/ ClientRequest(c)
             \/ ClientMessage(c) \/ ClientBreak(c)
      PROVE  GuardsHeld'
  <2>1. /\ readers' = readers /\ pc[c] # "pushing"
        /\ \E s \in State : pc' = [pc EXCEPT ![c] = s]
    BY <1>8 DEF ClientRegister, ClientForward, ClientWritten, ClientUnregister,
                ClientConnect, ClientRequest, ClientMessage, ClientBreak, State
  <2> QED
    BY <2>1, <1>5
<1>9. ASSUME NEW r \in Requests, RequestArrives(r) \/ RequestAnswered(r)
      PROVE  GuardsHeld'
  <2>1. /\ readers' = readers /\ pc[r] # "pushing"
        /\ \E s \in State : pc' = [pc EXCEPT ![r] = s]
    BY <1>9 DEF RequestArrives, RequestAnswered, State
  <2> QED
    BY <2>1, <1>5
<1>10. UNCHANGED vars => GuardsHeld'
  BY DEF vars
<1> QED
  BY <1>1, <1>2, <1>3, <1>4, <1>6, <1>7, <1>8, <1>9, <1>10
     DEF Next, Server, Peers, AgentTask, ClientTask

\* A connect request's task does nothing but look.
LEMMA RequestsLookStep ==
  TypeOK /\ RequestsLook /\ [Next]_vars => RequestsLook'
<1> SUFFICES ASSUME TypeOK, RequestsLook, [Next]_vars
             PROVE  RequestsLook'
  OBVIOUS
<1> USE BackpressureAssumption
    DEF TypeOK, TypeTasks, Tasks, RequestsLook, Become
<1>1. ASSUME NEW t \in AgentSockets \cup ClientSockets, NEW s,
             pc' = [pc EXCEPT ![t] = s]
      PROVE  RequestsLook'
  BY <1>1
<1>2. ASSUME NEW a \in AgentSockets, AgentTask(a)
      PROVE  RequestsLook'
  <2>1. CASE AgentLook(a)
    BY <2>1, <1>1 DEF AgentLook
  <2> QED
    BY <1>2, <2>1, <1>1 DEF AgentTask, AgentRegister, AgentPush, AgentForward,
       AgentWritten, AgentSuperseded, AgentUnregister, AgentLeave
<1>3. ASSUME NEW a \in AgentSockets, AgentConnect(a) \/ AgentBreak(a)
      PROVE  RequestsLook'
  BY <1>3, <1>1 DEF AgentConnect, AgentBreak, AgentLeave
<1>4. ASSUME NEW a \in AgentSockets, NEW c \in ClientSockets, AgentMessage(a, c)
      PROVE  RequestsLook'
  BY <1>4, <1>1 DEF AgentMessage
<1>5. ASSUME NEW c \in ClientSockets, ClientTask(c)
      PROVE  RequestsLook'
  <2>1. CASE ClientLook(c)
    <3>1. \E s \in {"pushing", "running"} : pc' = [pc EXCEPT ![c] = s]
      BY <2>1 DEF ClientLook
    <3> QED
      BY <3>1, <1>1
  <2> QED
    BY <1>5, <2>1, <1>1 DEF ClientTask, ClientRegister, ClientPush,
       ClientForward, ClientWritten, ClientUnregister
<1>6. ASSUME NEW c \in ClientSockets,
             ClientConnect(c) \/ ClientRequest(c) \/ ClientMessage(c)
             \/ ClientBreak(c)
      PROVE  RequestsLook'
  BY <1>6, <1>1 DEF ClientConnect, ClientRequest, ClientMessage, ClientBreak
<1>7. ASSUME NEW r \in Requests, RequestArrives(r) \/ RequestAnswered(r)
      PROVE  RequestsLook'
  BY <1>7 DEF RequestArrives, RequestAnswered
<1>8. UNCHANGED vars => RequestsLook'
  BY DEF vars
<1> QED
  BY <1>2, <1>3, <1>4, <1>5, <1>6, <1>7, <1>8 DEF Next, Server, Peers

\* A stalled relay has a full channel in it: a call awaits a lock or room, the
\* first in a lock's queue would be served but for a guard, and who holds a
\* guard awaits room. The receiver is alive; if it were in its loop, it would
\* take a message.
THEOREM StallsAtFullChannel == Spec => []StallNeedsFullChannel
<1>1. Init => ClientGuards /\ AgentGuards
  BY BackpressureAssumption DEF Init, ClientGuards, AgentGuards, Tasks
<1>2. Init => QueuesMatch /\ GuardsHeld /\ RequestsLook
  BY DEF Init, QueuesMatch, Lists, Waiters, Awaits, GuardsHeld, RequestsLook,
         Maps, Tasks
<1>3. TypeOK /\ ClientGuards /\ AgentGuards /\ QueuesMatch /\ GuardsHeld
      /\ RequestsLook => StallNeedsFullChannel
  <2> SUFFICES ASSUME TypeOK, ClientGuards, AgentGuards, QueuesMatch,
                      GuardsHeld, RequestsLook, ~MayMove,
                      NEW t \in Tasks, Calling(t)
               PROVE  \E u \in Tasks : BlockedReceiver(u)
    BY DEF StallNeedsFullChannel
  <2> USE BackpressureAssumption
  <2>1. ASSUME NEW a \in AgentSockets, pc[a] = "pushing"
        PROVE  BlockedReceiver(a)
    <3> DEFINE c == peer[a]
    <3>1. c \in ClientSockets /\ Alive(c)
      BY <2>1 DEF ClientGuards, TypeOK, TypeTasks
    <3>2. toClient[c] = ChannelSize
      <4>1. ~(toClient[c] < ChannelSize)
        BY <2>1 DEF MayMove
      <4>2. toClient[c] \in 0..ChannelSize
        BY <3>1 DEF TypeOK, TypeChannels
      <4> QED
        BY <4>1, <4>2
    <3>3. pc[c] # "writing"
      BY <3>1 DEF MayMove
    <3>4. pc[c] # "running"
      <4>1. toClient[c] > 0
        BY <3>2
      <4> QED
        BY <3>1, <4>1 DEF MayMove
    <3>5. pc[c] \in State
      BY <3>1 DEF TypeOK, TypeTasks, Tasks
    <3> QED
      BY <2>1, <3>1, <3>2, <3>3, <3>4, <3>5
         DEF BlockedReceiver, Calling, Alive, State
  <2>2. ASSUME NEW c \in ClientSockets, pc[c] = "pushing"
        PROVE  BlockedReceiver(c)
    <3> DEFINE a == peer[c]
    <3>1. a \in AgentSockets /\ Alive(a)
      <4>1. a \in AgentSockets
        BY <2>2 DEF TypeOK, TypeTasks
      <4>2. agents[ClientMachine[c]] = a /\ ClientMachine[c] \in Machines
        BY <2>2 DEF AgentGuards
      <4>3. a # None
        BY <4>1 DEF Tasks
      <4> QED
        BY <4>1, <4>2, <4>3 DEF AgentGuards
    <3>2. toAgent[a] = ChannelSize
      <4>1. ~(toAgent[a] < ChannelSize)
        BY <2>2 DEF MayMove
      <4>2. toAgent[a] \in 0..ChannelSize
        BY <3>1 DEF TypeOK, TypeChannels
      <4> QED
        BY <4>1, <4>2
    <3>3. pc[a] # "writing"
      BY <3>1 DEF MayMove
    <3>4. pc[a] # "running"
      <4>1. toAgent[a] > 0
        BY <3>2
      <4> QED
        BY <3>1, <4>1 DEF MayMove
    <3>5. pc[a] \in State
      BY <3>1 DEF TypeOK, TypeTasks, Tasks
    <3>6. c \notin AgentSockets
      OBVIOUS
    <3> QED
      BY <2>2, <3>1, <3>2, <3>3, <3>4, <3>5, <3>6
         DEF BlockedReceiver, Calling, Alive, State
  <2>3. \A u \in Tasks : pc[u] = "pushing" => BlockedReceiver(u)
    BY <2>1, <2>2 DEF RequestsLook, Tasks
  <2>4. ASSUME NEW l \in Maps, Awaits(l, t, pc[t])
        PROVE  \E u \in Tasks : pc[u] = "pushing"
    <3>1. waiting[l] \in Seq(Tasks) /\ Lists(waiting[l], Waiters(l, pc))
      BY DEF QueuesMatch, TypeOK, TypeLocks
    <3>2. t \in Waiters(l, pc)
      BY <2>4 DEF Waiters
    <3>3. waiting[l] # <<>>
      BY <3>1, <3>2 DEF Lists
    <3> DEFINE h == Head(waiting[l])
    <3>4. h \in Waiters(l, pc)
      <4>1. 1 \in 1..Len(waiting[l]) /\ h = waiting[l][1]
        BY <3>1, <3>3
      <4> QED
        BY <3>1, <4>1 DEF Lists
    <3>5. h \in Tasks /\ Awaits(l, h, pc[h])
      BY <3>4 DEF Waiters
    <3>6. ~LockServes(h)
      BY <3>5 DEF MayMove
    <3> HIDE DEF h
    <3>7. ~Granted(l, h)
      BY <3>5, <3>6 DEF Awaits, LockServes, Maps, Tasks
    <3>8. readers[l] # {}
      BY <3>3, <3>7 DEF Granted, h
    <3>9. readers[l] \subseteq Tasks /\ \A u \in readers[l] : pc[u] = "pushing"
      BY DEF GuardsHeld, TypeOK, TypeLocks, Maps
    <3> QED
      BY <3>8, <3>9
  <2>5. CASE pc[t] = "pushing"
    BY <2>3, <2>5
  <2>6. CASE pc[t] # "pushing"
    <3>1. \E l \in Maps : Awaits(l, t, pc[t])
      BY <2>6 DEF Calling, Awaits, Maps, RequestsLook, Tasks
    <3> QED
      BY <3>1, <2>3, <2>4
  <2> QED
    BY <2>5, <2>6
<1> QED
  BY <1>1, <1>2, <1>3, TypeCorrect, ClientGuardsStep, AgentGuardsStep,
     QueuesMatchStep, GuardsHeldStep, RequestsLookStep, PTL DEF Spec
=============================================================================
