--------------------------- MODULE SignalingRelay ---------------------------
(***************************************************************************)
(* The signaling relay of one server process: apps/server/src/websocket.rs *)
(* and the session endpoint apps/server/src/routes/sessions.rs.            *)
(*                                                                         *)
(* Every agent socket and every client socket is served by a task of its   *)
(* own.  A task is cut into atomic steps at its awaits: one database       *)
(* statement, or one critical section of one of the two maps, per step, so *)
(* that the steps of different tasks interleave here where they do in the  *)
(* program.  The program counters aState and cState name the step a task   *)
(* takes next.                                                             *)
(*                                                                         *)
(* A socket identifier is used for one connection; a reconnecting agent or *)
(* client is another identifier.  Queues hold the session a message is     *)
(* about: the queue of an agent socket holds offers, that of a client      *)
(* socket holds answers.  The holding of a map's read lock during a send   *)
(* is not modelled here (see RelayBackpressure): a full queue only delays  *)
(* the sender.                                                             *)
(***************************************************************************)
EXTENDS Naturals, Sequences, FiniteSets

CONSTANTS
    Machines,         \* rows of table machines
    AgentSockets,     \* upgraded /agent connections
    ClientSockets,    \* upgraded /client connections
    RawClients,       \* those of programs other than apps/client, which sends
                      \* one ConnectRequest per session and no SignalingOffer
    Sessions,         \* identifiers the connect endpoint draws (Uuid::new_v4)
    Users,            \* rows of table users
    AgentMachine,     \* the machine whose registration token the socket showed
    ClientUser,       \* the subject of the token the client socket showed
    SessionUser,      \* the user that asks for the session
    SessionMachine,   \* the machine the session is asked for
    ChannelSize,      \* WS_CHANNEL_SIZE
    MaxFaults,        \* bound on failed statements and server crashes
    None              \* no socket, no session

ASSUME RelayAssumption ==
    /\ AgentMachine \in [AgentSockets -> Machines]
    /\ ClientUser \in [ClientSockets -> Users]
    /\ RawClients \subseteq ClientSockets
    /\ SessionUser \in [Sessions -> Users]
    /\ SessionMachine \in [Sessions -> Machines]
    /\ ChannelSize \in Nat \ {0}
    /\ MaxFaults \in Nat
    /\ None \notin AgentSockets \cup ClientSockets \cup Sessions

VARIABLES
    \* the database
    dbOnline,     \* the machines whose column online is true
    status,       \* sessions.status, "none" before the row is inserted
    \* the process
    agents,       \* SignalingState.agents: the socket whose sender is stored
    clients,      \* SignalingState.clients
    nextConnId,   \* SignalingState.next_conn_id
    checked,      \* connect requests past is_agent_online, not yet inserted
    \* agent socket tasks
    aState, connId,
    aCur,         \* the session of the message being handled
    toAgent,      \* the forward channel
    atAgent,      \* offers that reached the agent and are not answered
    \* client socket tasks
    cState, cCur,
    owned,        \* owned_sessions
    toClient,
    got,          \* answers that reached the client
    \* environment
    faults        \* faults so far

dbVars     == <<dbOnline, status>>
mapVars    == <<agents, clients, nextConnId, checked>>
agentVars  == <<aState, connId, aCur, toAgent, atAgent>>
clientVars == <<cState, cCur, owned, toClient, got>>
vars == <<dbVars, mapVars, agentVars, clientVars, faults>>

-----------------------------------------------------------------------------
\* A session's row goes through these values; "none" is the absence of a row.
Status == {"none", "pending", "active", "ended"}

\* What an agent socket's task does next.  "opening" marks the machine online,
\* "registering" inserts the sender, "running" is the select loop, "answering"
\* relays an answer from within it, and the last ones are the cleanup.
AgentState == {"idle", "opening", "registering", "running", "answering",
               "closing", "offlining", "ending", "done"}

ClientState == {"idle", "running", "registering", "notifying", "closing",
                "ending", "done"}

\* The select loop of an agent socket is entered and not left.
InLoop(a) == aState[a] \in {"running", "answering"}

\* A client socket's task that still serves its socket.
Serving(c) == cState[c] \in {"running", "registering", "notifying"}

\* The task was started and has not returned.
AgentLive(a) == aState[a] \notin {"idle", "done"}
ClientLive(c) == cState[c] \notin {"idle", "done"}

TypeDb ==
    /\ dbOnline \in SUBSET Machines
    /\ status \in [Sessions -> Status]

TypeMaps ==
    /\ agents \in [Machines -> AgentSockets \cup {None}]
    /\ clients \in [Sessions -> ClientSockets \cup {None}]
    /\ nextConnId \in Nat \ {0}
    /\ checked \in SUBSET Sessions

TypeAgents ==
    /\ aState \in [AgentSockets -> AgentState]
    /\ connId \in [AgentSockets -> Nat]
    /\ aCur \in [AgentSockets -> Sessions \cup {None}]
    /\ toAgent \in [AgentSockets -> Seq(Sessions)]
    /\ atAgent \in [AgentSockets -> SUBSET Sessions]

TypeClients ==
    /\ cState \in [ClientSockets -> ClientState]
    /\ cCur \in [ClientSockets -> Sessions \cup {None}]
    /\ owned \in [ClientSockets -> SUBSET Sessions]
    /\ toClient \in [ClientSockets -> Seq(Sessions)]
    /\ got \in [ClientSockets -> SUBSET Sessions]

\* A task within a message handler has the message's session in hand.
HandlersHaveASession ==
    /\ \A a \in AgentSockets : aState[a] = "answering" => aCur[a] # None
    /\ \A c \in ClientSockets :
          cState[c] \in {"registering", "notifying"} => cCur[c] # None

TypeOK == /\ TypeDb /\ TypeMaps /\ TypeAgents /\ TypeClients
          /\ faults \in 0..MaxFaults
          /\ HandlersHaveASession

\* machines.online defaults to false; no socket is open, no session recorded.
Init ==
    /\ dbOnline = {}
    /\ status = [s \in Sessions |-> "none"]
    /\ agents = [m \in Machines |-> None]
    /\ clients = [s \in Sessions |-> None]
    /\ nextConnId = 1
    /\ checked = {}
    /\ aState = [a \in AgentSockets |-> "idle"]
    /\ connId = [a \in AgentSockets |-> 0]
    /\ aCur = [a \in AgentSockets |-> None]
    /\ toAgent = [a \in AgentSockets |-> <<>>]
    /\ atAgent = [a \in AgentSockets |-> {}]
    /\ cState = [c \in ClientSockets |-> "idle"]
    /\ cCur = [c \in ClientSockets |-> None]
    /\ owned = [c \in ClientSockets |-> {}]
    /\ toClient = [c \in ClientSockets |-> <<>>]
    /\ got = [c \in ClientSockets |-> {}]
    /\ faults = 0

-----------------------------------------------------------------------------
(* The statements the tasks send to the database.                          *)

\* The statement succeeds and has this effect, or it fails, which the handlers
\* log and survive.
Statement(effect, unchanged) ==
    \/ effect /\ faults' = faults
    \/ faults < MaxFaults /\ faults' = faults + 1 /\ unchanged

\* Mutant: the statement has no condition on the status.
MarkActiveAnyStatus(s) == status' = [status EXCEPT ![s] = "active"]

\* mark_session_active: only a pending session becomes active.
MarkActive(s) == status' =
    [status EXCEPT ![s] = IF @ = "pending" THEN "active" ELSE @]

\* mark_session_ended and end_machine_sessions: every recorded session of the
\* set ends; an ended one stays as it is.
MarkEnded(S) == status' =
    [s \in Sessions |-> IF s \in S /\ status[s] # "none" THEN "ended"
                                                         ELSE status[s]]

SessionsOf(m) == {s \in Sessions : SessionMachine[s] = m}

-----------------------------------------------------------------------------
(* Agent sockets: handle_agent_socket and handle_agent_message.            *)

AStep(a, from, to) ==
    /\ aState[a] = from
    /\ aState' = [aState EXCEPT ![a] = to]

\* The handler returns: its connection id and its receiver are gone.
AReturn(a) ==
    /\ aState' = [aState EXCEPT ![a] = "done"]
    /\ connId' = [connId EXCEPT ![a] = 0]
    /\ toAgent' = [toAgent EXCEPT ![a] = <<>>]

\* The token is validated, the connection upgraded and the task started.
AgentConnect(a) ==
    /\ AStep(a, "idle", "opening")
    /\ UNCHANGED <<dbVars, mapVars, connId, aCur, toAgent, atAgent, clientVars,
                   faults>>

\* The machine is marked online, which may fail; then a connection id is drawn
\* and the task waits for the write lock.
AgentMarkOnline(a) ==
    /\ AStep(a, "opening", "registering")
    /\ Statement(dbOnline' = dbOnline \cup {AgentMachine[a]},
                 UNCHANGED dbOnline)
    /\ connId' = [connId EXCEPT ![a] = nextConnId]
    /\ nextConnId' = nextConnId + 1
    /\ UNCHANGED <<status, agents, clients, checked, aCur, toAgent, atAgent,
                   clientVars>>

\* register_agent: the entry of an older socket of the machine is replaced.
AgentRegister(a) ==
    /\ AStep(a, "registering", "running")
    /\ agents' = [agents EXCEPT ![AgentMachine[a]] = a]
    /\ UNCHANGED <<dbVars, clients, nextConnId, checked, connId, aCur, toAgent,
                   atAgent, clientVars, faults>>

\* Mutant: the message is lost between the channel and the socket.
AgentForwardLoses(a) ==
    /\ aState[a] = "running"
    /\ toAgent[a] # <<>>
    /\ toAgent' = [toAgent EXCEPT ![a] = Tail(@)]
    /\ UNCHANGED <<dbVars, mapVars, aState, connId, aCur, atAgent, clientVars,
                   faults>>

\* The loop takes a message from the forward channel and sends it.
AgentForward(a) ==
    /\ aState[a] = "running"
    /\ toAgent[a] # <<>>
    /\ toAgent' = [toAgent EXCEPT ![a] = Tail(@)]
    /\ atAgent' = [atAgent EXCEPT ![a] = @ \cup {Head(toAgent[a])}]
    /\ UNCHANGED <<dbVars, mapVars, aState, connId, aCur, clientVars, faults>>

\* Mutant: the task keeps a sender of its own, as client tasks do, and its
\* receiver never closes.
AgentKeepsSender(a) == FALSE

\* Mutant: a socket that finds itself replaced registers once more.
AgentRegistersAgain(a) ==
    /\ toAgent[a] = <<>>
    /\ agents[AgentMachine[a]] # a
    /\ AStep(a, "running", "registering")
    /\ UNCHANGED <<dbVars, mapVars, connId, aCur, toAgent, atAgent, clientVars,
                   faults>>

\* The only sender lives in the map: once the entry is gone and the channel is
\* drained, rx.recv() returns None and the loop ends.
AgentSuperseded(a) ==
    /\ toAgent[a] = <<>>
    /\ agents[AgentMachine[a]] # a
    /\ AStep(a, "running", "closing")
    /\ atAgent' = [atAgent EXCEPT ![a] = {}]
    /\ UNCHANGED <<dbVars, mapVars, connId, aCur, toAgent, clientVars, faults>>

\* The socket is closed by its peer, reports an error, or a send on it fails.
AgentDisconnect(a) ==
    /\ AStep(a, "running", "closing")
    /\ atAgent' = [atAgent EXCEPT ![a] = {}]
    /\ UNCHANGED <<dbVars, mapVars, connId, aCur, toAgent, clientVars, faults>>

\* The agent answers an offer: the session is marked active, the message counted,
\* and the answer relayed next.  When either statement fails the answer is
\* dropped, with the session marked or not.
AgentAnswer(a, s) ==
    /\ aState[a] = "running"
    /\ s \in atAgent[a]
    /\ atAgent' = [atAgent EXCEPT ![a] = @ \ {s}]
    /\ Statement(/\ MarkActive(s)
                 /\ aState' = [aState EXCEPT ![a] = "answering"]
                 /\ aCur' = [aCur EXCEPT ![a] = s],
                 /\ MarkActive(s) \/ UNCHANGED status
                 /\ UNCHANGED <<aState, aCur>>)
    /\ UNCHANGED <<dbOnline, mapVars, connId, toAgent, clientVars>>

\* send_to_client: the answer is dropped when no client is registered for the
\* session, and waits for room in the channel otherwise.
AgentRelayAnswer(a) ==
    /\ AStep(a, "answering", "running")
    /\ aCur' = [aCur EXCEPT ![a] = None]
    /\ LET s == aCur[a]
           c == clients[s]
       IN IF c = None
          THEN UNCHANGED toClient
          ELSE /\ Len(toClient[c]) < ChannelSize
               /\ toClient' = [toClient EXCEPT ![c] = Append(@, s)]
    /\ UNCHANGED <<dbVars, mapVars, connId, toAgent, atAgent, cState, cCur,
                   owned, got, faults>>

\* Mutant: no connection-id guard, any entry of the machine is taken.
IsCurrentAny(a) == agents[AgentMachine[a]] # None

\* unregister_agent_if_current finds an entry with this connection's id.
IsCurrent(a) ==
    LET e == agents[AgentMachine[a]]
    IN e # None /\ connId[e] = connId[a]

\* Mutant: the entry is found to be this connection's and left in the map.
AgentUnregisterKeeps(a) ==
    /\ aState[a] = "closing"
    /\ IF IsCurrent(a)
       THEN /\ aState' = [aState EXCEPT ![a] = "offlining"]
            /\ UNCHANGED <<connId, toAgent>>
       ELSE AReturn(a)
    /\ UNCHANGED <<dbVars, mapVars, aCur, atAgent, clientVars, faults>>

\* Mutant: the cleanup forgets to mark the machine offline.
AgentUnregisterOnly(a) ==
    /\ AStep(a, "closing", "ending")
    /\ agents' = [agents EXCEPT ![AgentMachine[a]] =
                     IF IsCurrent(a) THEN None ELSE @]
    /\ UNCHANGED <<dbVars, clients, nextConnId, checked, connId, aCur, toAgent,
                   atAgent, clientVars, faults>>

\* The cleanup removes the entry if it is this connection's, and only then goes
\* on to the database.
AgentUnregister(a) ==
    /\ aState[a] = "closing"
    /\ IF IsCurrent(a)
       THEN /\ agents' = [agents EXCEPT ![AgentMachine[a]] = None]
            /\ aState' = [aState EXCEPT ![a] = "offlining"]
            /\ UNCHANGED <<connId, toAgent>>
       ELSE AReturn(a) /\ UNCHANGED agents
    /\ UNCHANGED <<dbVars, clients, nextConnId, checked, aCur, atAgent,
                   clientVars, faults>>

AgentMarkOffline(a) ==
    /\ AStep(a, "offlining", "ending")
    /\ Statement(dbOnline' = dbOnline \ {AgentMachine[a]},
                 UNCHANGED dbOnline)
    /\ UNCHANGED <<status, mapVars, connId, aCur, toAgent, atAgent, clientVars>>

\* end_machine_sessions, the last step of the cleanup.
AgentEndSessions(a) ==
    /\ aState[a] = "ending"
    /\ AReturn(a)
    /\ Statement(MarkEnded(SessionsOf(AgentMachine[a])), UNCHANGED status)
    /\ UNCHANGED <<dbOnline, mapVars, aCur, atAgent, clientVars>>

-----------------------------------------------------------------------------
(* The connect endpoint: connect_machine.                                  *)

\* is_agent_online looks the machine up in the process's map.
ConnectCheck(s) ==
    /\ status[s] = "none" /\ s \notin checked
    /\ agents[SessionMachine[s]] # None
    /\ checked' = checked \cup {s}
    /\ UNCHANGED <<dbVars, agents, clients, nextConnId, agentVars, clientVars,
                   faults>>

\* The pending row is inserted and its identifier returned.
ConnectInsert(s) ==
    /\ s \in checked
    /\ checked' = checked \ {s}
    /\ Statement(status' = [status EXCEPT ![s] = "pending"], UNCHANGED status)
    /\ UNCHANGED <<dbOnline, agents, clients, nextConnId, agentVars, clientVars>>

-----------------------------------------------------------------------------
(* Client sockets: handle_client_socket and handle_client_message.         *)

CStep(c, from, to) ==
    /\ cState[c] = from
    /\ cState' = [cState EXCEPT ![c] = to]

ClientConnect(c) ==
    /\ CStep(c, "idle", "running")
    /\ UNCHANGED <<dbVars, mapVars, agentVars, cCur, owned, toClient, got,
                   faults>>

\* Mutant: the row is only looked up.
SessionExists(c, s) == status[s] # "none"

\* The row the message names exists and belongs to the socket's user; a message
\* about any other session is ignored.
OwnsSession(c, s) == status[s] # "none" /\ SessionUser[s] = ClientUser[c]

\* A ConnectRequest arrives: its session's row is read and checked.
ClientConnectRequest(c, s) ==
    /\ c \in RawClients \/ s \notin owned[c]
    /\ CStep(c, "running", "registering")
    /\ OwnsSession(c, s)
    /\ cCur' = [cCur EXCEPT ![c] = s]
    /\ UNCHANGED <<dbVars, mapVars, agentVars, owned, toClient, got, faults>>

\* Mutant: the session is not noted for the cleanup.
ClientRegisterUnowned(c) ==
    /\ CStep(c, "registering", "notifying")
    /\ clients' = [clients EXCEPT ![cCur[c]] = c]
    /\ UNCHANGED <<dbVars, agents, nextConnId, checked, agentVars, cCur, owned,
                   toClient, got, faults>>

\* Mutant: the session's id is given away before the offer is forwarded.
ClientRegisterMoved(c) ==
    /\ CStep(c, "registering", "notifying")
    /\ clients' = [clients EXCEPT ![cCur[c]] = c]
    /\ owned' = [owned EXCEPT ![c] = @ \cup {cCur[c]}]
    /\ cCur' = [cCur EXCEPT ![c] = None]
    /\ UNCHANGED <<dbVars, agents, nextConnId, checked, agentVars, toClient,
                   got, faults>>

\* register_client_session replaces an older registration of the session; the
\* offer is then counted, and not forwarded if that statement fails.
ClientRegister(c) ==
    /\ cState[c] = "registering"
    /\ clients' = [clients EXCEPT ![cCur[c]] = c]
    /\ owned' = [owned EXCEPT ![c] = @ \cup {cCur[c]}]
    /\ Statement(/\ cState' = [cState EXCEPT ![c] = "notifying"]
                 /\ UNCHANGED cCur,
                 /\ cState' = [cState EXCEPT ![c] = "running"]
                 /\ cCur' = [cCur EXCEPT ![c] = None])
    /\ UNCHANGED <<dbVars, agents, nextConnId, checked, agentVars, toClient,
                   got>>

\* A SignalingOffer (and an IceCandidate) takes the same check and is forwarded
\* without a registration.
ClientSignalingOffer(c, s) ==
    /\ c \in RawClients
    /\ CStep(c, "running", "notifying")
    /\ OwnsSession(c, s)
    /\ cCur' = [cCur EXCEPT ![c] = s]
    /\ UNCHANGED <<dbVars, mapVars, agentVars, owned, toClient, got, faults>>

\* notify_agent: dropped without an agent, otherwise sent when there is room.
ClientNotify(c) ==
    /\ CStep(c, "notifying", "running")
    /\ cCur' = [cCur EXCEPT ![c] = None]
    /\ LET s == cCur[c]
           a == agents[SessionMachine[s]]
       IN IF a = None
          THEN UNCHANGED toAgent
          ELSE /\ Len(toAgent[a]) < ChannelSize
               /\ toAgent' = [toAgent EXCEPT ![a] = Append(@, s)]
    /\ UNCHANGED <<dbVars, mapVars, aState, connId, aCur, atAgent, owned,
                   toClient, got, faults>>

\* Mutant: the answer is lost between the channel and the socket.
ClientForwardLoses(c) ==
    /\ cState[c] = "running"
    /\ toClient[c] # <<>>
    /\ toClient' = [toClient EXCEPT ![c] = Tail(@)]
    /\ UNCHANGED <<dbVars, mapVars, agentVars, cState, cCur, owned, got, faults>>

\* The loop takes an answer from the forward channel and sends it.
ClientForward(c) ==
    /\ cState[c] = "running"
    /\ toClient[c] # <<>>
    /\ toClient' = [toClient EXCEPT ![c] = Tail(@)]
    /\ got' = [got EXCEPT ![c] = @ \cup {Head(toClient[c])}]
    /\ UNCHANGED <<dbVars, mapVars, agentVars, cState, cCur, owned, faults>>

ClientDisconnect(c) ==
    /\ CStep(c, "running", "closing")
    /\ UNCHANGED <<dbVars, mapVars, agentVars, cCur, owned, toClient, got,
                   faults>>

\* The handler returns, and drops its receiver, after the last owned session.
CReturnIfLast(c, rest) ==
    /\ cState' = [cState EXCEPT ![c] = IF rest = {} THEN "done" ELSE "ending"]
    /\ toClient' = [toClient EXCEPT ![c] = IF rest = {} THEN <<>> ELSE @]

\* Mutant: the owned sessions are drained while they are unregistered, and none
\* is left to be marked ended.
ClientUnregisterDrains(c) ==
    /\ cState[c] = "closing"
    /\ clients' = [s \in Sessions |-> IF s \in owned[c] THEN None
                                                       ELSE clients[s]]
    /\ owned' = [owned EXCEPT ![c] = {}]
    /\ CReturnIfLast(c, {})
    /\ UNCHANGED <<dbVars, agents, nextConnId, checked, agentVars, cCur, got,
                   faults>>

\* unregister_client_sessions removes the entries of the owned sessions, no
\* matter which socket they name.
ClientUnregister(c) ==
    /\ cState[c] = "closing"
    /\ clients' = [s \in Sessions |-> IF s \in owned[c] THEN None
                                                       ELSE clients[s]]
    /\ CReturnIfLast(c, owned[c])
    /\ UNCHANGED <<dbVars, agents, nextConnId, checked, agentVars, cCur, owned,
                   got, faults>>

\* The owned sessions are marked ended one by one.
ClientEndSession(c, s) ==
    /\ cState[c] = "ending"
    /\ s \in owned[c]
    /\ owned' = [owned EXCEPT ![c] = @ \ {s}]
    /\ CReturnIfLast(c, owned[c] \ {s})
    /\ Statement(MarkEnded({s}), UNCHANGED status)
    /\ UNCHANGED <<dbOnline, mapVars, agentVars, cCur, got>>

-----------------------------------------------------------------------------
\* The process dies and is started again: the database survives, and main()
\* resets nothing in it.
ServerCrash ==
    /\ faults < MaxFaults
    /\ faults' = faults + 1
    /\ agents' = [m \in Machines |-> None]
    /\ clients' = [s \in Sessions |-> None]
    /\ nextConnId' = 1
    /\ checked' = {}
    /\ aState' = [a \in AgentSockets |-> IF AgentLive(a) THEN "done"
                                                         ELSE aState[a]]
    /\ connId' = [a \in AgentSockets |-> 0]
    /\ aCur' = [a \in AgentSockets |-> None]
    /\ toAgent' = [a \in AgentSockets |-> <<>>]
    /\ atAgent' = [a \in AgentSockets |-> {}]
    /\ cState' = [c \in ClientSockets |-> IF ClientLive(c) THEN "done"
                                                           ELSE cState[c]]
    /\ cCur' = [c \in ClientSockets |-> None]
    /\ owned' = [c \in ClientSockets |-> {}]
    /\ toClient' = [c \in ClientSockets |-> <<>>]
    /\ UNCHANGED <<dbVars, got>>

\* Every socket has come and gone: nothing but a new connection, outside the
\* bound, can happen.
Finished ==
    /\ \A a \in AgentSockets : aState[a] = "done"
    /\ \A c \in ClientSockets : cState[c] = "done"
    /\ checked = {}
    /\ UNCHANGED vars

\* The steps the server takes by itself for a socket.
AgentTask(a) ==
    \/ AgentMarkOnline(a) \/ AgentRegister(a)
    \/ AgentForward(a) \/ AgentSuperseded(a) \/ AgentRelayAnswer(a)
    \/ AgentUnregister(a) \/ AgentMarkOffline(a) \/ AgentEndSessions(a)

ClientTask(c) ==
    \/ ClientRegister(c) \/ ClientNotify(c) \/ ClientForward(c)
    \/ ClientUnregister(c) \/ \E s \in Sessions : ClientEndSession(c, s)

\* What peers, and the callers of the endpoint, may do.
Environment ==
    \/ \E a \in AgentSockets :
          \/ AgentConnect(a) \/ AgentDisconnect(a)
          \/ \E s \in Sessions : AgentAnswer(a, s)
    \/ \E c \in ClientSockets :
          \/ ClientConnect(c) \/ ClientDisconnect(c)
          \/ \E s \in Sessions : ClientConnectRequest(c, s)
                                 \/ ClientSignalingOffer(c, s)
    \/ \E s \in Sessions : ConnectCheck(s)

Next ==
    \/ \E a \in AgentSockets : AgentTask(a)
    \/ \E c \in ClientSockets : ClientTask(c)
    \/ \E s \in Sessions : ConnectInsert(s)
    \/ Environment
    \/ ServerCrash
    \/ Finished

Spec == Init /\ [][Next]_vars

\* The runtime polls every task that is ready, so a step that stays enabled is
\* taken; nothing is assumed of peers.  tokio::select! polls the branches of a
\* loop in random order, so a forward channel is not starved by a chatty socket.
Fairness ==
    /\ \A a \in AgentSockets : WF_vars(AgentTask(a)) /\ SF_vars(AgentForward(a))
    /\ \A c \in ClientSockets : WF_vars(ClientTask(c))
                                /\ SF_vars(ClientForward(c))
    /\ \A s \in Sessions : WF_vars(ConnectInsert(s))

FairSpec == Spec /\ Fairness

-----------------------------------------------------------------------------
(* Safety.                                                                 *)

\* The map reflects live sockets: an entry names a socket of that machine whose
\* task is serving it, or is about to remove the entry itself.  The connect
\* endpoint takes the map for the source of truth on that ground.
SlotIsLive ==
    \A m \in Machines : agents[m] # None =>
        /\ AgentMachine[agents[m]] = m
        /\ aState[agents[m]] \in {"running", "answering", "closing"}

\* Connection ids tell the tasks that hold one apart; the guard of the cleanup
\* rests on it.
ConnIdsDistinct ==
    \A a, b \in AgentSockets :
        connId[a] # 0 /\ connId[a] = connId[b] => a = b

\* A task holds an id from the time it marks the machine online until it
\* returns, and all ids were drawn from the counter.
ConnIdsIssued ==
    \A a \in AgentSockets :
        /\ connId[a] < nextConnId
        /\ connId[a] # 0 <=> aState[a] \notin {"idle", "opening", "done"}

\* The inductive invariant of the slots.
SlotInv == SlotIsLive /\ ConnIdsDistinct /\ ConnIdsIssued

\* A machine marked online has a socket that will see to the mark: one about
\* to register, the registered one, or one about to mark the machine offline.
\* So once the last socket of a machine is gone the machine is offline, as long
\* as no statement failed and the server did not crash.
OnlineFlagHasAnOwner ==
    faults = 0 => \A m \in dbOnline :
        \E a \in AgentSockets :
            /\ AgentMachine[a] = m
            /\ aState[a] \in {"registering", "offlining"} \/ agents[m] = a

\* A client registration names a socket that still serves its client or is
\* about to withdraw it, and that will end the session when it goes.
ClientSlotIsOwned ==
    \A s \in Sessions : clients[s] # None =>
        /\ s \in owned[clients[s]]
        /\ Serving(clients[s]) \/ cState[clients[s]] = "closing"

\* What is queued for, or was delivered to, a client is about a session of its
\* user; what is queued for, or was delivered to, an agent is about a session of
\* its machine.
RelayedToParties ==
    /\ \A c \in ClientSockets : \A s \in Sessions :
          (\E i \in DOMAIN toClient[c] : toClient[c][i] = s) \/ s \in got[c]
              => SessionUser[s] = ClientUser[c]
    /\ \A a \in AgentSockets : \A s \in Sessions :
          (\E i \in DOMAIN toAgent[a] : toAgent[a][i] = s) \/ s \in atAgent[a]
              => SessionMachine[s] = AgentMachine[a]

\* An active session has a client socket that will end it, whatever answers were
\* still under way when its client left; sessions of users with clients that
\* offer without a ConnectRequest are excepted.
ActiveSessionHasAnOwner ==
    faults = 0 => \A s \in Sessions :
        /\ status[s] = "active"
        /\ \A c \in RawClients : ClientUser[c] # SessionUser[s]
        => \E c \in ClientSockets : s \in owned[c]

\* A reconnecting agent is not evicted by the old socket's teardown: an entry
\* is removed by the cleanup of the very socket it names, or by a crash.
NotEvictedByTeardown ==
    [][\A m \in Machines : agents[m] # None /\ agents'[m] = None =>
          \/ aState[agents[m]] = "closing" /\ aState'[agents[m]] = "offlining"
          \/ faults' > faults]_vars

-----------------------------------------------------------------------------
(* Liveness, under FairSpec.                                               *)

\* A socket that lost its slot, to a newer one or to the cleanup of a newer one,
\* does not stay open: its task ends.
SupersededSocketLeaves ==
    \A a \in AgentSockets :
        InLoop(a) /\ agents[AgentMachine[a]] # a ~> aState[a] = "done"

\* When a client socket goes, each session it owned ends.
LeavingClientEndsSessions ==
    \A c \in ClientSockets : \A s \in Sessions :
        cState[c] = "closing" /\ s \in owned[c] ~> status[s] = "ended"

\* An offer queued for an agent socket reaches the agent unless the socket goes.
OfferReachesAgent ==
    \A a \in AgentSockets : \A s \in Sessions :
        (\E i \in DOMAIN toAgent[a] : toAgent[a][i] = s)
            ~> s \in atAgent[a] \/ ~InLoop(a)

\* An answer on its way to a registered client reaches it, unless the client
\* goes or the session is registered anew.
AnswerReachesClient ==
    \A a \in AgentSockets : \A c \in ClientSockets : \A s \in Sessions :
        aState[a] = "answering" /\ aCur[a] = s /\ clients[s] = c
            ~> s \in got[c] \/ ~Serving(c) \/ clients[s] # c

-----------------------------------------------------------------------------
(* Stated by comments of the code, and not so.                             *)

\* The online flag is eventually consistent: while an agent is registered the
\* machine does not stay marked offline.
OnlineFlagConverges ==
    \A m \in Machines :
        agents[m] # None ~> m \in dbOnline \/ agents[m] = None

\* The cleanup of an older socket leaves alone what came with a newer one: it
\* ends no session that was offered over the newer socket.
TeardownSparesNewerSocket ==
    [][\A a, b \in AgentSockets : \A s \in atAgent[b] :
          aState[a] = "ending" /\ aState'[a] = "done" /\ status'[s] = "ended"
              => a = b \/ status[s] = "ended"]_vars
=============================================================================
