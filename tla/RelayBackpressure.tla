-------------------------- MODULE RelayBackpressure --------------------------
(***************************************************************************)
(* The two maps of SignalingState as what they are, tokio RwLocks, and the *)
(* forward channels as what they are, bounded queues:                      *)
(* apps/server/src/websocket.rs.                                           *)
(*                                                                         *)
(* notify_agent and send_to_client await room in a channel with the read   *)
(* guard of a map in their hands.  The task that would make room serves    *)
(* its socket and its channel from one loop, and to leave the loop it      *)
(* needs the write guard.  SignalingRelay models what the tasks do to the  *)
(* database and the maps and lets a full channel only delay its sender;    *)
(* this module leaves the database out and models who waits for whom.      *)
(*                                                                         *)
(* A client socket has one session here, as in apps/client, and queues are *)
(* represented by their lengths.                                           *)
(***************************************************************************)
EXTENDS Naturals, Sequences

CONSTANTS
    Machines,
    AgentSockets, ClientSockets,
    Requests,         \* POST /machines/{id}/connect requests
    AgentMachine,     \* the machine of an agent socket
    ClientMachine,    \* the machine of a client socket's session
    RequestMachine,   \* the machine a connect request is for
    ChannelSize,      \* WS_CHANNEL_SIZE
    MaxMessages,      \* bound on the messages peers send
    None

Tasks == AgentSockets \cup ClientSockets \cup Requests

ASSUME BackpressureAssumption ==
    /\ AgentMachine \in [AgentSockets -> Machines]
    /\ ClientMachine \in [ClientSockets -> Machines]
    /\ RequestMachine \in [Requests -> Machines]
    /\ ChannelSize \in Nat \ {0}
    /\ MaxMessages \in Nat
    /\ None \notin Tasks
    /\ AgentSockets \cap ClientSockets = {}
    /\ Requests \cap (AgentSockets \cup ClientSockets) = {}

VARIABLES
    agents,      \* the socket whose sender is in the map, per machine
    clients,     \* the client sockets whose session is in the map
    waiting,     \* for each map, the tasks that await its lock, in order
    readers,     \* for each map, the tasks that hold a read guard
    pc,          \* what a task does next
    peer,        \* the socket whose sender a task holds under a guard, or the
                 \* session of the message it handles
    toAgent,     \* messages in an agent socket's forward channel
    toClient,
    sent         \* messages sent by peers so far

lockVars == <<waiting, readers>>
vars == <<agents, clients, lockVars, pc, peer, toAgent, toClient, sent>>

-----------------------------------------------------------------------------
Maps == {"agents", "clients"}

\* "looking" awaits a read guard, "pushing" awaits room in a channel with the
\* guard held, "writing" is in socket.send, "closing" awaits the write guard.
State == {"idle", "registering", "running", "looking", "pushing", "writing",
          "closing", "done"}

TypeMaps ==
    /\ agents \in [Machines -> AgentSockets \cup {None}]
    /\ clients \in SUBSET ClientSockets

TypeLocks ==
    /\ waiting \in [Maps -> Seq(Tasks)]
    /\ readers \in [Maps -> SUBSET Tasks]

\* A task that looks a channel up or awaits room in it knows whose it is.
TypeTasks ==
    /\ pc \in [Tasks -> State]
    /\ peer \in [Tasks -> AgentSockets \cup ClientSockets \cup {None}]
    /\ \A a \in AgentSockets :
          pc[a] \in {"looking", "pushing"} => peer[a] \in ClientSockets
    /\ \A c \in ClientSockets : pc[c] = "pushing" => peer[c] \in AgentSockets

TypeChannels ==
    /\ toAgent \in [AgentSockets -> 0..ChannelSize]
    /\ toClient \in [ClientSockets -> 0..ChannelSize]
    /\ sent \in 0..MaxMessages

TypeOK == TypeMaps /\ TypeLocks /\ TypeTasks /\ TypeChannels

Init ==
    /\ agents = [m \in Machines |-> None]
    /\ clients = {}
    /\ waiting = [l \in Maps |-> <<>>]
    /\ readers = [l \in Maps |-> {}]
    /\ pc = [t \in Tasks |-> "idle"]
    /\ peer = [t \in Tasks |-> None]
    /\ toAgent = [a \in AgentSockets |-> 0]
    /\ toClient = [c \in ClientSockets |-> 0]
    /\ sent = 0

-----------------------------------------------------------------------------
(* tokio::sync::RwLock serves its waiters in order: a writer waits for the *)
(* readers before it, and a later reader waits for that writer.  No write  *)
(* guard is held across an await, so a writer's section is one step.       *)

Await(l, t) == waiting' = [waiting EXCEPT ![l] = Append(@, t)]

\* It is the task's turn; all but those that look something up want to write.
Granted(l, t) ==
    /\ waiting[l] # <<>>
    /\ Head(waiting[l]) = t
    /\ pc[t] # "looking" => readers[l] = {}

Served(l) == waiting' = [waiting EXCEPT ![l] = Tail(@)]

Become(t, from, to) ==
    /\ pc[t] = from
    /\ pc' = [pc EXCEPT ![t] = to]

\* A peer sends a message, within the bound.
PeerSends == sent < MaxMessages /\ sent' = sent + 1

-----------------------------------------------------------------------------
(* Agent sockets.                                                          *)

\* register_agent asks for the write guard.
AgentConnect(a) ==
    /\ Become(a, "idle", "registering")
    /\ Await("agents", a)
    /\ UNCHANGED <<agents, clients, readers, peer, toAgent, toClient, sent>>

AgentRegister(a) ==
    /\ Granted("agents", a) /\ Served("agents")
    /\ Become(a, "registering", "running")
    /\ agents' = [agents EXCEPT ![AgentMachine[a]] = a]
    /\ UNCHANGED <<clients, readers, peer, toAgent, toClient, sent>>

\* The agent sends an answer, or a candidate, for a session of its machine.
AgentMessage(a, c) ==
    /\ PeerSends
    /\ ClientMachine[c] = AgentMachine[a]
    /\ Become(a, "running", "looking")
    /\ Await("clients", a)
    /\ peer' = [peer EXCEPT ![a] = c]
    /\ UNCHANGED <<agents, clients, readers, toAgent, toClient>>

\* Mutant: the guard of the lookup is not dropped for an unknown session.
AgentLookKeepsGuard(a) ==
    /\ pc[a] = "looking"
    /\ Granted("clients", a) /\ Served("clients")
    /\ readers' = [readers EXCEPT !["clients"] = @ \cup {a}]
    /\ IF peer[a] \in clients
       THEN pc' = [pc EXCEPT ![a] = "pushing"] /\ UNCHANGED peer
       ELSE /\ pc' = [pc EXCEPT ![a] = "running"]
            /\ peer' = [peer EXCEPT ![a] = None]
    /\ UNCHANGED <<agents, clients, toAgent, toClient, sent>>

\* Mutant: the guard is dropped before the sender is used.
AgentLookDropsGuard(a) ==
    /\ pc[a] = "looking"
    /\ Granted("clients", a) /\ Served("clients")
    /\ IF peer[a] \in clients
       THEN pc' = [pc EXCEPT ![a] = "pushing"] /\ UNCHANGED peer
       ELSE /\ pc' = [pc EXCEPT ![a] = "running"]
            /\ peer' = [peer EXCEPT ![a] = None]
    /\ UNCHANGED <<agents, clients, readers, toAgent, toClient, sent>>

\* send_to_client has its guard: it drops it when the session is not
\* registered, and keeps it while it sends otherwise.
AgentLook(a) ==
    /\ pc[a] = "looking"
    /\ Granted("clients", a) /\ Served("clients")
    /\ IF peer[a] \in clients
       THEN /\ readers' = [readers EXCEPT !["clients"] = @ \cup {a}]
            /\ pc' = [pc EXCEPT ![a] = "pushing"]
            /\ UNCHANGED peer
       ELSE /\ pc' = [pc EXCEPT ![a] = "running"]
            /\ peer' = [peer EXCEPT ![a] = None]
            /\ UNCHANGED readers
    /\ UNCHANGED <<agents, clients, toAgent, toClient, sent>>

\* tx.send returns once there is room.  The sender in the map is never closed:
\* its task takes the entry out before it returns.
AgentPush(a) ==
    /\ Become(a, "pushing", "running")
    /\ toClient[peer[a]] < ChannelSize
    /\ toClient' = [toClient EXCEPT ![peer[a]] = @ + 1]
    /\ readers' = [readers EXCEPT !["clients"] = @ \ {a}]
    /\ peer' = [peer EXCEPT ![a] = None]
    /\ UNCHANGED <<agents, clients, waiting, toAgent, sent>>

\* The loop takes a message from the channel and writes it to the socket.
AgentForward(a) ==
    /\ toAgent[a] > 0
    /\ Become(a, "running", "writing")
    /\ toAgent' = [toAgent EXCEPT ![a] = @ - 1]
    /\ UNCHANGED <<agents, clients, lockVars, peer, toClient, sent>>

AgentWritten(a) ==
    /\ Become(a, "writing", "running")
    /\ UNCHANGED <<agents, clients, lockVars, peer, toAgent, toClient, sent>>

\* The loop ends, and the cleanup asks for the write guard.
AgentLeave(a, from) ==
    /\ Become(a, from, "closing")
    /\ Await("agents", a)
    /\ UNCHANGED <<agents, clients, readers, peer, toAgent, toClient, sent>>

\* The peer closes the socket, or it fails.
AgentBreak(a) == AgentLeave(a, "running") \/ AgentLeave(a, "writing")

\* Another socket has the machine's slot and the channel is drained.
AgentSuperseded(a) ==
    /\ toAgent[a] = 0
    /\ agents[AgentMachine[a]] # a
    /\ AgentLeave(a, "running")

\* unregister_agent_if_current; then the task returns and drops its receiver.
AgentUnregister(a) ==
    /\ Granted("agents", a) /\ Served("agents")
    /\ Become(a, "closing", "done")
    /\ agents' = [agents EXCEPT ![AgentMachine[a]] = IF @ = a THEN None ELSE @]
    /\ toAgent' = [toAgent EXCEPT ![a] = 0]
    /\ UNCHANGED <<clients, readers, peer, toClient, sent>>

-----------------------------------------------------------------------------
(* Client sockets.                                                         *)

ClientConnect(c) ==
    /\ Become(c, "idle", "running")
    /\ UNCHANGED <<agents, clients, lockVars, peer, toAgent, toClient, sent>>

\* A ConnectRequest: register_client_session asks for the write guard.
ClientRequest(c) ==
    /\ PeerSends
    /\ Become(c, "running", "registering")
    /\ Await("clients", c)
    /\ UNCHANGED <<agents, clients, readers, peer, toAgent, toClient>>

\* The session is registered and notify_agent asks for the read guard.
ClientRegister(c) ==
    /\ Granted("clients", c)
    /\ Become(c, "registering", "looking")
    /\ waiting' = [waiting EXCEPT
          !["clients"] = Tail(@),
          !["agents"] = Append(@, c)]
    /\ clients' = clients \cup {c}
    /\ UNCHANGED <<agents, readers, peer, toAgent, toClient, sent>>

\* A SignalingOffer or an IceCandidate goes straight to notify_agent.
ClientMessage(c) ==
    /\ PeerSends
    /\ Become(c, "running", "looking")
    /\ Await("agents", c)
    /\ UNCHANGED <<agents, clients, readers, peer, toAgent, toClient>>

\* notify_agent has its guard.
ClientLook(c) ==
    /\ pc[c] = "looking"
    /\ Granted("agents", c) /\ Served("agents")
    /\ LET a == agents[ClientMachine[c]]
       IN IF a # None
          THEN /\ readers' = [readers EXCEPT !["agents"] = @ \cup {c}]
               /\ pc' = [pc EXCEPT ![c] = "pushing"]
               /\ peer' = [peer EXCEPT ![c] = a]
          ELSE /\ pc' = [pc EXCEPT ![c] = "running"]
               /\ UNCHANGED <<readers, peer>>
    /\ UNCHANGED <<agents, clients, toAgent, toClient, sent>>

\* Mutant: the guard is dropped only when the message was not sent.
ClientPushKeepsGuard(c) ==
    /\ Become(c, "pushing", "running")
    /\ toAgent[peer[c]] < ChannelSize
    /\ toAgent' = [toAgent EXCEPT ![peer[c]] = @ + 1]
    /\ peer' = [peer EXCEPT ![c] = None]
    /\ UNCHANGED <<agents, clients, lockVars, toClient, sent>>

ClientPush(c) ==
    /\ Become(c, "pushing", "running")
    /\ toAgent[peer[c]] < ChannelSize
    /\ toAgent' = [toAgent EXCEPT ![peer[c]] = @ + 1]
    /\ readers' = [readers EXCEPT !["agents"] = @ \ {c}]
    /\ peer' = [peer EXCEPT ![c] = None]
    /\ UNCHANGED <<agents, clients, waiting, toClient, sent>>

ClientForward(c) ==
    /\ toClient[c] > 0
    /\ Become(c, "running", "writing")
    /\ toClient' = [toClient EXCEPT ![c] = @ - 1]
    /\ UNCHANGED <<agents, clients, lockVars, peer, toAgent, sent>>

ClientWritten(c) ==
    /\ Become(c, "writing", "running")
    /\ UNCHANGED <<agents, clients, lockVars, peer, toAgent, toClient, sent>>

\* The socket is closed or fails; the cleanup asks for the write guard.
ClientBreak(c) ==
    /\ Become(c, "running", "closing") \/ Become(c, "writing", "closing")
    /\ Await("clients", c)
    /\ UNCHANGED <<agents, clients, readers, peer, toAgent, toClient, sent>>

\* unregister_client_sessions; then the task returns and drops its receiver.
ClientUnregister(c) ==
    /\ Granted("clients", c) /\ Served("clients")
    /\ Become(c, "closing", "done")
    /\ clients' = clients \ {c}
    /\ toClient' = [toClient EXCEPT ![c] = 0]
    /\ UNCHANGED <<agents, readers, peer, toAgent, sent>>

-----------------------------------------------------------------------------
(* The connect endpoint.                                                   *)

RequestArrives(r) ==
    /\ Become(r, "idle", "looking")
    /\ Await("agents", r)
    /\ UNCHANGED <<agents, clients, readers, peer, toAgent, toClient, sent>>

\* is_agent_online reads the map and drops the guard.
RequestAnswered(r) ==
    /\ Granted("agents", r) /\ Served("agents")
    /\ Become(r, "looking", "done")
    /\ UNCHANGED <<agents, clients, readers, peer, toAgent, toClient, sent>>

-----------------------------------------------------------------------------
\* What the server does by itself, and what it does once a peer has read what
\* was written to it.
AgentTask(a) ==
    \/ AgentRegister(a) \/ AgentLook(a) \/ AgentPush(a) \/ AgentForward(a)
    \/ AgentWritten(a) \/ AgentSuperseded(a) \/ AgentUnregister(a)

ClientTask(c) ==
    \/ ClientRegister(c) \/ ClientLook(c) \/ ClientPush(c) \/ ClientForward(c)
    \/ ClientWritten(c) \/ ClientUnregister(c)

Peers ==
    \/ \E a \in AgentSockets :
          \/ AgentConnect(a) \/ AgentBreak(a)
          \/ \E c \in ClientSockets : AgentMessage(a, c)
    \/ \E c \in ClientSockets :
          ClientConnect(c) \/ ClientRequest(c) \/ ClientMessage(c)
          \/ ClientBreak(c)
    \/ \E r \in Requests : RequestArrives(r)

Server ==
    \/ \E a \in AgentSockets : AgentTask(a)
    \/ \E c \in ClientSockets : ClientTask(c)
    \/ \E r \in Requests : RequestAnswered(r)

Next == Server \/ Peers

Spec == Init /\ [][Next]_vars

\* Every task that can move does, and every peer reads what it is sent: the
\* kindest environment the relay can have.
Fairness ==
    /\ \A a \in AgentSockets : WF_vars(AgentTask(a)) /\ SF_vars(AgentForward(a))
    /\ \A c \in ClientSockets : WF_vars(ClientTask(c))
                                /\ SF_vars(ClientForward(c))
    /\ \A r \in Requests : WF_vars(RequestAnswered(r))

FairSpec == Spec /\ Fairness

-----------------------------------------------------------------------------
(* Properties.                                                             *)

\* A sender is only used while its channel is open: whoever holds one under a
\* guard keeps the entry in the map, and the entry keeps the receiver's task
\* from returning.
SendsToOpenChannel ==
    \A t \in AgentSockets \cup ClientSockets :
        pc[t] = "pushing" => pc[peer[t]] \notin {"idle", "done"}

\* A task is within a call of SignalingState.
Calling(t) == pc[t] \in {"registering", "looking", "pushing", "closing"}

\* The channel a task with a guard awaits room in is full, and its receiver is
\* itself in a call instead of in its loop.
BlockedReceiver(t) ==
    /\ pc[t] = "pushing"
    /\ Calling(peer[t])
    /\ IF t \in AgentSockets THEN toClient[peer[t]] = ChannelSize
                             ELSE toAgent[peer[t]] = ChannelSize

\* What lets a task go on by itself: its turn at a lock, room in the channel it
\* sends to, a message in its own, the peer that reads. (A superseded agent may
\* leave, too, but nothing waits for that.)
LockServes(t) ==
    \/ pc[t] \in {"registering", "closing"}
       /\ Granted(IF t \in AgentSockets THEN "agents" ELSE "clients", t)
    \/ pc[t] = "looking" /\ Granted(IF t \in AgentSockets THEN "clients" ELSE "agents", t)

MayMove ==
    \/ \E t \in Tasks : LockServes(t)
    \/ \E a \in AgentSockets :
          \/ pc[a] = "pushing" /\ toClient[peer[a]] < ChannelSize
          \/ pc[a] = "running" /\ toAgent[a] > 0
    \/ \E c \in ClientSockets :
          \/ pc[c] = "pushing" /\ toAgent[peer[c]] < ChannelSize
          \/ pc[c] = "running" /\ toClient[c] > 0
    \/ \E t \in AgentSockets \cup ClientSockets : pc[t] = "writing"

\* The locks themselves do not deadlock: when no task may move and some task is
\* in a call, it is because some sender holds a guard before a full channel
\* whose receiver is not in its loop.
StallNeedsFullChannel ==
    (\E t \in Tasks : Calling(t)) /\ ~MayMove
        => \E t \in Tasks : BlockedReceiver(t)

\* Every call of SignalingState returns, and a connect request is answered, unless
\* from some time on there is always a sender before a full channel whose receiver
\* is in a call itself. A full channel alone holds up nobody for ever: the loop
\* behind it makes room, and the calls queued behind the guard have their turn.
CallsReturn ==
    \A t \in Tasks :
        []<>~Calling(t) \/ <>[](\E u \in Tasks : BlockedReceiver(u))

\* notify_agent "returns `false` if [...] its forward channel is closed/full":
\* it returns.
NotifyReturns ==
    \A c \in ClientSockets : pc[c] = "pushing" ~> pc[c] # "pushing"
=============================================================================
