------------------------ MODULE MCRelayBackpressure ------------------------
(* Instances of RelayBackpressure: one machine whose agent may reconnect.   *)
EXTENDS RelayBackpressure

CONSTANTS m1, a1, a2, c1, c2, r1

OneMachine == {m1}
OneAgent == {a1}
TwoAgents == {a1, a2}
OneClient == {c1}
TwoClients == {c1, c2}
OneRequest == {r1}
AgentsOn == [t \in AgentSockets |-> m1]
ClientsOn == [t \in ClientSockets |-> m1]
RequestsOn == [t \in Requests |-> m1]
=============================================================================
