--------------------------- MODULE RelayRefinement ---------------------------
(* SignalingRelay, with its interleaved steps, implements RelayService.     *)
EXTENDS SignalingRelay

\* The sockets whose registration is behind them.
Served == {a \in AgentSockets : aState[a] \notin {"idle", "opening",
                                                  "registering"}}

Service == INSTANCE RelayService WITH holder <- agents, served <- Served

\* Whatever the interleaving of socket tasks, requests and crashes, the slots
\* and the sessions change as RelayService says: no socket comes back to a slot
\* it lost, and no answer revives an ended session.
ImplementsService == Service!Spec
=============================================================================
