-------------------------- MODULE MCSignalingRelay --------------------------
(* Instances of the signaling relay for TLC.                                  *)
EXTENDS RelayRefinement, TLC

CONSTANTS m1, m2, a1, a2, a3, c1, c2, s1, s2, u1, u2

\* One machine and one user: everything that can meet, meets.
OneMachine == {m1}
OneUser == {u1}
AgentsOfOne == [a \in AgentSockets |-> m1]
ClientsOfOne == [c \in ClientSockets |-> u1]
SessionsByOne == [s \in Sessions |-> u1]
SessionsOnOne == [s \in Sessions |-> m1]

\* Two machines and two users, with a session of each user on each machine.
AgentsOfTwo == a1 :> m1 @@ a2 :> m2
ClientsOfTwo == c1 :> u1 @@ c2 :> u2
SessionsByTwo == s1 :> u1 @@ s2 :> u2
SessionsOnTwo == s1 :> m1 @@ s2 :> m2

\* The sockets of a machine are interchangeable, and so are the clients and the
\* sessions of a user.
Symmetry == Permutations(AgentSockets) \cup Permutations(ClientSockets)
                                       \cup Permutations(Sessions)
=============================================================================
