--------------------------- MODULE MCRedisPresence ---------------------------
(* An instance of RedisPresence: one process and two sockets of the machine, *)
(* the agent's before and after it reconnects.                               *)
EXTENDS RedisPresence

CONSTANTS i1, p1, p2

OneInstance == {i1}
OldAndNew == {p1, p2}
ServedByOne == [s \in PSockets |-> i1]
=============================================================================
