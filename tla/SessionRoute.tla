----------------------------- MODULE SessionRoute -----------------------------
(* The route of one session in Redis: which process serves its client and    *)
(* which its agent. It is written for the connect request, written again by  *)
(* the client's socket, deleted by the socket's cleanup, and otherwise runs  *)
(* out. Another session has another key. Redis calls are steps of their own  *)
(* and may fail; the presence entry read for the agent's side is any         *)
(* (RedisPresence says which).                                               *)
EXTENDS Naturals

CONSTANTS
    RouteInstances, \* ids of the server processes
    ConnectsAt,     \* the process that answers the connect request
    ClientsAt,      \* the processes the client's sockets reach, by socket
    MaxRouteFaults  \* bound on failed calls and crashes

RSockets == DOMAIN ClientsAt

ASSUME RouteAssumption ==
    /\ ConnectsAt \in RouteInstances
    /\ ClientsAt \in [RSockets -> RouteInstances]
    /\ MaxRouteFaults \in Nat

VARIABLES
    route,      \* the session's hash: a record, or NoRoute
    connecting, \* where the connect request is
    rsock,      \* where the task of each client socket is
    seen,       \* the agent instance each of them read
    routeFaults \* failed calls and crashes so far

routeVars == <<route, connecting, rsock, seen, routeFaults>>

NoRoute == [client |-> "none", agent |-> "none"]
Requester == "connect"
Readers == RSockets \cup {Requester}

RouteTypeOK ==
    /\ route \in [client : RouteInstances, agent : RouteInstances] \cup {NoRoute}
    /\ connecting \in {"inserted", "recording", "answered"}
    /\ rsock \in [RSockets -> {"away", "registered", "recording", "owned", "closing", "closed"}]
    /\ seen \in [Readers -> RouteInstances]
    /\ routeFaults \in 0 .. MaxRouteFaults

RouteInit ==
    /\ route = NoRoute
    /\ connecting = "inserted"
    /\ rsock = [s \in RSockets |-> "away"]
    /\ seen = [r \in Readers |-> ConnectsAt]
    /\ routeFaults = 0

(* The call reaches Redis, or fails, which the callers log and survive.     *)
RouteCall(applied, failed) ==
    \/ applied /\ UNCHANGED routeFaults
    \/ failed /\ routeFaults < MaxRouteFaults /\ routeFaults' = routeFaults + 1

(* redis_agent_presence(...).unwrap_or own instance id.                     *)
ReadsPresence(reader, own) ==
    RouteCall(\E i \in RouteInstances : seen' = [seen EXCEPT ![reader] = i],
              seen' = [seen EXCEPT ![reader] = own])

(* set_session_route: HSET of every field, and EXPIRE.                      *)
SetsRoute(reader, own) ==
    RouteCall(route' = [client |-> own, agent |-> seen[reader]], UNCHANGED route)

(* Mutant: the request is answered, and the route recorded by a task.       *)
RecordInBackground ==
    \/ /\ connecting = "inserted"
       /\ ReadsPresence(Requester, ConnectsAt)
       /\ connecting' = "answered"
       /\ UNCHANGED <<route, rsock>>
    \/ /\ connecting = "answered"
       /\ SetsRoute(Requester, ConnectsAt)
       /\ UNCHANGED <<connecting, rsock, seen>>

(* record_session_route, before the connect request is answered.            *)
RecordSessionRoute ==
    \/ /\ connecting = "inserted"
       /\ ReadsPresence(Requester, ConnectsAt)
       /\ connecting' = "recording"
       /\ UNCHANGED <<route, rsock>>
    \/ /\ connecting = "recording"
       /\ SetsRoute(Requester, ConnectsAt)
       /\ connecting' = "answered"
       /\ UNCHANGED <<rsock, seen>>

(* register_client_session: the client's entry, then the route.             *)
RegisterClientRoute(s) ==
    \/ /\ rsock[s] = "away" /\ connecting = "answered"
       /\ rsock' = [rsock EXCEPT ![s] = "registered"]
       /\ UNCHANGED <<route, connecting, seen, routeFaults>>
    \/ /\ rsock[s] = "registered"
       /\ ReadsPresence(s, ClientsAt[s])
       /\ rsock' = [rsock EXCEPT ![s] = "recording"]
       /\ UNCHANGED <<route, connecting>>
    \/ /\ rsock[s] = "recording"
       /\ SetsRoute(s, ClientsAt[s])
       /\ rsock' = [rsock EXCEPT ![s] = "owned"]
       /\ UNCHANGED <<connecting, seen>>

(* The client leaves; its task handles one message at a time, so not while  *)
(* it registers.                                                             *)
RouteClientLeaves(s) ==
    /\ rsock[s] = "owned"
    /\ rsock' = [rsock EXCEPT ![s] = "closing"]
    /\ UNCHANGED <<route, connecting, seen, routeFaults>>

(* clear_session_route: DEL, whoever wrote the route.                       *)
ClearSessionRoute(s) ==
    /\ rsock[s] = "closing"
    /\ RouteCall(route' = NoRoute, UNCHANGED route)
    /\ rsock' = [rsock EXCEPT ![s] = "closed"]
    /\ UNCHANGED <<connecting, seen>>

(* The time to live runs out: nothing refreshes a route.                    *)
RouteExpires ==
    /\ route # NoRoute
    /\ route' = NoRoute
    /\ UNCHANGED <<connecting, rsock, seen, routeFaults>>

(* A process dies with its sockets; the route stays. A crash during the     *)
(* connect request only means that no client comes, so it is left out.       *)
RouteCrash(i) ==
    /\ routeFaults < MaxRouteFaults
    /\ routeFaults' = routeFaults + 1
    /\ rsock' = [s \in RSockets |->
                   IF ClientsAt[s] = i /\ rsock[s] # "away" THEN "closed" ELSE rsock[s]]
    /\ connecting # "answered" => i # ConnectsAt
    /\ UNCHANGED <<route, connecting, seen>>

RouteNext ==
    \/ RecordSessionRoute
    \/ \E s \in RSockets : RegisterClientRoute(s) \/ RouteClientLeaves(s) \/ ClearSessionRoute(s)
    \/ RouteExpires
    \/ \E i \in RouteInstances : RouteCrash(i)

RouteSpec == RouteInit /\ [][RouteNext]_routeVars

-----------------------------------------------------------------------------
(* A route that is there is under way to a cleanup: when every socket that  *)
(* came for the session is gone, so is its route, although each deletes it   *)
(* without looking and the connect request writes it too. Failed calls and   *)
(* crashes leave it to its time to live (record_session_route,              *)
(* register_client_session, unregister_client_sessions).                     *)
RouteEndsWithClient ==
    /\ routeFaults = 0
    /\ \E s \in RSockets : rsock[s] = "closed"
    /\ \A s \in RSockets : rsock[s] \in {"away", "closed"}
    => route = NoRoute
=============================================================================
