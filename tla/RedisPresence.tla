---------------------------- MODULE RedisPresence ----------------------------
(* The presence entry several server processes keep in Redis for a machine,  *)
(* with a time to live. The keys of machines do not interact, so there is    *)
(* one. An agent socket is served by InstanceOf[s]; conn ids are counted per *)
(* process and start again with it, under the same configured instance id.   *)
(* A Redis call is a step of its own after the map's lock is released, and   *)
(* may fail. Time passes by Tick, in units of the shortest refresh interval  *)
(* (10 s); a socket's loop reaches a due refresh within a unit.              *)
EXTENDS Naturals

CONSTANTS
    Instances,      \* ids of the server processes
    NoInstance,     \* no such id
    PSockets,       \* agent sockets of the machine, one connection each
    InstanceOf,     \* the process that serves a socket
    Ttls,           \* values of SIGNALING_TTL_SECONDS, in units
    MinRefresh,     \* the shortest refresh interval, in units
    MaxRedisFaults  \* bound on failed calls and crashes

ASSUME PresenceAssumption ==
    /\ NoInstance \notin Instances
    /\ InstanceOf \in [PSockets -> Instances]
    /\ Ttls \subseteq Nat \ {0}
    /\ MinRefresh \in Nat \ {0}
    /\ MaxRedisFaults \in Nat

VARIABLES
    ttl,        \* the time to live in force
    hold,       \* hold[i]: the conn id in process i's map, 0 if none
    nextId,     \* nextId[i]: the next conn id of process i
    sock,       \* sock[s]: where the task of agent socket s is
    sockId,     \* sockId[s]: its conn id
    dueIn,      \* dueIn[s]: time to the next tick of its presence_refresh
    presence,   \* the machine's hash in Redis
    redisFaults \* failed calls and crashes so far

presenceVars == <<ttl, hold, nextId, sock, sockId, dueIn, presence, redisFaults>>

(* A hash whose time has run out is absent; DEL leaves the same.            *)
Absent == [inst |-> NoInstance, conn |-> 0, left |-> 0]

RefreshEvery == IF ttl \div 3 > MinRefresh THEN ttl \div 3 ELSE MinRefresh

SockStages == {"away", "mapped", "serving", "leaving", "clearing", "gone"}

PresenceTypeOK ==
    /\ ttl \in Ttls
    /\ hold \in [Instances -> Nat]
    /\ nextId \in [Instances -> Nat \ {0}]
    /\ sock \in [PSockets -> SockStages]
    /\ sockId \in [PSockets -> Nat]
    /\ dueIn \in [PSockets -> Nat]
    /\ presence \in [inst : Instances \cup {NoInstance}, conn : Nat, left : 0 .. ttl]
    /\ redisFaults \in 0 .. MaxRedisFaults

PresenceInit ==
    /\ ttl \in Ttls
    /\ hold = [i \in Instances |-> 0]
    /\ nextId = [i \in Instances |-> 1]
    /\ sock = [s \in PSockets |-> "away"]
    /\ sockId = [s \in PSockets |-> 0]
    /\ dueIn = [s \in PSockets |-> 0]
    /\ presence = Absent
    /\ redisFaults = 0

(* The call reaches Redis, or fails, which the callers log and survive.     *)
RedisCall(applied, failed) ==
    \/ applied /\ UNCHANGED redisFaults
    \/ failed /\ redisFaults < MaxRedisFaults /\ redisFaults' = redisFaults + 1

Holds(s) == hold[InstanceOf[s]] = sockId[s]

(* Compare of both scripts: instance id and conn id.                        *)
EntryIs(s) ==
    presence.left > 0 /\ presence.inst = InstanceOf[s] /\ presence.conn = sockId[s]
(* Mutant: conn ids are taken for unique across processes.                  *)
EntryHasId(s) == presence.left > 0 /\ presence.conn = sockId[s]

-----------------------------------------------------------------------------
(* Agent sockets                                                             *)

(* next_conn_id and the insertion under the lock.                           *)
PresenceRegister(s) ==
    /\ sock[s] = "away"
    /\ LET i == InstanceOf[s] IN
        /\ sockId' = [sockId EXCEPT ![s] = nextId[i]]
        /\ nextId' = [nextId EXCEPT ![i] = @ + 1]
        /\ hold' = [hold EXCEPT ![i] = nextId[i]]
    /\ sock' = [sock EXCEPT ![s] = "mapped"]
    /\ UNCHANGED <<ttl, dueIn, presence, redisFaults>>

(* set_agent_online; the interval that starts after it ticks at once.       *)
SetAgentOnline(s) ==
    /\ sock[s] = "mapped"
    /\ RedisCall(presence' = [inst |-> InstanceOf[s], conn |-> sockId[s], left |-> ttl],
                 UNCHANGED presence)
    /\ sock' = [sock EXCEPT ![s] = "serving"]
    /\ UNCHANGED <<ttl, hold, nextId, sockId, dueIn>>

(* Mutant: the script stamps last_seen_ms and forgets EXPIRE.               *)
StampedOnly(s) == presence
(* Mutant: refreshes whatever entry carries this conn id.                   *)
ExtendedById(s) == IF EntryHasId(s) THEN [presence EXCEPT !.left = ttl] ELSE presence

(* refresh_agent: the script extends an entry that is this connection's.    *)
Extended(s) == IF EntryIs(s) THEN [presence EXCEPT !.left = ttl] ELSE presence

(* A tick of presence_refresh, or a heartbeat of the agent.                 *)
RefreshAgent(s) ==
    /\ sock[s] = "serving"
    /\ RedisCall(presence' = Extended(s), UNCHANGED presence)
    /\ \/ dueIn[s] = 0 /\ dueIn' = [dueIn EXCEPT ![s] = RefreshEvery]
       \/ UNCHANGED dueIn
    /\ UNCHANGED <<ttl, hold, nextId, sock, sockId>>

(* The socket closes, or its sender was replaced in the map and rx ends.    *)
PresenceLeave(s) ==
    /\ sock[s] = "serving"
    /\ sock' = [sock EXCEPT ![s] = "leaving"]
    /\ UNCHANGED <<ttl, hold, nextId, sockId, dueIn, presence, redisFaults>>

(* unregister_agent_if_current under the lock.                              *)
PresenceUnregister(s) ==
    /\ sock[s] = "leaving"
    /\ IF Holds(s)
         THEN /\ hold' = [hold EXCEPT ![InstanceOf[s]] = 0]
              /\ sock' = [sock EXCEPT ![s] = "clearing"]
         ELSE /\ sock' = [sock EXCEPT ![s] = "gone"]
              /\ UNCHANGED hold
    /\ UNCHANGED <<ttl, nextId, sockId, dueIn, presence, redisFaults>>

(* clear_agent: the script deletes an entry that is this connection's.      *)
ClearAgent(s) ==
    /\ sock[s] = "clearing"
    /\ RedisCall(presence' = IF EntryIs(s) THEN Absent ELSE presence, UNCHANGED presence)
    /\ sock' = [sock EXCEPT ![s] = "gone"]
    /\ UNCHANGED <<ttl, hold, nextId, sockId, dueIn>>

-----------------------------------------------------------------------------
(* Time and faults                                                           *)

Older(entry) == IF entry.left > 1 THEN [entry EXCEPT !.left = @ - 1] ELSE Absent

(* Redis counts down; no loop is behind with a refresh.                     *)
Tick ==
    /\ \A s \in PSockets : sock[s] = "serving" => dueIn[s] > 0
    /\ presence' = Older(presence)
    /\ dueIn' = [s \in PSockets |-> IF sock[s] = "serving" THEN dueIn[s] - 1 ELSE dueIn[s]]
    /\ UNCHANGED <<ttl, hold, nextId, sock, sockId, redisFaults>>

(* A process dies with its sockets and starts again with an empty map.      *)
InstanceCrash(i) ==
    /\ redisFaults < MaxRedisFaults
    /\ redisFaults' = redisFaults + 1
    /\ sock' = [s \in PSockets |->
                  IF InstanceOf[s] = i /\ sock[s] # "away" THEN "gone" ELSE sock[s]]
    /\ hold' = [hold EXCEPT ![i] = 0]
    /\ nextId' = [nextId EXCEPT ![i] = 1]
    /\ UNCHANGED <<ttl, sockId, dueIn, presence>>

AgentStep(s) ==
    \/ PresenceRegister(s) \/ SetAgentOnline(s) \/ RefreshAgent(s)
    \/ PresenceLeave(s) \/ PresenceUnregister(s) \/ ClearAgent(s)

PresenceNext ==
    \/ \E s \in PSockets : AgentStep(s)
    \/ Tick
    \/ \E i \in Instances : InstanceCrash(i)

(* A replaced socket's loop ends; the cleanup of a socket and a due refresh *)
(* run; time passes.                                                         *)
PresenceFairness ==
    /\ WF_presenceVars(Tick)
    /\ \A s \in PSockets :
        /\ WF_presenceVars(SetAgentOnline(s))
        /\ WF_presenceVars(dueIn[s] = 0 /\ RefreshAgent(s))
        /\ WF_presenceVars(~Holds(s) /\ PresenceLeave(s))
        /\ WF_presenceVars(PresenceUnregister(s))

PresenceSpec == PresenceInit /\ [][PresenceNext]_presenceVars /\ PresenceFairness

-----------------------------------------------------------------------------
(* Properties                                                                *)

(* Another socket of the machine writes the entry: a newer one, or one that  *)
(* was replaced in the map before its write.                                 *)
TakenFrom(s) ==
    \E r \in PSockets \ {s} : sock[r] = "mapped" /\ sock'[r] = "serving" /\ EntryIs(r)'

(* While no call failed, the entry of a serving socket stays its own until   *)
(* another one's set_agent_online takes it: no late cleanup deletes it, no   *)
(* refresh of another socket turns it over, and it does not run out between  *)
(* refreshes if the time to live is longer than the refresh interval at all  *)
(* (which never goes below 10 s; refresh_agent, clear_agent). Of two sockets *)
(* the one that writes last has it, which may be the replaced one: see       *)
(* LiveAgentIsSeen.                                                          *)
PresenceHeld ==
    [][\A s \in PSockets :
         /\ redisFaults' = 0 /\ ttl > RefreshEvery
         /\ EntryIs(s) /\ sock[s] = "serving" /\ sock'[s] = "serving"
         => EntryIs(s)' \/ TakenFrom(s)]_presenceVars

(* An entry left by a process that died, or written late by a socket that   *)
(* was replaced meanwhile, does not stay: whoever else is connected does    *)
(* not keep it alive.                                                        *)
StaleEntry == presence.left > 0 /\ ~\E s \in PSockets : EntryIs(s) /\ Holds(s)
StalePresenceFades == StaleEntry ~> ~StaleEntry

(* The presence entry belongs to the socket that wrote it last: it stays     *)
(* while that serves (PresenceHeld), and does not stay when the map knows it *)
(* no more (StalePresenceFades), through set_agent_online, presence_refresh  *)
(* and clear_agent. That it names the live socket is not implied.            *)
PresenceFollowsSocket == PresenceHeld /\ StalePresenceFades

(* What docs/server/api.md promises operators: they see which process owns   *)
(* an agent. An agent whose socket serves from some time on, in the map, is  *)
(* found again and again under its own process. The code does not keep this  *)
(* (register_agent writes after the map's lock is released, refresh_agent    *)
(* only extends what is there).                                              *)
LiveAgentIsSeen ==
    \A s \in PSockets :
        <>[](sock[s] = "serving" /\ Holds(s)) =>
            []<>(presence.left > 0 /\ presence.inst = InstanceOf[s])
=============================================================================
