----------------------------- MODULE ServerProofs -----------------------------
(* Theorems about what the server keeps, in Redis, in the database and in    *)
(* memory: RedisPresence and SessionRoute for any processes, sockets and     *)
(* times to live, MachineTokens for any rotations, Organizations for any     *)
(* users and roles of the provider, Billing for any deliveries of the        *)
(* provider's events, and SignInGate for any keys, limits and windows; all   *)
(* for any bounds on requests and on what fails.                             *)
EXTENDS RedisPresence, SessionRoute, MachineTokens, Organizations, Billing, SignInGate,
        SequenceTheorems, FiniteSetTheorems, TLAPS

-----------------------------------------------------------------------------
(* SessionRoute                                                               *)

(* A client comes when its connect request was answered.                      *)
RequestFirst == \A s \in RSockets : rsock[s] # "away" => connecting = "answered"

RouteStages == {"away", "registered", "recording", "owned", "closing", "closed"}

(* RouteTypeOK holds of every state of the module.                            *)
THEOREM RouteTyped == RouteSpec => []RouteTypeOK
<1>1. RouteInit => RouteTypeOK
  BY RouteAssumption DEF RouteInit, RouteTypeOK
<1>2. RouteTypeOK /\ [RouteNext]_routeVars => RouteTypeOK'
  <2> SUFFICES ASSUME RouteTypeOK, [RouteNext]_routeVars PROVE RouteTypeOK'
    OBVIOUS
  <2> USE RouteAssumption DEF RouteTypeOK
  <2>1. ASSUME NEW reader \in Readers, NEW own \in RouteInstances, ReadsPresence(reader, own)
        PROVE  seen' \in [Readers -> RouteInstances] /\ routeFaults' \in 0 .. MaxRouteFaults
    BY <2>1 DEF ReadsPresence, RouteCall
  <2>2. ASSUME NEW reader \in Readers, NEW own \in RouteInstances, SetsRoute(reader, own)
        PROVE  /\ route' \in [client : RouteInstances, agent : RouteInstances] \cup {NoRoute}
               /\ routeFaults' \in 0 .. MaxRouteFaults
    <3>1. seen[reader] \in RouteInstances
      OBVIOUS
    <3> QED BY <2>2, <3>1 DEF SetsRoute, RouteCall
  <2>3. Requester \in Readers /\ \A s \in RSockets : s \in Readers /\ ClientsAt[s] \in RouteInstances
    BY DEF Readers, RSockets
  <2>4. CASE RecordSessionRoute
    BY <2>1, <2>2, <2>3, <2>4 DEF RecordSessionRoute
  <2>5. ASSUME NEW s \in RSockets, RegisterClientRoute(s) PROVE RouteTypeOK'
    BY <2>1, <2>2, <2>3, <2>5 DEF RegisterClientRoute
  <2>6. ASSUME NEW s \in RSockets, RouteClientLeaves(s) PROVE RouteTypeOK'
    BY <2>6 DEF RouteClientLeaves
  <2>7. ASSUME NEW s \in RSockets, ClearSessionRoute(s) PROVE RouteTypeOK'
    BY <2>7 DEF ClearSessionRoute, RouteCall
  <2>8. CASE RouteExpires
    BY <2>8 DEF RouteExpires
  <2>9. ASSUME NEW i \in RouteInstances, RouteCrash(i) PROVE RouteTypeOK'
    BY <2>9 DEF RouteCrash
  <2>10. CASE UNCHANGED routeVars
    BY <2>10 DEF routeVars
  <2> QED BY <2>4, <2>5, <2>6, <2>7, <2>8, <2>9, <2>10 DEF RouteNext
<1> QED BY <1>1, <1>2, PTL DEF RouteSpec

(* RouteEndsWithClient: when every socket that came for the session is gone    *)
(* and no call failed, clear_session_route has removed the route for good.    *)
THEOREM RoutesEnd == RouteSpec => []RouteEndsWithClient
<1> DEFINE Inv == RequestFirst /\ RouteEndsWithClient
<1>1. RouteInit => Inv
  BY DEF RouteInit, RequestFirst, RouteEndsWithClient
<1>2. RouteTypeOK /\ Inv /\ [RouteNext]_routeVars => Inv'
  <2> SUFFICES ASSUME RouteTypeOK, Inv, [RouteNext]_routeVars PROVE Inv'
    OBVIOUS
  <2> USE DEF RequestFirst, RouteEndsWithClient
  <2>0. rsock \in [RSockets -> RouteStages] /\ routeFaults \in Nat
    BY RouteAssumption DEF RouteTypeOK, RouteStages
  <2>1. CASE RecordSessionRoute
    <3>1. UNCHANGED rsock /\ connecting # "answered"
      BY <2>1 DEF RecordSessionRoute
    <3> QED BY <2>0, <3>1
  <2>2. ASSUME NEW s \in RSockets, RegisterClientRoute(s) PROVE Inv'
    <3>1. /\ rsock'[s] \in {"registered", "recording", "owned"}
          /\ \A t \in RSockets : t # s => rsock'[t] = rsock[t]
          /\ connecting = "answered" /\ connecting' = connecting
      BY <2>0, <2>2 DEF RegisterClientRoute
    <3> QED BY <3>1
  <2>3. ASSUME NEW s \in RSockets, RouteClientLeaves(s) PROVE Inv'
    BY <2>0, <2>3 DEF RouteClientLeaves
  <2>4. ASSUME NEW s \in RSockets, ClearSessionRoute(s) PROVE Inv'
    <3>1. connecting = "answered" /\ connecting' = connecting
      BY <2>4 DEF ClearSessionRoute
    <3>2. routeFaults' = 0 => route' = NoRoute
      BY <2>0, <2>4 DEF ClearSessionRoute, RouteCall
    <3> QED BY <2>0, <2>4, <3>1, <3>2 DEF ClearSessionRoute
  <2>5. CASE RouteExpires
    BY <2>5 DEF RouteExpires
  <2>6. ASSUME NEW i \in RouteInstances, RouteCrash(i) PROVE Inv'
    <3>1. routeFaults' # 0 /\ connecting' = connecting
      BY <2>0, <2>6 DEF RouteCrash
    <3>2. \A t \in RSockets : rsock'[t] # "away" => rsock[t] # "away"
      BY <2>0, <2>6 DEF RouteCrash
    <3> QED BY <3>1, <3>2
  <2>7. CASE UNCHANGED routeVars
    BY <2>7 DEF routeVars
  <2> QED BY <2>1, <2>2, <2>3, <2>4, <2>5, <2>6, <2>7 DEF RouteNext
<1>3. Inv => RouteEndsWithClient
  OBVIOUS
<1> QED BY <1>1, <1>2, <1>3, RouteTyped, PTL DEF RouteSpec

-----------------------------------------------------------------------------
(* RedisPresence                                                              *)

Entries == [inst : Instances \cup {NoInstance}, conn : Nat, left : 0 .. ttl]

(* The interval of presence_refresh is a number, whatever the time to live.   *)
LEMMA IntervalTyped == PresenceTypeOK => RefreshEvery \in Nat /\ ttl \in Nat \ {0}
<1> SUFFICES ASSUME PresenceTypeOK PROVE RefreshEvery \in Nat /\ ttl \in Nat \ {0}
  OBVIOUS
<1>1. ttl \in Nat \ {0} /\ MinRefresh \in Nat
  BY PresenceAssumption DEF PresenceTypeOK
<1>2. ttl \div 3 \in Nat
  BY <1>1
<1> QED BY <1>1, <1>2 DEF RefreshEvery

(* What time and a refresh make of the entry: one that is younger or older by *)
(* as much, of the same connection, or none.                                  *)
LEMMA EntryTyped ==
    ASSUME PresenceTypeOK
    PROVE  /\ presence \in Entries /\ Absent \in Entries /\ Absent.left = 0
           /\ Older(presence) \in Entries
           /\ presence.left > 1 => /\ Older(presence).left = presence.left - 1
                                   /\ Older(presence).inst = presence.inst
                                   /\ Older(presence).conn = presence.conn
           /\ presence.left <= 1 => Older(presence) = Absent
           /\ [presence EXCEPT !.left = ttl] \in Entries
           /\ [presence EXCEPT !.left = ttl].left = ttl
           /\ [presence EXCEPT !.left = ttl].inst = presence.inst
           /\ [presence EXCEPT !.left = ttl].conn = presence.conn
<1>1. presence \in Entries /\ ttl \in Nat
  BY IntervalTyped DEF PresenceTypeOK, Entries
<1>2. Absent \in Entries /\ Absent.left = 0
  BY <1>1 DEF Absent, Entries
<1>3. presence.left \in 0 .. ttl
  BY <1>1 DEF Entries
<1>4. CASE presence.left > 1
  <2>1. Older(presence) = [presence EXCEPT !.left = presence.left - 1]
    BY <1>4 DEF Older
  <2>2. presence.left - 1 \in 0 .. ttl
    BY <1>1, <1>3, <1>4
  <2> QED BY <1>1, <1>2, <1>3, <1>4, <2>1, <2>2 DEF Entries
<1>5. CASE ~(presence.left > 1)
  <2>1. Older(presence) = Absent
    BY <1>5 DEF Older
  <2> QED BY <1>1, <1>2, <1>5, <2>1 DEF Entries
<1> QED BY <1>4, <1>5

(* What a socket writes to Redis is an entry.                                 *)
LEMMA CallTyped ==
    ASSUME PresenceTypeOK, NEW CONSTANT s \in PSockets
    PROVE  /\ InstanceOf[s] \in Instances
           /\ [inst |-> InstanceOf[s], conn |-> sockId[s], left |-> ttl] \in Entries
           /\ Extended(s) \in Entries
<1>1. InstanceOf[s] \in Instances /\ sockId[s] \in Nat /\ ttl \in 0 .. ttl
  BY PresenceAssumption, IntervalTyped DEF PresenceTypeOK
<1> QED BY <1>1, EntryTyped DEF Entries, Extended

(* No step takes PresenceTypeOK away.                                         *)
LEMMA PresenceTypeKept == PresenceTypeOK /\ [PresenceNext]_presenceVars => PresenceTypeOK'
<1> SUFFICES ASSUME PresenceTypeOK, [PresenceNext]_presenceVars PROVE PresenceTypeOK'
  OBVIOUS
<1> USE DEF PresenceTypeOK, Entries
<1>0. redisFaults \in 0 .. MaxRedisFaults /\ MaxRedisFaults \in Nat
  BY PresenceAssumption
<1>1. ASSUME NEW s \in PSockets, PresenceRegister(s) PROVE PresenceTypeOK'
  <2>1. InstanceOf[s] \in Instances /\ nextId[InstanceOf[s]] \in Nat \ {0}
    BY CallTyped
  <2> QED BY <1>1, <2>1 DEF PresenceRegister, SockStages
<1>2. ASSUME NEW s \in PSockets, SetAgentOnline(s) PROVE PresenceTypeOK'
  BY <1>0, <1>2, CallTyped DEF SetAgentOnline, RedisCall, SockStages
<1>3. ASSUME NEW s \in PSockets, RefreshAgent(s) PROVE PresenceTypeOK'
  BY <1>0, <1>3, CallTyped, IntervalTyped DEF RefreshAgent, RedisCall
<1>4. ASSUME NEW s \in PSockets, PresenceLeave(s) PROVE PresenceTypeOK'
  BY <1>4 DEF PresenceLeave, SockStages
<1>5. ASSUME NEW s \in PSockets, PresenceUnregister(s) PROVE PresenceTypeOK'
  BY <1>5, CallTyped DEF PresenceUnregister, SockStages
<1>6. ASSUME NEW s \in PSockets, ClearAgent(s) PROVE PresenceTypeOK'
  BY <1>0, <1>6, EntryTyped DEF ClearAgent, RedisCall, SockStages
<1>7. CASE Tick
  <2>1. dueIn' \in [PSockets -> Nat]
    <3>1. ASSUME NEW s \in PSockets PROVE (IF sock[s] = "serving" THEN dueIn[s] - 1 ELSE dueIn[s]) \in Nat
      BY <1>7 DEF Tick
    <3> QED BY <1>7, <3>1 DEF Tick
  <2> QED BY <1>7, <2>1, EntryTyped DEF Tick
<1>8. ASSUME NEW i \in Instances, InstanceCrash(i) PROVE PresenceTypeOK'
  <2>1. sock' \in [PSockets -> SockStages] /\ redisFaults' \in 0 .. MaxRedisFaults
    BY <1>0, <1>8 DEF InstanceCrash, SockStages
  <2> QED BY <1>8, <2>1 DEF InstanceCrash
<1>9. CASE UNCHANGED presenceVars
  BY <1>9 DEF presenceVars
<1> QED BY <1>1, <1>2, <1>3, <1>4, <1>5, <1>6, <1>7, <1>8, <1>9 DEF PresenceNext, AgentStep

(* The first state has it.                                                    *)
LEMMA PresenceTypeInit == PresenceInit => PresenceTypeOK
BY PresenceAssumption DEF PresenceInit, PresenceTypeOK, Absent, SockStages

(* PresenceTypeOK holds of every state of the module.                         *)
THEOREM PresenceTyped == PresenceSpec => []PresenceTypeOK
BY PresenceTypeInit, PresenceTypeKept, PTL DEF PresenceSpec

-----------------------------------------------------------------------------
(* PresenceHeld                                                               *)

(* Conn ids of one process are counted up, so no two of its sockets share one. *)
IdsDiffer ==
    /\ \A s \in PSockets : sock[s] # "away" => sockId[s] < nextId[InstanceOf[s]]
    /\ \A s, t \in PSockets :
         /\ sock[s] # "away" /\ sock[t] # "away"
         /\ InstanceOf[s] = InstanceOf[t] /\ sockId[s] = sockId[t]
         => s = t

(* A refresh is never further away than the interval, and the entry of a     *)
(* serving socket has longer to live than that.                              *)
RefreshInTime ==
    /\ \A s \in PSockets : dueIn[s] <= RefreshEvery
    /\ \A s \in PSockets :
         sock[s] = "serving" /\ EntryIs(s) => presence.left > dueIn[s]

(* What holds until a call fails or a process dies, and the time to live     *)
(* allows it at all.                                                         *)
NoOutage == redisFaults = 0 /\ ttl > RefreshEvery
HeldInv == NoOutage => IdsDiffer /\ RefreshInTime

(* The time to live and with it the interval are configured once, and faults *)
(* are only counted up.                                                      *)
LEMMA StaysConfigured ==
    ASSUME PresenceTypeOK, [PresenceNext]_presenceVars
    PROVE  /\ ttl' = ttl /\ RefreshEvery' = RefreshEvery
           /\ NoOutage' => NoOutage
           /\ NoOutage' => ~\E i \in Instances : InstanceCrash(i)
<1>0. redisFaults \in Nat
  BY PresenceAssumption DEF PresenceTypeOK
<1>1. ttl' = ttl
  BY DEF PresenceNext, presenceVars, AgentStep, PresenceRegister, SetAgentOnline, RefreshAgent,
         PresenceLeave, PresenceUnregister, ClearAgent, Tick, InstanceCrash
<1>2. redisFaults' = 0 => redisFaults = 0 /\ ~\E i \in Instances : InstanceCrash(i)
  <2>1. ASSUME NEW i \in Instances, InstanceCrash(i) PROVE redisFaults' # 0
    BY <1>0, <2>1 DEF InstanceCrash
  <2>2. redisFaults' = redisFaults \/ redisFaults' = redisFaults + 1
    BY DEF PresenceNext, presenceVars, AgentStep, PresenceRegister, SetAgentOnline, RefreshAgent,
           PresenceLeave, PresenceUnregister, ClearAgent, Tick, InstanceCrash, RedisCall
  <2> QED BY <1>0, <2>1, <2>2
<1> QED BY <1>1, <1>2 DEF NoOutage, RefreshEvery

(* IdsDiffer is kept by every step but a crash.                              *)
LEMMA IdsStayDifferent ==
    ASSUME PresenceTypeOK, IdsDiffer, [PresenceNext]_presenceVars,
           ~\E i \in Instances : InstanceCrash(i)
    PROVE  IdsDiffer'
<1> USE DEF PresenceTypeOK, IdsDiffer
<1>0. \A s \in PSockets : InstanceOf[s] \in Instances
  BY PresenceAssumption
<1>1. ASSUME NEW s \in PSockets, PresenceRegister(s) PROVE IdsDiffer'
  <2> DEFINE i == InstanceOf[s]
  <2>1. /\ sockId'[s] = nextId[i] /\ nextId'[i] = nextId[i] + 1
        /\ \A t \in PSockets : t # s => sockId'[t] = sockId[t] /\ sock'[t] = sock[t]
        /\ \A j \in Instances : j # i => nextId'[j] = nextId[j]
        /\ nextId[i] \in Nat
    BY <1>0, <1>1 DEF PresenceRegister
  <2>2. ASSUME NEW t \in PSockets, sock'[t] # "away" PROVE sockId'[t] < nextId'[InstanceOf[t]]
    BY <1>0, <2>1, <2>2
  <2>3. ASSUME NEW t \in PSockets, t # s, sock'[t] # "away", InstanceOf[t] = i
        PROVE  sockId'[t] # sockId'[s]
    BY <1>0, <2>1, <2>3
  <2> QED BY <2>1, <2>2, <2>3
<1>2. ASSUME UNCHANGED <<sockId, nextId>>,
             \A t \in PSockets : sock'[t] # "away" => sock[t] # "away"
      PROVE  IdsDiffer'
  BY <1>2
<1>3. ASSUME NEW s \in PSockets,
             SetAgentOnline(s) \/ RefreshAgent(s) \/ PresenceLeave(s)
               \/ PresenceUnregister(s) \/ ClearAgent(s)
      PROVE  /\ UNCHANGED <<sockId, nextId>>
             /\ \A t \in PSockets : sock'[t] # "away" => sock[t] # "away"
  BY <1>3 DEF SetAgentOnline, RefreshAgent, PresenceLeave, PresenceUnregister, ClearAgent
<1>4. CASE Tick \/ UNCHANGED presenceVars
  BY <1>2, <1>4 DEF Tick, presenceVars
<1> QED BY <1>1, <1>2, <1>3, <1>4 DEF PresenceNext, AgentStep

(* RefreshInTime is kept by every step while nothing fails.                  *)
LEMMA RefreshStaysInTime ==
    ASSUME PresenceTypeOK, NoOutage, NoOutage', RefreshInTime, [PresenceNext]_presenceVars
    PROVE  RefreshInTime'
<1>0. /\ ttl \in Nat /\ RefreshEvery \in Nat /\ RefreshEvery < ttl
      /\ ttl' = ttl /\ RefreshEvery' = RefreshEvery
      /\ redisFaults = 0 /\ redisFaults' = 0
      /\ dueIn \in [PSockets -> Nat]
      /\ presence \in Entries /\ presence.left \in Nat
  BY IntervalTyped, StaysConfigured, EntryTyped DEF NoOutage, Entries, PresenceTypeOK
<1> USE DEF RefreshInTime
<1>1. ASSUME NEW s \in PSockets, PresenceRegister(s) PROVE RefreshInTime'
  <2>1. \A t \in PSockets : sock'[t] = "serving" => t # s /\ sock[t] = "serving" /\ sockId'[t] = sockId[t]
    BY <1>1 DEF PresenceRegister, PresenceTypeOK
  <2> QED BY <1>0, <1>1, <2>1 DEF PresenceRegister, EntryIs
<1>2. ASSUME NEW s \in PSockets, SetAgentOnline(s) PROVE RefreshInTime'
  <2>1. presence'.left = ttl /\ dueIn' = dueIn
    BY <1>0, <1>2 DEF SetAgentOnline, RedisCall
  <2> QED BY <1>0, <2>1
<1>3. ASSUME NEW s \in PSockets, RefreshAgent(s) PROVE RefreshInTime'
  <2>1. presence' = Extended(s) /\ UNCHANGED <<sock, sockId>>
    BY <1>0, <1>3 DEF RefreshAgent, RedisCall
  <2>2. /\ \A t \in PSockets : t # s => dueIn'[t] = dueIn[t]
        /\ dueIn'[s] \in Nat /\ dueIn'[s] <= RefreshEvery
    BY <1>0, <1>3 DEF RefreshAgent
  <2>3. CASE EntryIs(s)
    <3>1. presence'.left = ttl
      BY <2>1, <2>3, EntryTyped DEF Extended
    <3> QED BY <1>0, <2>2, <3>1
  <2>4. CASE ~EntryIs(s)
    <3>1. presence' = presence
      BY <2>1, <2>4 DEF Extended
    <3> QED BY <1>0, <2>1, <2>2, <2>4, <3>1 DEF EntryIs
  <2> QED BY <2>3, <2>4
<1>4. ASSUME UNCHANGED <<sockId, dueIn, presence>>,
             \A t \in PSockets : sock'[t] = "serving" => sock[t] = "serving"
      PROVE  RefreshInTime'
  BY <1>0, <1>4 DEF EntryIs
<1>5. ASSUME NEW s \in PSockets, PresenceLeave(s) \/ PresenceUnregister(s) PROVE RefreshInTime'
  BY <1>4, <1>5 DEF PresenceLeave, PresenceUnregister, PresenceTypeOK
<1>6. ASSUME NEW s \in PSockets, ClearAgent(s) PROVE RefreshInTime'
  <2>1. /\ UNCHANGED <<sockId, dueIn>>
        /\ \A t \in PSockets : sock'[t] = "serving" => sock[t] = "serving"
        /\ presence' = presence \/ presence' = Absent
    BY <1>0, <1>6 DEF ClearAgent, RedisCall, PresenceTypeOK
  <2>2. CASE presence' = Absent
    BY <1>0, <2>1, <2>2, EntryTyped DEF EntryIs
  <2> QED BY <1>4, <2>1, <2>2
<1>7. CASE Tick
  <2>1. UNCHANGED <<sock, sockId>> /\ presence' = Older(presence)
    BY <1>7 DEF Tick
  <2>2. ASSUME NEW s \in PSockets
        PROVE  /\ dueIn'[s] = IF sock[s] = "serving" THEN dueIn[s] - 1 ELSE dueIn[s]
               /\ dueIn'[s] <= RefreshEvery
    BY <1>0, <1>7 DEF Tick
  <2>3. ASSUME NEW s \in PSockets, sock'[s] = "serving", EntryIs(s)' PROVE presence'.left > dueIn'[s]
    <3>1. presence.left > 1
      BY <1>0, <2>1, <2>3, EntryTyped DEF EntryIs
    <3>2. EntryIs(s) /\ presence'.left = presence.left - 1
      BY <1>0, <2>1, <2>3, <3>1, EntryTyped DEF EntryIs
    <3>3. presence.left > dueIn[s] /\ dueIn[s] \in Nat
      BY <1>0, <2>1, <2>3, <3>2
    <3> QED BY <1>0, <2>1, <2>2, <2>3, <3>2, <3>3
  <2> QED BY <1>0, <2>2, <2>3
<1>8. CASE UNCHANGED presenceVars
  BY <1>4, <1>8 DEF presenceVars
<1>9. ~\E i \in Instances : InstanceCrash(i)
  BY StaysConfigured
<1> QED BY <1>1, <1>2, <1>3, <1>5, <1>6, <1>7, <1>8, <1>9 DEF PresenceNext, AgentStep

(* PresenceHeld: until a call fails, neither another socket's cleanup or     *)
(* refresh nor the passing of time takes the entry from the serving socket   *)
(* that wrote it; only another socket's write does.                          *)
THEOREM PresenceStays == PresenceSpec => PresenceHeld
<1>1. PresenceInit => HeldInv
  <2> SUFFICES ASSUME PresenceInit, NoOutage PROVE IdsDiffer /\ RefreshInTime
    BY DEF HeldInv
  <2>1. RefreshEvery \in Nat
    BY PresenceAssumption, IntervalTyped DEF PresenceInit, PresenceTypeOK, Absent, SockStages
  <2> QED BY <2>1 DEF PresenceInit, IdsDiffer, RefreshInTime
<1>2. PresenceTypeOK /\ HeldInv /\ [PresenceNext]_presenceVars => HeldInv'
  BY StaysConfigured, IdsStayDifferent, RefreshStaysInTime DEF HeldInv
<1> DEFINE Kept(s) ==
      /\ redisFaults' = 0 /\ ttl > RefreshEvery
      /\ EntryIs(s) /\ sock[s] = "serving" /\ sock'[s] = "serving"
      => EntryIs(s)' \/ TakenFrom(s)
<1>3. PresenceTypeOK /\ HeldInv /\ [PresenceNext]_presenceVars => [\A s \in PSockets : Kept(s)]_presenceVars
  <2> SUFFICES ASSUME PresenceTypeOK, HeldInv, [PresenceNext]_presenceVars,
                      NEW s \in PSockets, redisFaults' = 0, ttl > RefreshEvery,
                      EntryIs(s), sock[s] = "serving", sock'[s] = "serving"
               PROVE  EntryIs(s)' \/ TakenFrom(s)
    OBVIOUS
  <2>1. /\ NoOutage /\ NoOutage' /\ IdsDiffer /\ RefreshInTime
        /\ ~\E i \in Instances : InstanceCrash(i)
    BY StaysConfigured DEF HeldInv, NoOutage
  <2>2. /\ ttl \in Nat \ {0} /\ presence.left \in Nat /\ presence.left > 0
        /\ presence.left > dueIn[s] /\ dueIn[s] \in Nat
        /\ redisFaults = 0
        /\ presence.inst = InstanceOf[s] /\ presence.conn = sockId[s]
    BY <2>1, IntervalTyped, EntryTyped DEF RefreshInTime, EntryIs, Entries, PresenceTypeOK, NoOutage
  <2>3. ASSUME NEW t \in PSockets, SetAgentOnline(t) PROVE TakenFrom(s)
    <3>1. /\ presence' = [inst |-> InstanceOf[t], conn |-> sockId[t], left |-> ttl]
          /\ sock[t] = "mapped" /\ sock'[t] = "serving" /\ sockId' = sockId
      BY <2>2, <2>3 DEF SetAgentOnline, RedisCall, PresenceTypeOK
    <3>2. EntryIs(t)' /\ t # s
      BY <2>2, <3>1 DEF EntryIs
    <3> QED BY <3>1, <3>2 DEF TakenFrom
  <2>4. ASSUME NEW t \in PSockets, RefreshAgent(t) PROVE EntryIs(s)'
    <3>1. presence' = Extended(t) /\ sockId' = sockId
      BY <2>2, <2>4 DEF RefreshAgent, RedisCall
    <3>2. presence' = presence \/ (presence'.left = ttl /\ presence'.inst = presence.inst /\ presence'.conn = presence.conn)
      BY <3>1, EntryTyped DEF Extended
    <3> QED BY <2>2, <3>1, <3>2 DEF EntryIs
  <2>5. ASSUME NEW t \in PSockets, ClearAgent(t) PROVE EntryIs(s)'
    <3>1. t # s /\ sock[t] # "away"
      BY <2>5 DEF ClearAgent
    <3>2. ~EntryIs(t)
      BY <2>1, <3>1 DEF IdsDiffer, EntryIs
    <3> QED BY <2>2, <2>5, <3>2 DEF ClearAgent, RedisCall, EntryIs
  <2>6. CASE Tick
    <3>1. dueIn[s] > 0 /\ presence' = Older(presence) /\ sockId' = sockId
      BY <2>6 DEF Tick
    <3>2. presence'.left > 0 /\ presence'.inst = presence.inst /\ presence'.conn = presence.conn
      BY <2>2, <3>1, EntryTyped DEF Older
    <3> QED BY <2>2, <3>1, <3>2 DEF EntryIs
  <2>7. ASSUME NEW t \in PSockets, PresenceRegister(t) PROVE EntryIs(s)'
    <3>1. t # s /\ presence' = presence /\ sockId'[s] = sockId[s]
      BY <2>7 DEF PresenceRegister, PresenceTypeOK
    <3> QED BY <2>2, <3>1 DEF EntryIs
  <2>8. ASSUME NEW t \in PSockets, PresenceLeave(t) \/ PresenceUnregister(t) PROVE EntryIs(s)'
    <3>1. presence' = presence /\ sockId' = sockId
      BY <2>8 DEF PresenceLeave, PresenceUnregister
    <3> QED BY <2>2, <3>1 DEF EntryIs
  <2>9. CASE UNCHANGED presenceVars
    BY <2>2, <2>9 DEF EntryIs, presenceVars
  <2> QED BY <2>1, <2>3, <2>4, <2>5, <2>6, <2>7, <2>8, <2>9 DEF PresenceNext, AgentStep
<1> QED BY <1>1, <1>2, <1>3, PresenceTyped, PTL DEF PresenceSpec, PresenceHeld

-----------------------------------------------------------------------------
(* MachineTokens and Organizations                                            *)

-----------------------------------------------------------------------------
(* MachineTokens                                                              *)

(* What a token given to the owner keeps: the handlers that gave it are done. *)
GivenOnly ==
    /\ retired \subseteq Given
    /\ \A r \in TokenRequests : knew[r] \subseteq Given

(* The row exists once the machine was registered, and not again after it.   *)
RegisteredOnce == machineRow = "absent" <=> asked[Registration] = "away"

(* A handler past its update has replaced every token its owner knew.        *)
Replaced ==
    machineRow = "present" =>
        /\ tokenHash \notin retired
        /\ \A r \in TokenRequests : asked[r] = "updated" => tokenHash \notin knew[r]

(* The token in force was written by a handler that goes on to the history,  *)
(* or has, and then is revoked there only by one that will replace it.       *)
HistoryFollows ==
    machineRow = "present" /\ dbFaults = 0 =>
        /\ tokenHash \in TokenRequests
        /\ asked[tokenHash] \in {"updated", "answered"}
        /\ \/ asked[tokenHash] = "updated"
           \/ [token |-> tokenHash, revoked |-> FALSE] \in history
           \/ \E r \in TokenRequests : asked[r] = "revoked"

TokensInv == TokensTypeOK /\ GivenOnly /\ RegisteredOnce /\ Replaced /\ HistoryFollows

HistoryRows == [token : TokenRequests, revoked : BOOLEAN]

(* TokensTypeOK holds of every state of the module.                           *)
THEOREM TokensTyped == TokensSpec => []TokensTypeOK
<1>1. TokensInit => TokensTypeOK
  BY TokensAssumption DEF TokensInit, TokensTypeOK, TokenRequests
<1>2. TokensTypeOK /\ [TokensNext]_tokenVars => TokensTypeOK'
  <2> SUFFICES ASSUME TokensTypeOK, [TokensNext]_tokenVars PROVE TokensTypeOK'
    OBVIOUS
  <2> USE TokensAssumption DEF TokensTypeOK, TokenRequests
  <2>1. CASE InsertMachine  BY <2>1 DEF InsertMachine, Steps
  <2>2. CASE DeleteMachine  BY <2>2 DEF DeleteMachine, Given
  <2>3. ASSUME NEW r \in TokenRequests, StatementFails(r) PROVE TokensTypeOK'
    BY <2>3 DEF StatementFails
  <2>4. ASSUME NEW r \in TokenRequests, InsertHistory(r) PROVE TokensTypeOK'
    <3>1. CASE machineRow = "deleted"
      BY <2>4, <3>1 DEF InsertHistory, Steps
    <3>2. CASE machineRow = "present"
      <4>1. /\ history' = history \cup {[token |-> r, revoked |-> FALSE]}
            /\ retired' = retired \cup knew[r]
            /\ asked' = [asked EXCEPT ![r] = "answered"]
            /\ UNCHANGED <<machineRow, tokenHash, knew, dbFaults>>
        BY <2>4, <3>2 DEF InsertHistory, Steps
      <4>2. history' \subseteq HistoryRows
        <5>1. [token |-> r, revoked |-> FALSE] \in HistoryRows
          BY DEF HistoryRows
        <5> QED BY <4>1, <5>1 DEF HistoryRows
      <4>3. retired' \subseteq TokenRequests
        BY <4>1
      <4>4. asked' \in [TokenRequests -> {"away", "owned", "revoked", "updated", "answered", "failed"}]
        BY <4>1
      <4> QED BY <4>1, <4>2, <4>3, <4>4 DEF HistoryRows
    <3> QED BY <2>4, <3>1, <3>2 DEF InsertHistory
  <2>5. ASSUME NEW r \in TokenRequests, VerifyOwnership(r) PROVE TokensTypeOK'
    BY <2>5 DEF VerifyOwnership, Steps, Given
  <2>6. ASSUME NEW r \in TokenRequests, RevokeOld(r) PROVE TokensTypeOK'
    <3>1. history' \subseteq HistoryRows
      <4>1. ASSUME NEW row \in HistoryRows PROVE [row EXCEPT !.revoked = TRUE] \in HistoryRows
        BY DEF HistoryRows
      <4>2. history' = {[row EXCEPT !.revoked = TRUE] : row \in history}
        BY <2>6 DEF RevokeOld
      <4> QED BY <4>1, <4>2 DEF HistoryRows
    <3> QED BY <2>6, <3>1 DEF RevokeOld, Steps, HistoryRows
  <2>7. ASSUME NEW r \in TokenRequests, UpdateMachine(r) PROVE TokensTypeOK'
    BY <2>7 DEF UpdateMachine, Steps
  <2>8. CASE UNCHANGED tokenVars  BY <2>8 DEF tokenVars
  <2> QED BY <2>1, <2>2, <2>3, <2>4, <2>5, <2>6, <2>7, <2>8 DEF TokensNext
<1> QED BY <1>1, <1>2, PTL DEF TokensSpec

(* Before the first request nothing was given, replaced or recorded.          *)
LEMMA TokensInitInv == TokensInit => GivenOnly /\ RegisteredOnce /\ Replaced /\ HistoryFollows
BY TokensAssumption
   DEF TokensInit, GivenOnly, RegisteredOnce, Replaced, HistoryFollows, TokenRequests

(* Nothing is forgotten of what the owner was given, and a handler knows and  *)
(* retires what was given.                                                    *)
LEMMA GivenKept ==
    ASSUME TokensTypeOK, GivenOnly, [TokensNext]_tokenVars
    PROVE  Given \subseteq Given' /\ GivenOnly'
<1> USE TokensAssumption DEF TokensTypeOK, GivenOnly, Given, TokenRequests
<1>1. CASE InsertMachine  BY <1>1 DEF InsertMachine, Steps
<1>2. CASE DeleteMachine  BY <1>2 DEF DeleteMachine
<1>3. ASSUME NEW r \in TokenRequests, StatementFails(r) PROVE Given \subseteq Given' /\ GivenOnly'
  BY <1>3 DEF StatementFails
<1>4. ASSUME NEW r \in TokenRequests, InsertHistory(r) PROVE Given \subseteq Given' /\ GivenOnly'
  BY <1>4 DEF InsertHistory, Steps
<1>5. ASSUME NEW r \in TokenRequests, VerifyOwnership(r) PROVE Given \subseteq Given' /\ GivenOnly'
  BY <1>5 DEF VerifyOwnership, Steps
<1>6. ASSUME NEW r \in TokenRequests, RevokeOld(r) PROVE Given \subseteq Given' /\ GivenOnly'
  BY <1>6 DEF RevokeOld, Steps
<1>7. ASSUME NEW r \in TokenRequests, UpdateMachine(r) PROVE Given \subseteq Given' /\ GivenOnly'
  BY <1>7 DEF UpdateMachine, Steps
<1>8. CASE UNCHANGED tokenVars  BY <1>8 DEF tokenVars
<1> QED BY <1>1, <1>2, <1>3, <1>4, <1>5, <1>6, <1>7, <1>8 DEF TokensNext

(* A registration happens once.                                               *)
LEMMA RegisteredKept ==
    ASSUME TokensTypeOK, RegisteredOnce, [TokensNext]_tokenVars
    PROVE  RegisteredOnce'
<1> USE TokensAssumption DEF TokensTypeOK, RegisteredOnce, TokenRequests
<1>1. CASE InsertMachine  BY <1>1 DEF InsertMachine, Steps
<1>2. CASE DeleteMachine  BY <1>2 DEF DeleteMachine
<1>3. ASSUME NEW r \in TokenRequests, StatementFails(r) PROVE RegisteredOnce'
  BY <1>3 DEF StatementFails
<1>4. ASSUME NEW r \in TokenRequests, InsertHistory(r) PROVE RegisteredOnce'
  BY <1>4 DEF InsertHistory, Steps
<1>5. ASSUME NEW r \in TokenRequests, VerifyOwnership(r) PROVE RegisteredOnce'
  BY <1>5 DEF VerifyOwnership, Steps
<1>6. ASSUME NEW r \in TokenRequests, RevokeOld(r) PROVE RegisteredOnce'
  BY <1>6 DEF RevokeOld, Steps
<1>7. ASSUME NEW r \in TokenRequests, UpdateMachine(r) PROVE RegisteredOnce'
  BY <1>7 DEF UpdateMachine, Steps
<1>8. CASE UNCHANGED tokenVars  BY <1>8 DEF tokenVars
<1> QED BY <1>1, <1>2, <1>3, <1>4, <1>5, <1>6, <1>7, <1>8 DEF TokensNext

(* The hash in force is the one of a request that is not answered yet when it *)
(* is written, so no request that knew an answer can find it back.            *)
LEMMA ReplacedKept ==
    ASSUME TokensTypeOK, GivenOnly, RegisteredOnce, Replaced, [TokensNext]_tokenVars
    PROVE  Replaced'
<1> USE TokensAssumption DEF TokensTypeOK, Replaced, TokenRequests
<1>1. CASE InsertMachine  BY <1>1 DEF InsertMachine, Steps, GivenOnly, Given
<1>2. CASE DeleteMachine  BY <1>2 DEF DeleteMachine
<1>3. ASSUME NEW r \in TokenRequests, StatementFails(r) PROVE Replaced'
  BY <1>3 DEF StatementFails
<1>4. ASSUME NEW r \in TokenRequests, InsertHistory(r) PROVE Replaced'
  BY <1>4 DEF InsertHistory, Steps
<1>5. ASSUME NEW r \in TokenRequests, VerifyOwnership(r) PROVE Replaced'
  BY <1>5 DEF VerifyOwnership, Steps
<1>6. ASSUME NEW r \in TokenRequests, RevokeOld(r) PROVE Replaced'
  BY <1>6 DEF RevokeOld, Steps
<1>7. ASSUME NEW r \in TokenRequests, UpdateMachine(r) PROVE Replaced'
  <2>1. r \notin Given
    BY <1>7 DEF UpdateMachine, Steps, Given
  <2> QED BY <1>7, <2>1 DEF UpdateMachine, Steps, GivenOnly
<1>8. CASE UNCHANGED tokenVars  BY <1>8 DEF tokenVars
<1> QED BY <1>1, <1>2, <1>3, <1>4, <1>5, <1>6, <1>7, <1>8 DEF TokensNext

(* While no statement fails, the history comes after the hash.                *)
LEMMA HistoryKept ==
    ASSUME TokensTypeOK, RegisteredOnce, HistoryFollows, [TokensNext]_tokenVars
    PROVE  HistoryFollows'
<1> USE TokensAssumption DEF TokensTypeOK, HistoryFollows, TokenRequests
<1>1. CASE InsertMachine  BY <1>1 DEF InsertMachine, Steps
<1>2. CASE DeleteMachine  BY <1>2 DEF DeleteMachine
<1>3. ASSUME NEW r \in TokenRequests, StatementFails(r) PROVE HistoryFollows'
  BY <1>3 DEF StatementFails
<1>4. ASSUME NEW r \in TokenRequests, InsertHistory(r) PROVE HistoryFollows'
  <2>1. CASE machineRow = "present"  BY <1>4, <2>1 DEF InsertHistory, Steps
  <2>2. CASE machineRow = "deleted"  BY <1>4, <2>2 DEF InsertHistory
  <2> QED BY <1>4, <2>1, <2>2 DEF InsertHistory
<1>5. ASSUME NEW r \in TokenRequests, VerifyOwnership(r) PROVE HistoryFollows'
  BY <1>5 DEF VerifyOwnership, Steps
<1>6. ASSUME NEW r \in TokenRequests, RevokeOld(r) PROVE HistoryFollows'
  BY <1>6 DEF RevokeOld, Steps
<1>7. ASSUME NEW r \in TokenRequests, UpdateMachine(r) PROVE HistoryFollows'
  BY <1>7 DEF UpdateMachine, Steps
<1>8. CASE UNCHANGED tokenVars  BY <1>8 DEF tokenVars
<1> QED BY <1>1, <1>2, <1>3, <1>4, <1>5, <1>6, <1>7, <1>8 DEF TokensNext

(* The invariant says more than the property: what was retired is not in      *)
(* force, and when no handler is between two statements nothing is left that  *)
(* the history could miss.                                                    *)
LEMMA TokensInvRotates == TokensInv => TokensRotate
<1> SUFFICES ASSUME TokensInv PROVE TokensRotate
  OBVIOUS
<1>1. \A t \in retired : ~Validates(t)
  BY DEF TokensInv, Replaced, Validates
<1>2. ASSUME machineRow = "present", dbFaults = 0,
             \A r \in TokenRequests : asked[r] \in {"away", "answered", "failed"}
      PROVE  tokenHash \in Given /\ [token |-> tokenHash, revoked |-> FALSE] \in history
  BY <1>2 DEF TokensInv, HistoryFollows, Given
<1> QED BY <1>1, <1>2 DEF TokensRotate

(* TokensRotate: whatever rotations, deletion and failures overlap in         *)
(* rotate_token and its siblings, a token given before a rotation that        *)
(* succeeded is not accepted again, and the two tables agree at rest.         *)
THEOREM TokensStayRetired == TokensSpec => []TokensRotate
<1>1. TokensInit => TokensInv
  <2>1. TokensInit => TokensTypeOK
    BY TokensAssumption DEF TokensInit, TokensTypeOK, TokenRequests
  <2> QED BY <2>1, TokensInitInv DEF TokensInv
<1>2. TokensTypeOK' /\ TokensInv /\ [TokensNext]_tokenVars => TokensInv'
  BY GivenKept, RegisteredKept, ReplacedKept, HistoryKept DEF TokensInv
<1>3. TokensInv => TokensRotate
  BY TokensInvRotates
<1> QED BY <1>1, <1>2, <1>3, TokensTyped, PTL DEF TokensSpec

-----------------------------------------------------------------------------
(* Organizations                                                              *)

InvitationRecords ==
    [at : {"away", "allowed", "known", "unknown", "granting", "granted", "done"},
     actor : Users \cup {Nobody}, actorRole : Roles \cup {NoRole},
     target : Users \cup {Nobody}, role : Roles \cup {NoRole}]

Handled(i) == invitations[i].at \notin {"away", "done"}

(* Before the row of the organization there is nothing that refers to it; an  *)
(* organization of the provider has no creator here, and no other one gets a  *)
(* role from the provider.                                                    *)
OrganizationFirst ==
    /\ ~exists => /\ creator = Nobody /\ \A u \in Users : roles[u] = NoRole /\ invites[u] = NoRole
                  /\ \A i \in Invitations : invitations[i].at = "away"
                  /\ signIn.at # "membership"
    /\ provided => creator = Nobody
    /\ signIn.role # NoRole => provided
    /\ signIn.at \in {"organization", "membership"} => signIn.role # NoRole
    /\ creator = Nobody \/ creator \in accounts

(* Nobody asked for a second owner: none is on its way to the table.          *)
NoOwnerUnderWay ==
    ~deeds.made =>
        /\ \A u \in Users : roles[u] = "owner" => u = creator
        /\ \A u \in Users : invites[u] # "owner"
        /\ \A i \in Invitations : Handled(i) => invitations[i].role # "owner"

(* No owner asked for another role of the creator: requests about him stop    *)
(* where his present role is read, and no invitation waits for him.           *)
CreatorSpared ==
    ~deeds.acted /\ creator \notin MixedCase \cup {Nobody} =>
        /\ roles[creator] = "owner" /\ invites[creator] = NoRole
        /\ \A i \in Invitations :
              Handled(i) /\ invitations[i].target = creator =>
                  invitations[i].at \in {"allowed", "known"} /\ invitations[i].actorRole # "owner"

-----------------------------------------------------------------------------
(* How a request goes on: the others stay, and its terms do.                  *)
LEMMA GoesTyped ==
    ASSUME OrganizationsTypeOK, NEW i \in Invitations, NEW from,
           NEW to \in {"known", "unknown", "granting", "granted", "done"}, Goes(i, from, to)
    PROVE  /\ invitations' \in [Invitations -> InvitationRecords]
           /\ \A j \in Invitations : j # i => invitations'[j] = invitations[j]
           /\ to = "done" => invitations'[i].at = "done"
           /\ to # "done" => /\ invitations'[i].at = to
                             /\ invitations'[i].actorRole = invitations[i].actorRole
                             /\ invitations'[i].target = invitations[i].target
                             /\ invitations'[i].role = invitations[i].role
           /\ invitations[i].at = from
<1>1. invitations \in [Invitations -> InvitationRecords]
  BY DEF OrganizationsTypeOK, InvitationRecords
<1>2. CASE to = "done"
  <2>1. Answered \in InvitationRecords /\ Answered.at = "done"
    BY DEF Answered, NoInvitation, InvitationRecords
  <2> QED BY <1>1, <1>2, <2>1 DEF Goes
<1>3. CASE to # "done"
  <2>1. [invitations[i] EXCEPT !.at = to] \in InvitationRecords
    BY <1>1 DEF InvitationRecords
  <2>2. invitations' = [invitations EXCEPT ![i] = [invitations[i] EXCEPT !.at = to]]
    BY <1>3 DEF Goes
  <2>3. invitations[i] \in InvitationRecords
    BY <1>1
  <2>4. /\ [invitations[i] EXCEPT !.at = to].at = to
        /\ [invitations[i] EXCEPT !.at = to].actorRole = invitations[i].actorRole
        /\ [invitations[i] EXCEPT !.at = to].target = invitations[i].target
        /\ [invitations[i] EXCEPT !.at = to].role = invitations[i].role
    BY <2>3 DEF InvitationRecords
  <2>5. invitations'[i] = [invitations[i] EXCEPT !.at = to]
    BY <1>1, <2>2
  <2> QED BY <1>1, <1>3, <2>1, <2>2, <2>4, <2>5 DEF Goes
<1> QED BY <1>2, <1>3

(* Each statement of invite_member ends the request or moves it on by Goes,   *)
(* so that GoesTyped covers every one of them.                                 *)
LEMMA RequestGoes ==
    ASSUME NEW i \in Invitations,
           LookUpAccount(i) \/ ReadPresentRole(i) \/ UpsertMember(i) \/ MarkAccepted(i) \/ UpsertInvite(i)
    PROVE  \E from, to : to \in {"known", "unknown", "granting", "granted", "done"} /\ Goes(i, from, to)
<1>1. CASE LookUpAccount(i)
  <2>1. CASE invitations[i].target \in accounts \ MixedCase
    BY <1>1, <2>1 DEF LookUpAccount
  <2>2. CASE invitations[i].target \notin accounts \ MixedCase
    BY <1>1, <2>2 DEF LookUpAccount
  <2> QED BY <2>1, <2>2
<1>2. CASE ReadPresentRole(i)
  <2>1. Goes(i, "known", "done") \/ Goes(i, "known", "granting")
    BY <1>2 DEF ReadPresentRole
  <2> QED BY <2>1
<1>3. CASE UpsertMember(i)  BY <1>3 DEF UpsertMember
<1>4. CASE MarkAccepted(i)  BY <1>4 DEF MarkAccepted
<1>5. CASE UpsertInvite(i)  BY <1>5 DEF UpsertInvite
<1> QED BY <1>1, <1>2, <1>3, <1>4, <1>5

(* What the first checks of invite_member, which Allow stands for, record.    *)
LEMMA AllowTyped ==
    ASSUME OrganizationsTypeOK, NEW i \in Invitations, NEW actor \in Users, NEW target \in Users,
           NEW role \in Roles, Allow(i, actor, target, role)
    PROVE  /\ invitations' \in [Invitations -> InvitationRecords]
           /\ \A j \in Invitations : j # i => invitations'[j] = invitations[j]
           /\ invitations'[i] = [at |-> "allowed", actor |-> actor, actorRole |-> roles[actor],
                                 target |-> target, role |-> role]
           /\ deeds' \in [made : BOOLEAN, acted : BOOLEAN]
<1>1. invitations \in [Invitations -> InvitationRecords] /\ roles[actor] \in Roles \cup {NoRole}
  BY DEF OrganizationsTypeOK, InvitationRecords
<1>2. [at |-> "allowed", actor |-> actor, actorRole |-> roles[actor], target |-> target, role |-> role]
        \in InvitationRecords
  BY <1>1 DEF InvitationRecords
<1>3. deeds' \in [made : BOOLEAN, acted : BOOLEAN]
  BY DEF Allow, OrganizationsTypeOK
<1> QED BY <1>1, <1>2, <1>3 DEF Allow

(* The terms of a request, by name.                                           *)
LEMMA InvitationTyped ==
    ASSUME OrganizationsTypeOK, NEW i \in Invitations
    PROVE  invitations[i].target \in Users \cup {Nobody} /\ invitations[i].role \in Roles \cup {NoRole}
BY DEF OrganizationsTypeOK

OrgBudgets == [signIns : 0 .. MaxSignIns, faults : 0 .. MaxOrgFaults]

(* Sign-ins and failing statements are counted within their bounds.           *)
LEMMA BudgetTyped ==
    ASSUME OrganizationsTypeOK
    PROVE  /\ orgBudget \in OrgBudgets
           /\ OrgFault => orgBudget' \in OrgBudgets
           /\ orgBudget.signIns < MaxSignIns => [orgBudget EXCEPT !.signIns = @ + 1] \in OrgBudgets
<1>1. MaxSignIns \in Nat /\ MaxOrgFaults \in Nat
  BY OrganizationsAssumption
<1>2. orgBudget \in OrgBudgets
  BY DEF OrganizationsTypeOK, OrgBudgets
<1>3. ASSUME OrgFault PROVE orgBudget' \in OrgBudgets
  BY <1>1, <1>2, <1>3 DEF OrgFault, OrgBudgets
<1>4. ASSUME orgBudget.signIns < MaxSignIns PROVE [orgBudget EXCEPT !.signIns = @ + 1] \in OrgBudgets
  BY <1>1, <1>2, <1>4 DEF OrgBudgets
<1> QED BY <1>2, <1>3, <1>4

SignIns == [at : {"away", "user", "organization", "membership", "invites"},
            user : Users \cup {Nobody}, role : Roles \cup {NoRole}]

(* A sign-in keeps its type as it goes on through the callback.               *)
LEMMA SignInTyped ==
    ASSUME OrganizationsTypeOK
    PROVE  /\ signIn \in SignIns /\ NoSignIn \in SignIns
           /\ signIn.user \in Users \cup {Nobody} /\ signIn.role \in Roles \cup {NoRole}
           /\ \A to \in {"organization", "membership", "invites"} : [signIn EXCEPT !.at = to] \in SignIns
BY DEF OrganizationsTypeOK, SignIns, NoSignIn

(* A sign-in under way is somebody's, without which accounts have no type.    *)
SignInNamed == signIn.at # "away" => signIn.user \in Users

(* OrganizationsTypeOK holds of every state of the module.                    *)
THEOREM OrganizationsTyped == OrganizationsSpec => [](OrganizationsTypeOK /\ SignInNamed)
<1>1. ASSUME NEW fromProvider \in BOOLEAN, OrganizationsInit(fromProvider) PROVE OrganizationsTypeOK /\ SignInNamed
  <2>1. 0 \in 0 .. MaxSignIns /\ 0 \in 0 .. MaxOrgFaults
    BY OrganizationsAssumption
  <2> QED BY <1>1, <2>1 DEF OrganizationsInit, OrganizationsTypeOK, SignInNamed, NoInvitation, NoSignIn
<1>2. OrganizationsTypeOK /\ SignInNamed /\ [OrganizationsNext]_orgVars => OrganizationsTypeOK'
  <2> SUFFICES ASSUME OrganizationsTypeOK, SignInNamed, [OrganizationsNext]_orgVars
               PROVE  OrganizationsTypeOK'
    OBVIOUS
  <2>1. ASSUME NEW u \in Users, CreateOrganization(u) PROVE OrganizationsTypeOK'
    BY <2>1 DEF CreateOrganization, OrganizationsTypeOK, Roles
  <2>2. ASSUME NEW u \in Users, NEW role \in ProviderRoles \cup {NoRole}, BeginSignIn(u, role)
        PROVE  OrganizationsTypeOK'
    <3>1. [at |-> "user", user |-> u, role |-> role] \in SignIns
      BY OrganizationsAssumption DEF SignIns, Roles
    <3>2. signIn' \in SignIns /\ orgBudget' \in OrgBudgets
      BY <2>2, <3>1, BudgetTyped DEF BeginSignIn
    <3> QED BY <2>2, <3>2 DEF BeginSignIn, OrganizationsTypeOK, SignIns, OrgBudgets
  <2>3. ASSUME NEW i \in Invitations, NEW actor \in Users, NEW target \in Users, NEW role \in Roles,
               Allow(i, actor, target, role)
        PROVE  OrganizationsTypeOK'
    BY <2>3, AllowTyped DEF Allow, OrganizationsTypeOK, InvitationRecords
  <2>4. ASSUME NEW i \in Invitations, LookUpAccount(i) PROVE OrganizationsTypeOK'
    BY <2>4, GoesTyped DEF LookUpAccount, OrganizationsTypeOK, InvitationRecords
  <2>5. ASSUME NEW i \in Invitations, ReadPresentRole(i) PROVE OrganizationsTypeOK'
    BY <2>5, GoesTyped DEF ReadPresentRole, OrganizationsTypeOK, InvitationRecords
  <2>6. ASSUME NEW i \in Invitations, UpsertMember(i) PROVE OrganizationsTypeOK'
    <3>1. roles' \in [Users -> Roles \cup {NoRole}]
      BY <2>6, InvitationTyped DEF UpsertMember, OrganizationsTypeOK
    <3> QED BY <2>6, <3>1, GoesTyped DEF UpsertMember, OrganizationsTypeOK, InvitationRecords
  <2>7. ASSUME NEW i \in Invitations, MarkAccepted(i) PROVE OrganizationsTypeOK'
    <3>1. invites' \in [Users -> Roles \cup {NoRole}]
      BY <2>7, InvitationTyped DEF MarkAccepted, OrganizationsTypeOK
    <3> QED BY <2>7, <3>1, GoesTyped DEF MarkAccepted, OrganizationsTypeOK, InvitationRecords
  <2>8. ASSUME NEW i \in Invitations, UpsertInvite(i) PROVE OrganizationsTypeOK'
    <3>1. invites' \in [Users -> Roles \cup {NoRole}]
      BY <2>8, InvitationTyped DEF UpsertInvite, OrganizationsTypeOK
    <3> QED BY <2>8, <3>1, GoesTyped DEF UpsertInvite, OrganizationsTypeOK, InvitationRecords
  <2>9. ASSUME NEW i \in Invitations, InviteFails(i) PROVE OrganizationsTypeOK'
    <3>1. Answered \in InvitationRecords
      BY DEF Answered, NoInvitation, InvitationRecords
    <3> QED BY <2>9, <3>1, BudgetTyped DEF InviteFails, OrganizationsTypeOK, InvitationRecords, OrgBudgets
  <2>10. CASE UpsertUser
    <3>1. signIn' \in SignIns /\ accounts' \subseteq Users
      BY <2>10, SignInTyped DEF UpsertUser, SignInGoes, SignInNamed, OrganizationsTypeOK
    <3> QED BY <2>10, <3>1 DEF UpsertUser, OrganizationsTypeOK, SignIns
  <2>11. CASE UpsertOrganization
    BY <2>11, SignInTyped DEF UpsertOrganization, SignInGoes, OrganizationsTypeOK, SignIns
  <2>12. CASE UpsertMembership
    <3>1. signIn' \in SignIns /\ roles' \in [Users -> Roles \cup {NoRole}]
      BY <2>12, SignInTyped DEF UpsertMembership, SignInGoes, OrganizationsTypeOK
    <3>2. deeds' \in [made : BOOLEAN, acted : BOOLEAN]
      BY <2>12 DEF UpsertMembership, OrganizationsTypeOK
    <3> QED BY <2>12, <3>1, <3>2 DEF UpsertMembership, OrganizationsTypeOK, SignIns
  <2>13. CASE AcceptPendingInvites
    <3>1. signIn' \in SignIns /\ invites' \in [Users -> Roles \cup {NoRole}]
      BY <2>13, SignInTyped DEF AcceptPendingInvites, SignInGoes, OrganizationsTypeOK
    <3>2. roles' \in [Users -> Roles \cup {NoRole}]
      BY <2>13, SignInTyped DEF AcceptPendingInvites, OrganizationsTypeOK
    <3> QED BY <2>13, <3>1, <3>2 DEF AcceptPendingInvites, OrganizationsTypeOK, SignIns
  <2>14. CASE SignInFails
    BY <2>14, SignInTyped, BudgetTyped DEF SignInFails, OrganizationsTypeOK, SignIns, OrgBudgets
  <2>15. CASE UNCHANGED orgVars
    BY <2>15 DEF orgVars, OrganizationsTypeOK
  <2> QED BY <2>1, <2>2, <2>3, <2>4, <2>5, <2>6, <2>7, <2>8, <2>9, <2>10, <2>11, <2>12, <2>13, <2>14, <2>15
          DEF OrganizationsNext
<1>3. OrganizationsTypeOK /\ SignInNamed /\ [OrganizationsNext]_orgVars => SignInNamed'
  <2> SUFFICES ASSUME OrganizationsTypeOK, SignInNamed, [OrganizationsNext]_orgVars PROVE SignInNamed'
    OBVIOUS
  <2> USE SignInTyped DEF SignInNamed, SignIns, SignInGoes, NoSignIn
  <2>1. CASE \E u \in Users : CreateOrganization(u) \/ \E role \in ProviderRoles \cup {NoRole} : BeginSignIn(u, role)
    BY <2>1 DEF CreateOrganization, BeginSignIn
  <2>2. CASE UNCHANGED signIn
    BY <2>2
  <2>3. CASE UpsertUser \/ UpsertOrganization \/ UpsertMembership \/ AcceptPendingInvites \/ SignInFails
    BY <2>3 DEF UpsertUser, UpsertOrganization, UpsertMembership, AcceptPendingInvites, SignInFails
  <2>4. ASSUME NEW i \in Invitations,
               \/ \E actor, target \in Users, role \in Roles : Allow(i, actor, target, role)
               \/ LookUpAccount(i) \/ ReadPresentRole(i) \/ UpsertMember(i) \/ MarkAccepted(i)
               \/ UpsertInvite(i) \/ InviteFails(i)
        PROVE  UNCHANGED signIn
    BY <2>4 DEF Allow, LookUpAccount, ReadPresentRole, UpsertMember, MarkAccepted, UpsertInvite, InviteFails
  <2> QED BY <2>1, <2>2, <2>3, <2>4 DEF OrganizationsNext, orgVars
<1>4. (\E fromProvider \in BOOLEAN : OrganizationsInit(fromProvider)) => OrganizationsTypeOK /\ SignInNamed
  BY <1>1
<1> QED BY <1>2, <1>3, <1>4, PTL DEF OrganizationsSpec

(* What refers to the organization comes after its row, in every step.       *)
LEMMA FirstKept ==
    ASSUME OrganizationsTypeOK, SignInNamed, OrganizationFirst, [OrganizationsNext]_orgVars
    PROVE  OrganizationFirst'
<1> USE DEF OrganizationFirst
<1>1. ASSUME NEW u \in Users, CreateOrganization(u) PROVE OrganizationFirst'
  BY <1>1 DEF CreateOrganization
<1>2. ASSUME NEW u \in Users, NEW role \in ProviderRoles \cup {NoRole}, BeginSignIn(u, role)
      PROVE  OrganizationFirst'
  BY <1>2 DEF BeginSignIn
<1>3. ASSUME NEW i \in Invitations, NEW actor \in Users, NEW target \in Users, NEW role \in Roles,
             Allow(i, actor, target, role)
      PROVE  OrganizationFirst'
  <2>1. exists
    BY <1>3 DEF Allow, IsAdmin, NoRole
  <2> QED BY <1>3, <2>1 DEF Allow
<1>4. ASSUME NEW i \in Invitations,
             \/ LookUpAccount(i) \/ ReadPresentRole(i) \/ UpsertMember(i) \/ MarkAccepted(i)
             \/ UpsertInvite(i) \/ InviteFails(i)
      PROVE  OrganizationFirst'
  <2>1. invitations[i].at # "away"
    BY <1>4 DEF LookUpAccount, ReadPresentRole, UpsertMember, MarkAccepted, UpsertInvite, InviteFails, Goes
  <2>2. exists
    BY <2>1
  <2>3. UNCHANGED <<provided, creator, exists, accounts, signIn>>
    BY <1>4 DEF LookUpAccount, ReadPresentRole, UpsertMember, MarkAccepted, UpsertInvite, InviteFails
  <2> QED BY <2>2, <2>3
<1>5. CASE UpsertUser
  <2>1. /\ signIn'.role = signIn.role
        /\ signIn.role # NoRole \/ signIn'.at = "invites"
        /\ signIn'.at \in {"organization", "invites"}
    BY <1>5, SignInTyped DEF UpsertUser, SignInGoes, SignIns
  <2> QED BY <1>5, <2>1 DEF UpsertUser
<1>6. CASE UpsertOrganization
  <2>1. signIn'.role = signIn.role /\ signIn.at = "organization"
    BY <1>6, SignInTyped DEF UpsertOrganization, SignInGoes, SignIns
  <2> QED BY <1>6, <2>1 DEF UpsertOrganization
<1>7. CASE UpsertMembership
  <2>1. signIn'.role = signIn.role /\ signIn'.at = "invites" /\ exists
    BY <1>7, SignInTyped DEF UpsertMembership, SignInGoes, SignIns
  <2> QED BY <1>7, <2>1 DEF UpsertMembership
<1>8. CASE AcceptPendingInvites
  <2>1. signIn' = NoSignIn /\ signIn.user \in Users
    BY <1>8 DEF AcceptPendingInvites, SignInGoes, SignInNamed
  <2>2. ASSUME ~exists, NEW u \in Users PROVE roles'[u] = NoRole /\ invites'[u] = NoRole
    BY <1>8, <2>1, <2>2 DEF AcceptPendingInvites, OrganizationsTypeOK
  <2> QED BY <1>8, <2>1, <2>2 DEF AcceptPendingInvites, NoSignIn
<1>9. CASE SignInFails
  BY <1>9 DEF SignInFails, NoSignIn
<1>10. CASE UNCHANGED orgVars
  BY <1>10 DEF orgVars
<1> QED BY <1>1, <1>2, <1>3, <1>4, <1>5, <1>6, <1>7, <1>8, <1>9, <1>10 DEF OrganizationsNext

(* Only an owner's request, or the provider, brings another owner under way.  *)
LEMMA SpareOwners ==
    ASSUME OrganizationsTypeOK, SignInNamed, OrganizationFirst, NoOwnerUnderWay,
           [OrganizationsNext]_orgVars
    PROVE  NoOwnerUnderWay'
<1> USE DEF NoOwnerUnderWay
<1>1. ASSUME NEW u \in Users, CreateOrganization(u) PROVE NoOwnerUnderWay'
  BY <1>1 DEF CreateOrganization, OrganizationFirst, OrganizationsTypeOK, Handled, NoRole
<1>2. ASSUME NEW u \in Users, NEW role \in ProviderRoles \cup {NoRole}, BeginSignIn(u, role)
      PROVE  NoOwnerUnderWay'
  BY <1>2 DEF BeginSignIn, Handled
<1>3. ASSUME NEW i \in Invitations, NEW actor \in Users, NEW target \in Users, NEW role \in Roles,
             Allow(i, actor, target, role), ~deeds'.made
      PROVE  NoOwnerUnderWay'
  <2>1. ~deeds.made /\ (roles[actor] # "owner" \/ role # "owner")
    BY <1>3 DEF Allow
  <2>2. role # "owner"
    BY <1>3, <2>1 DEF Allow, CanGrant
  <2>3. /\ invitations'[i].role = role
        /\ \A j \in Invitations : j # i => invitations'[j] = invitations[j]
    <3>1. /\ invitations'[i] = [at |-> "allowed", actor |-> actor, actorRole |-> roles[actor],
                                 target |-> target, role |-> role]
          /\ \A j \in Invitations : j # i => invitations'[j] = invitations[j]
      BY <1>3, AllowTyped
    <3> QED BY <3>1
  <2> QED BY <1>3, <2>1, <2>2, <2>3 DEF Allow, Handled
<1>4. ASSUME NEW i \in Invitations,
             LookUpAccount(i) \/ ReadPresentRole(i) \/ UpsertMember(i) \/ MarkAccepted(i)
             \/ UpsertInvite(i) \/ InviteFails(i),
             ~deeds'.made
      PROVE  NoOwnerUnderWay'
  <2>1. Handled(i) /\ ~deeds.made /\ creator' = creator
    BY <1>4 DEF LookUpAccount, ReadPresentRole, UpsertMember, MarkAccepted, UpsertInvite, InviteFails,
                Goes, Handled
  <2>2. invitations[i].role # "owner"
    BY <2>1
  <2>3. \A j \in Invitations : Handled(j)' => Handled(j) /\ invitations'[j].role = invitations[j].role
    <3>1. CASE InviteFails(i)
      BY <3>1 DEF InviteFails, OrganizationsTypeOK, Answered, NoInvitation, Handled
    <3>2. CASE LookUpAccount(i) \/ ReadPresentRole(i) \/ UpsertMember(i) \/ MarkAccepted(i) \/ UpsertInvite(i)
      <4>1. PICK from, to : to \in {"known", "unknown", "granting", "granted", "done"} /\ Goes(i, from, to)
        BY <3>2, RequestGoes
      <4> QED BY <2>1, <4>1, GoesTyped DEF Handled
    <3> QED BY <1>4, <3>1, <3>2
  <2>4. \A u \in Users : roles'[u] = roles[u] \/ roles'[u] # "owner"
    BY <1>4, <2>2 DEF LookUpAccount, ReadPresentRole, UpsertMember, MarkAccepted, UpsertInvite, InviteFails,
                      OrganizationsTypeOK
  <2>5. \A u \in Users : invites'[u] = invites[u] \/ invites'[u] # "owner"
    BY <1>4, <2>2 DEF LookUpAccount, ReadPresentRole, UpsertMember, MarkAccepted, UpsertInvite, InviteFails,
                      OrganizationsTypeOK, NoRole
  <2> QED BY <2>1, <2>3, <2>4, <2>5
<1>5. CASE UpsertUser
  BY <1>5 DEF UpsertUser, Handled
<1>6. CASE UpsertOrganization
  BY <1>6 DEF UpsertOrganization, Handled
<1>7. CASE UpsertMembership
  <2> SUFFICES ASSUME ~deeds'.made PROVE NoOwnerUnderWay'
    OBVIOUS
  <2>1. ~deeds.made /\ signIn.role # "owner"
    BY <1>7 DEF UpsertMembership, OrganizationsTypeOK
  <2> QED BY <1>7, <2>1 DEF UpsertMembership, OrganizationsTypeOK, Handled
<1>8. CASE AcceptPendingInvites
  BY <1>8 DEF AcceptPendingInvites, SignInGoes, SignInNamed, OrganizationsTypeOK, Handled, NoRole
<1>9. CASE SignInFails
  BY <1>9 DEF SignInFails, Handled
<1>10. CASE UNCHANGED orgVars
  BY <1>10 DEF orgVars, Handled
<1> QED BY <1>1, <1>2, <1>3, <1>4, <1>5, <1>6, <1>7, <1>8, <1>9, <1>10 DEF OrganizationsNext

(* A request about the creator that no owner made ends where his role is read. *)
LEMMA SpareCreator ==
    ASSUME OrganizationsTypeOK, SignInNamed, OrganizationFirst, CreatorSpared,
           [OrganizationsNext]_orgVars
    PROVE  CreatorSpared'
<1> USE DEF CreatorSpared
<1>1. ASSUME NEW u \in Users, CreateOrganization(u) PROVE CreatorSpared'
  BY <1>1 DEF CreateOrganization, OrganizationFirst, OrganizationsTypeOK, Handled
<1>2. ASSUME NEW u \in Users, NEW role \in ProviderRoles \cup {NoRole}, BeginSignIn(u, role)
      PROVE  CreatorSpared'
  BY <1>2 DEF BeginSignIn, Handled
<1>3. ASSUME NEW i \in Invitations, NEW actor \in Users, NEW target \in Users, NEW role \in Roles,
             Allow(i, actor, target, role), ~deeds'.acted, creator' \notin MixedCase \cup {Nobody}
      PROVE  CreatorSpared'
  <2>1. ~deeds.acted /\ (roles[actor] # "owner" \/ target # creator)
    BY <1>3 DEF Allow
  <2>2. /\ invitations'[i].target = target /\ invitations'[i].actorRole = roles[actor]
        /\ invitations'[i].at = "allowed"
        /\ \A j \in Invitations : j # i => invitations'[j] = invitations[j]
    <3>1. /\ invitations'[i] = [at |-> "allowed", actor |-> actor, actorRole |-> roles[actor],
                                 target |-> target, role |-> role]
          /\ \A j \in Invitations : j # i => invitations'[j] = invitations[j]
      BY <1>3, AllowTyped
    <3> QED BY <3>1
  <2> QED BY <1>3, <2>1, <2>2 DEF Allow, Handled
<1>4. ASSUME NEW i \in Invitations,
             LookUpAccount(i) \/ ReadPresentRole(i) \/ UpsertMember(i) \/ MarkAccepted(i)
             \/ UpsertInvite(i) \/ InviteFails(i),
             ~deeds'.acted, creator' \notin MixedCase \cup {Nobody}
      PROVE  CreatorSpared'
  <2>1. Handled(i) /\ ~deeds.acted /\ creator' = creator
    BY <1>4 DEF LookUpAccount, ReadPresentRole, UpsertMember, MarkAccepted, UpsertInvite, InviteFails,
                Goes, Handled
  <2>2. \A j \in Invitations : j # i => invitations'[j] = invitations[j]
    BY <1>4 DEF LookUpAccount, ReadPresentRole, UpsertMember, MarkAccepted, UpsertInvite, InviteFails,
                Goes, OrganizationsTypeOK
  <2>3. CASE invitations[i].target # creator
    <3>1. roles'[creator] = roles[creator]
      BY <1>4, <2>3 DEF LookUpAccount, ReadPresentRole, UpsertMember, MarkAccepted, UpsertInvite,
                        InviteFails, OrganizationsTypeOK
    <3>2. invites'[creator] = invites[creator]
      BY <1>4, <2>3 DEF LookUpAccount, ReadPresentRole, UpsertMember, MarkAccepted, UpsertInvite,
                        InviteFails, OrganizationsTypeOK
    <3>3. Handled(i)' => invitations'[i].target # creator
      <4>1. CASE InviteFails(i)
        BY <4>1 DEF InviteFails, OrganizationsTypeOK, Answered, NoInvitation, Handled
      <4>2. CASE LookUpAccount(i) \/ ReadPresentRole(i) \/ UpsertMember(i) \/ MarkAccepted(i) \/ UpsertInvite(i)
        <5>1. PICK from, to : to \in {"known", "unknown", "granting", "granted", "done"} /\ Goes(i, from, to)
          BY <4>2, RequestGoes
        <5> QED BY <2>3, <5>1, GoesTyped DEF Handled
      <4> QED BY <1>4, <4>1, <4>2
    <3> QED BY <1>4, <2>1, <2>2, <3>1, <3>2, <3>3 DEF Handled
  <2>4. CASE invitations[i].target = creator
    <3>1. /\ invitations[i].at \in {"allowed", "known"} /\ invitations[i].actorRole # "owner"
          /\ roles[creator] = "owner" /\ creator \in accounts \ MixedCase
      BY <1>4, <2>1, <2>4 DEF OrganizationFirst
    <3>2. UNCHANGED <<roles, invites>>
      BY <1>4, <3>1 DEF LookUpAccount, ReadPresentRole, UpsertMember, MarkAccepted, UpsertInvite,
                        InviteFails, Goes
    <3>3. Handled(i)' => invitations'[i].at = "known" /\ invitations'[i].actorRole # "owner"
      <4>1. CASE LookUpAccount(i)
        <5>1. Goes(i, "allowed", "known")
          BY <2>4, <3>1, <4>1 DEF LookUpAccount
        <5> QED BY <3>1, <5>1, GoesTyped
      <4>2. CASE ReadPresentRole(i)
        <5>1. Goes(i, "known", "done")
          BY <2>4, <3>1, <4>2 DEF ReadPresentRole
        <5> QED BY <5>1, GoesTyped DEF Handled
      <4>3. CASE InviteFails(i)
        BY <4>3 DEF InviteFails, OrganizationsTypeOK, Answered, NoInvitation, Handled
      <4> QED BY <1>4, <3>1, <4>1, <4>2, <4>3 DEF UpsertMember, MarkAccepted, UpsertInvite, Goes
    <3> QED BY <1>4, <2>1, <2>2, <3>2, <3>3 DEF Handled
  <2> QED BY <2>3, <2>4
<1>5. CASE UpsertUser
  BY <1>5 DEF UpsertUser, Handled
<1>6. CASE UpsertOrganization
  BY <1>6 DEF UpsertOrganization, Handled
<1>7. CASE UpsertMembership
  <2>1. creator' = Nobody
    BY <1>7, SignInTyped DEF UpsertMembership, SignInGoes, OrganizationFirst
  <2> QED BY <2>1
<1>8. CASE AcceptPendingInvites
  BY <1>8 DEF AcceptPendingInvites, SignInGoes, SignInNamed, OrganizationsTypeOK, Handled, NoRole
<1>9. CASE SignInFails
  BY <1>9 DEF SignInFails, Handled
<1>10. CASE UNCHANGED orgVars
  BY <1>10 DEF orgVars, Handled
<1> QED BY <1>1, <1>2, <1>3, <1>4, <1>5, <1>6, <1>7, <1>8, <1>9, <1>10 DEF OrganizationsNext

(* OwnersComeFromOwners: however the requests of invite_member interleave with *)
(* each other and with sign-ins, and wherever they fail, nobody becomes owner  *)
(* or stops being one unless an owner or the provider asked for it.            *)
THEOREM OwnersMakeOwners == OrganizationsSpec => []OwnersComeFromOwners
<1> DEFINE Inv == OrganizationFirst /\ NoOwnerUnderWay /\ CreatorSpared
<1>1. ASSUME NEW fromProvider \in BOOLEAN, OrganizationsInit(fromProvider) PROVE Inv
  BY <1>1 DEF OrganizationsInit, OrganizationFirst, NoOwnerUnderWay, CreatorSpared, Handled,
              NoInvitation, NoSignIn, NoRole
<1>2. (\E fromProvider \in BOOLEAN : OrganizationsInit(fromProvider)) => Inv
  BY <1>1
<1>3. OrganizationsTypeOK /\ SignInNamed /\ Inv /\ [OrganizationsNext]_orgVars => Inv'
  BY FirstKept, SpareOwners, SpareCreator
<1>4. OrganizationsTypeOK /\ Inv => OwnersComeFromOwners
  BY DEF NoOwnerUnderWay, CreatorSpared, OrganizationFirst, OwnersComeFromOwners, OrganizationsTypeOK
<1> QED BY <1>2, <1>3, <1>4, OrganizationsTyped, PTL DEF OrganizationsSpec

-----------------------------------------------------------------------------
(* Billing                                                                    *)

Happened == [kind : {"completed", "deleted"}, org : BOOLEAN, sub : Subscriptions]

(* A subscription is paid for once and ends once, and its end is the        *)
(* organization's if its checkout was.                                       *)
OncePaidOnceEnded ==
    /\ Len(events) = Cardinality(Paid) + Cardinality(Ended)
    /\ Ended \subseteq Paid

(* A handler that read the buyer's role has a checkout of the organization.  *)
HandlesCheckout ==
    handling # 0 => /\ handling \in DOMAIN events
                    /\ events[handling].kind = "completed" /\ events[handling].org

LastOfOrganization(e) ==
    events[e].org /\ \A f \in DOMAIN events : events[f].org => f <= e

(* The last event of the organization says which subscription of its lives.  *)
LastTells ==
    \A e \in DOMAIN events : LastOfOrganization(e) =>
        LiveSubscriptions = IF events[e].kind = "completed" THEN {events[e].sub} ELSE {}

(* Two subscriptions of the organization do not live at once.                *)
OneLives == \A s, t \in LiveSubscriptions : s = t

(* The row says what the latest event written to it does, and no event of    *)
(* the organization was answered after that without being written.           *)
RowFollowsApplied ==
    /\ IF applied = 0 THEN plan = "free" /\ subscription = 0
       ELSE /\ applied \in DOMAIN events /\ events[applied].org
            /\ IF events[applied].kind = "completed"
               THEN plan = "team" /\ subscription = events[applied].sub
               ELSE plan = "free" /\ subscription = 0
    /\ \A e \in told : events[e].org => e <= applied

BillingInv == HandlesCheckout /\ (~excused => OneLives /\ LastTells /\ RowFollowsApplied)

Counts == 0 .. MaxMembers + 1
Checkouts == [at : {"away", "allowed", "counted", "ready"}, org : BOOLEAN, quantity : Counts]

(* BillingTypeOK, a variable at a time.                                      *)
BillingFields ==
    /\ plan \in {"free", "team"} /\ subscription \in Subscriptions \cup {0}
    /\ customers \subseteq {"user", "organization"}
    /\ seats \in Counts /\ members \in Counts /\ buyerIsAdmin \in BOOLEAN
    /\ checkout \in Checkouts /\ events \in Seq(Happened)
    /\ handling \in EventNumbers /\ applied \in EventNumbers /\ told \subseteq DOMAIN events
    /\ excused \in BOOLEAN /\ deliveries \in 0 .. MaxDeliveries

(* The type is that of the fields.                                           *)
LEMMA FieldsTyped == (BillingTypeOK <=> BillingFields) /\ (BillingTypeOK' <=> BillingFields')
<1>1. BillingTypeOK <=> BillingFields
  BY DEF BillingTypeOK, BillingFields, Happened, Counts, Checkouts
<1>2. BillingTypeOK' <=> BillingFields'
  BY DEF BillingTypeOK, BillingFields, Happened, Counts, Checkouts
<1> QED BY <1>1, <1>2

(* The bounds are numbers.                                                   *)
LEMMA BillingBounds ==
    /\ MaxSubscriptions \in Nat /\ MaxDeliveries \in Nat /\ MaxMembers \in Nat
    /\ 0 \in EventNumbers /\ 0 \in 0 .. MaxDeliveries
    /\ 0 \in Counts /\ 1 \in Counts /\ \A n \in 0 .. MaxMembers : n \in Counts
<1>1. MaxSubscriptions \in Nat /\ MaxDeliveries \in Nat /\ MaxMembers \in Nat
  BY BillingAssumption
<1> QED BY <1>1 DEF EventNumbers, Counts

(* What happened, one event at a time.                                       *)
LEMMA EventFields ==
    ASSUME events \in Seq(Happened)
    PROVE  /\ Len(events) \in Nat /\ DOMAIN events = 1 .. Len(events)
           /\ \A e \in DOMAIN events : /\ events[e].kind \in {"completed", "deleted"}
                                       /\ events[e].org \in BOOLEAN
                                       /\ events[e].sub \in Subscriptions
<1>1. Len(events) \in Nat /\ DOMAIN events = 1 .. Len(events)
  BY LenProperties
<1>2. ASSUME NEW e \in DOMAIN events
      PROVE  events[e] \in Happened
  BY <1>1, ElementOfSeq
<1> QED BY <1>1, <1>2 DEF Happened

(* What one more event adds to what happened.                                *)
LEMMA EventAdded ==
    ASSUME events \in Seq(Happened), NEW ev \in Happened, events' = Append(events, ev)
    PROVE  /\ events' \in Seq(Happened)
           /\ Len(events) \in Nat /\ DOMAIN events = 1 .. Len(events)
           /\ Len(events') = Len(events) + 1
           /\ DOMAIN events' = DOMAIN events \cup {Len(events) + 1}
           /\ \A e \in DOMAIN events : events'[e] = events[e]
           /\ events'[Len(events) + 1] = ev
           /\ Paid' = Paid \cup {ev.sub}
           /\ Ended' = IF ev.kind = "deleted" THEN Ended \cup {ev.sub} ELSE Ended
           /\ OfOrganization' = IF ev.org THEN OfOrganization \cup {ev.sub} ELSE OfOrganization
<1> DEFINE n == Len(events) + 1
<1>1. /\ events' \in Seq(Happened) /\ Len(events) \in Nat /\ Len(events') = n
      /\ DOMAIN events = 1 .. Len(events)
      /\ \A e \in 1 .. Len(events) : events'[e] = events[e]
      /\ events'[n] = ev
  BY AppendProperties, LenProperties
<1>2. DOMAIN events' = 1 .. n
  BY <1>1, LenProperties
<1>3. DOMAIN events' = DOMAIN events \cup {n}
  BY <1>1, <1>2
<1>4. Paid' = Paid \cup {ev.sub}
  BY <1>1, <1>3 DEF Paid
<1>5. Ended' = IF ev.kind = "deleted" THEN Ended \cup {ev.sub} ELSE Ended
  BY <1>1, <1>3 DEF Ended
<1>6. OfOrganization' = IF ev.org THEN OfOrganization \cup {ev.sub} ELSE OfOrganization
  BY <1>1, <1>3 DEF OfOrganization
<1> QED BY <1>1, <1>3, <1>4, <1>5, <1>6

(* The two ways in which an event comes to happen.                           *)
LEMMA EventHappens ==
    ASSUME BillingTypeOK, PostCheckout \/ SubscriptionEnds
    PROVE  \/ UNCHANGED <<events, excused>>
           \/ \E sub \in Subscriptions \ Paid, org \in BOOLEAN :
                 /\ events' = Append(events, [kind |-> "completed", org |-> org, sub |-> sub])
                 /\ excused' = (excused \/ (org /\ LiveSubscriptions # {}))
           \/ \E sub \in Paid \ Ended :
                 /\ sub \in Subscriptions
                 /\ events' = Append(events, [kind |-> "deleted", org |-> sub \in OfOrganization, sub |-> sub])
                 /\ excused' = excused
<1>1. CASE PostCheckout
  <2>1. checkout.org \in BOOLEAN
    BY DEF BillingTypeOK
  <2> QED BY <1>1, <2>1 DEF PostCheckout
<1>2. CASE SubscriptionEnds
  <2>1. PICK sub \in Paid \ Ended :
           events' = Append(events, [kind |-> "deleted", org |-> sub \in OfOrganization, sub |-> sub])
    BY <1>2 DEF SubscriptionEnds
  <2>2. sub \in Subscriptions
    <3>1. events \in Seq(Happened)
      BY FieldsTyped DEF BillingFields
    <3> QED BY <3>1, EventFields DEF Paid
  <2>3. excused' = excused
    BY <1>2 DEF SubscriptionEnds
  <2> QED BY <2>1, <2>2, <2>3
<1> QED BY <1>1, <1>2

(* Every other step leaves what happened alone.                              *)
LEMMA NothingHappens ==
    ASSUME [BillingNext]_billingVars, ~PostCheckout, ~SubscriptionEnds
    PROVE  events' = events
BY DEF BillingNext, billingVars, MembersChange, CountMembers, UpdateSeatCount, CheckoutFails,
       WriteTeam, WriteFails, LoadTarget, DeliverCompleted, DeliverDeleted

(* A step hands out no second event of a payment or of an end.               *)
LEMMA OnceKept ==
    ASSUME BillingTypeOK, OncePaidOnceEnded, [BillingNext]_billingVars
    PROVE  OncePaidOnceEnded'
<1>0. events \in Seq(Happened) /\ Len(events) \in Nat /\ IsFiniteSet(Paid) /\ IsFiniteSet(Ended)
  <2>1. events \in Seq(Happened)
    BY FieldsTyped DEF BillingFields
  <2>2. Paid \subseteq Subscriptions
    BY <2>1, EventFields DEF Paid
  <2>3. IsFiniteSet(Subscriptions)
    BY BillingAssumption, FS_Interval DEF Subscriptions
  <2> QED BY <2>1, <2>2, <2>3, LenProperties, FS_Subset DEF OncePaidOnceEnded
<1>1. CASE events' = events
  BY <1>1 DEF OncePaidOnceEnded, Paid, Ended
<1>2. ASSUME NEW sub \in Subscriptions \ Paid, NEW org \in BOOLEAN,
             events' = Append(events, [kind |-> "completed", org |-> org, sub |-> sub])
      PROVE  OncePaidOnceEnded'
  <2>1. [kind |-> "completed", org |-> org, sub |-> sub] \in Happened
    BY DEF Happened
  <2>2. /\ Len(events') = Len(events) + 1
        /\ Paid' = Paid \cup {sub} /\ Ended' = Ended
    BY <1>0, <1>2, <2>1, EventAdded
  <2>3. Cardinality(Paid') = Cardinality(Paid) + 1
    BY <1>0, <2>2, FS_AddElement
  <2>4. Cardinality(Paid) \in Nat /\ Cardinality(Ended) \in Nat
    BY <1>0, FS_CardinalityType
  <2> QED BY <2>2, <2>3, <2>4 DEF OncePaidOnceEnded
<1>3. ASSUME NEW sub \in Paid \ Ended, sub \in Subscriptions,
             events' = Append(events, [kind |-> "deleted", org |-> sub \in OfOrganization, sub |-> sub])
      PROVE  OncePaidOnceEnded'
  <2>1. [kind |-> "deleted", org |-> sub \in OfOrganization, sub |-> sub] \in Happened
    BY <1>3 DEF Happened
  <2> DEFINE ev == [kind |-> "deleted", org |-> sub \in OfOrganization, sub |-> sub]
  <2>5. ev \in Happened /\ ev.kind = "deleted" /\ ev.sub = sub /\ events' = Append(events, ev)
    BY <1>3, <2>1
  <2>2. /\ Len(events') = Len(events) + 1
        /\ Paid' = Paid /\ Ended' = Ended \cup {sub}
    <3> HIDE DEF ev
    <3>1. /\ Len(events') = Len(events) + 1
          /\ Paid' = Paid \cup {ev.sub}
          /\ Ended' = IF ev.kind = "deleted" THEN Ended \cup {ev.sub} ELSE Ended
      BY <1>0, <2>5, EventAdded
    <3> QED BY <2>5, <3>1
  <2>3. Cardinality(Ended') = Cardinality(Ended) + 1
    BY <1>0, <2>2, FS_AddElement
  <2>4. Cardinality(Paid) \in Nat /\ Cardinality(Ended) \in Nat
    BY <1>0, FS_CardinalityType
  <2> QED BY <2>2, <2>3, <2>4 DEF OncePaidOnceEnded
<1> QED BY <1>1, <1>2, <1>3, EventHappens, NothingHappens

(* BillingTypeOK holds of every state of the module.                         *)
THEOREM BillingTyped == BillingSpec => [](BillingTypeOK /\ OncePaidOnceEnded /\ HandlesCheckout)
<1> DEFINE Inv == BillingTypeOK /\ OncePaidOnceEnded /\ HandlesCheckout
<1>1. BillingInit => Inv
  <2> SUFFICES ASSUME BillingInit PROVE Inv
    OBVIOUS
  <2>0. BillingTypeOK
    <3> SUFFICES BillingFields
      BY FieldsTyped
    <3>1. NoCheckout \in Checkouts /\ <<>> \in Seq(Happened)
      BY BillingBounds, EmptySeq DEF NoCheckout, Checkouts
    <3> QED BY <3>1, BillingBounds DEF BillingInit, BillingFields
  <2>1. Paid = {} /\ Ended = {} /\ Len(events) = 0 /\ events \in Seq(Happened)
    BY EmptySeq DEF BillingInit, Paid, Ended
  <2>2. OncePaidOnceEnded
    BY <2>1, FS_EmptySet DEF OncePaidOnceEnded
  <2> QED BY <2>0, <2>2 DEF BillingInit, HandlesCheckout
<1>2. Inv /\ [BillingNext]_billingVars => Inv'
  <2> SUFFICES ASSUME Inv, [BillingNext]_billingVars PROVE Inv'
    OBVIOUS
  <2>1. OncePaidOnceEnded'
    BY OnceKept
  <2>2. /\ events \in Seq(Happened) /\ DOMAIN events = 1 .. Len(events) /\ Len(events) \in Nat
        /\ MaxMembers \in Nat /\ MaxDeliveries \in Nat /\ 0 \in EventNumbers
        /\ 0 \in Counts /\ 1 \in Counts /\ \A n \in 0 .. MaxMembers : n \in Counts
    BY LenProperties, BillingBounds, FieldsTyped DEF BillingFields
  <2> DEFINE Longer == /\ events' \in Seq(Happened) /\ DOMAIN events \subseteq DOMAIN events'
                       /\ \A e \in DOMAIN events : events'[e] = events[e]
  <2>3. Longer
    <3>1. CASE events' = events
      BY <2>2, <3>1
    <3>2. ASSUME NEW sub \in Subscriptions \ Paid, NEW org \in BOOLEAN,
                 events' = Append(events, [kind |-> "completed", org |-> org, sub |-> sub])
          PROVE  Longer
      <4>1. [kind |-> "completed", org |-> org, sub |-> sub] \in Happened
        BY DEF Happened
      <4> QED BY <2>2, <3>2, <4>1, EventAdded
    <3>3. ASSUME NEW sub \in Paid \ Ended, sub \in Subscriptions,
                 events' = Append(events, [kind |-> "deleted", org |-> sub \in OfOrganization, sub |-> sub])
          PROVE  Longer
      <4>1. [kind |-> "deleted", org |-> sub \in OfOrganization, sub |-> sub] \in Happened
        BY <3>3 DEF Happened
      <4> QED BY <2>2, <3>3, <4>1, EventAdded
    <3> QED BY <3>1, <3>2, <3>3, EventHappens, NothingHappens
  <2>4. HandlesCheckout'
    <3>1. ASSUME NEW e \in DOMAIN events, DeliverCompleted(e) PROVE HandlesCheckout'
      BY <2>3, <3>1 DEF DeliverCompleted, HandlesCheckout
    <3>2. CASE handling' = handling \/ handling' = 0
      BY <2>3, <3>2 DEF HandlesCheckout
    <3>3. ASSUME ~\E e \in DOMAIN events : DeliverCompleted(e)
          PROVE  handling' = handling \/ handling' = 0
      BY <3>3 DEF BillingNext, billingVars, MembersChange, CountMembers, UpdateSeatCount, PostCheckout,
             CheckoutFails, SubscriptionEnds, WriteTeam, WriteFails, LoadTarget, DeliverDeleted
    <3> QED BY <3>1, <3>2, <3>3
  <2>5. BillingTypeOK'
    <3> SUFFICES BillingFields'
      BY FieldsTyped
    <3>0. /\ BillingFields
          /\ checkout.at \in {"away", "allowed", "counted", "ready"}
          /\ checkout.org \in BOOLEAN /\ checkout.quantity \in Counts
          /\ NoCheckout \in Checkouts
      BY <2>2, FieldsTyped DEF BillingFields, Checkouts, NoCheckout
    <3> USE DEF BillingFields
    <3>1. CASE MembersChange
      <4>1. PICK n \in 0 .. MaxMembers : members' = n /\ buyerIsAdmin' \in {FALSE, n > 0}
        BY <3>1 DEF MembersChange
      <4>2. buyerIsAdmin' = FALSE \/ buyerIsAdmin' = (n > 0)
        BY <4>1
      <4>3. buyerIsAdmin' \in BOOLEAN
        <5>1. (n > 0) \in BOOLEAN
          OBVIOUS
        <5> QED BY <4>2, <5>1
      <4>4. members' \in Counts
        BY <2>2, <4>1
      <4> QED BY <3>0, <3>1, <4>3, <4>4 DEF MembersChange
    <3>2. ASSUME NEW org \in BOOLEAN, LoadTarget(org) PROVE  BillingFields'
      BY <3>0, <2>2, <3>2 DEF LoadTarget, Checkouts
    <3>3. CASE CountMembers
      BY <3>0, <2>2, <3>3 DEF CountMembers, Checkouts
    <3>4. CASE UpdateSeatCount
      BY <3>0, <2>2, <3>4 DEF UpdateSeatCount, Checkouts
    <3>5. CASE PostCheckout
      BY <3>0, <2>2, <2>3, <3>5 DEF PostCheckout
    <3>6. CASE CheckoutFails
      BY <3>0, <2>2, <3>6 DEF CheckoutFails
    <3>7. CASE SubscriptionEnds
      BY <3>0, <2>2, <2>3, <3>7 DEF SubscriptionEnds
    <3>8. \A e \in DOMAIN events : e \in EventNumbers /\ events[e].sub \in Subscriptions
      <4>1. Paid \subseteq Subscriptions
        BY <2>2, EventFields DEF Paid
      <4>2. IsFiniteSet(Subscriptions) /\ Cardinality(Subscriptions) = MaxSubscriptions
        <5>1. MaxSubscriptions \in Nat /\ 1 \in Int
          BY BillingBounds
        <5>2. IsFiniteSet(1 .. MaxSubscriptions)
              /\ Cardinality(1 .. MaxSubscriptions) = IF 1 > MaxSubscriptions THEN 0 ELSE MaxSubscriptions - 1 + 1
          BY <5>1, FS_Interval
        <5> QED BY <5>1, <5>2 DEF Subscriptions
      <4>3. /\ IsFiniteSet(Paid) /\ Cardinality(Paid) <= MaxSubscriptions
            /\ Cardinality(Ended) <= MaxSubscriptions
        BY <4>1, <4>2, FS_Subset DEF OncePaidOnceEnded
      <4>4. Cardinality(Paid) \in Nat /\ Cardinality(Ended) \in Nat /\ MaxSubscriptions \in Nat
        BY <4>3, BillingAssumption, FS_Subset, FS_CardinalityType DEF OncePaidOnceEnded
      <4>5. Len(events) <= 2 * MaxSubscriptions
        BY <4>3, <4>4 DEF OncePaidOnceEnded
      <4>6. \A e \in DOMAIN events : events[e].sub \in Subscriptions
        BY <4>1 DEF Paid
      <4> QED BY <2>2, <4>4, <4>5, <4>6 DEF EventNumbers
    <3>9. ASSUME NEW e \in DOMAIN events, DeliverCompleted(e) PROVE  BillingFields'
      <4>1. deliveries' \in 0 .. MaxDeliveries
        BY <2>2, <3>0, <3>9 DEF DeliverCompleted, Delivered
      <4>2. /\ customers' \subseteq {"user", "organization"} /\ told' \subseteq DOMAIN events
            /\ excused' \in BOOLEAN /\ handling' \in EventNumbers
        BY <3>0, <2>2, <3>8, <3>9 DEF DeliverCompleted
      <4> QED BY <3>0, <3>9, <4>1, <4>2 DEF DeliverCompleted
    <3>10. ASSUME NEW e \in DOMAIN events, DeliverDeleted(e) PROVE  BillingFields'
      <4>1. deliveries' \in 0 .. MaxDeliveries
        BY <2>2, <3>0, <3>10 DEF DeliverDeleted, Delivered
      <4>2. /\ plan' \in {"free", "team"} /\ subscription' \in Subscriptions \cup {0}
            /\ told' \subseteq DOMAIN events /\ applied' \in EventNumbers
        BY <3>0, <2>2, <3>8, <3>10 DEF DeliverDeleted, Writes
      <4>3. excused' \in BOOLEAN
        BY <3>0, <2>2, <3>8, <3>10 DEF DeliverDeleted, Writes
      <4> QED BY <3>0, <3>10, <4>1, <4>2, <4>3 DEF DeliverDeleted
    <3>11. CASE WriteTeam
      BY <3>0, <2>2, <3>8, <3>11 DEF WriteTeam, Writes, HandlesCheckout
    <3>12. CASE WriteFails
      BY <3>0, <2>2, <3>12 DEF WriteFails
    <3>13. CASE UNCHANGED billingVars
      BY <3>0, <3>13 DEF billingVars
    <3> QED BY <3>1, <3>2, <3>3, <3>4, <3>5, <3>6, <3>7, <3>9, <3>10, <3>11, <3>12, <3>13 DEF BillingNext
  <2> QED BY <2>1, <2>4, <2>5
<1> QED BY <1>1, <1>2, PTL DEF BillingSpec

(* What lives after one more event, and which event is the last of the       *)
(* organization then.                                                        *)
LEMMA LiveAfter ==
    ASSUME events \in Seq(Happened), OncePaidOnceEnded, OneLives, LastTells,
           NEW ev \in Happened, events' = Append(events, ev),
           \/ ev.kind = "completed" /\ ev.sub \notin Paid /\ (ev.org => LiveSubscriptions = {})
           \/ ev.kind = "deleted" /\ ev.sub \in Paid \ Ended /\ (ev.org <=> ev.sub \in OfOrganization)
    PROVE  OneLives' /\ LastTells'
<1> DEFINE n == Len(events) + 1
<1>1. /\ Len(events) \in Nat /\ DOMAIN events = 1 .. Len(events)
      /\ DOMAIN events' = DOMAIN events \cup {n}
      /\ \A e \in DOMAIN events : events'[e] = events[e]
      /\ events'[n] = ev
      /\ Paid' = Paid \cup {ev.sub}
      /\ Ended' = IF ev.kind = "deleted" THEN Ended \cup {ev.sub} ELSE Ended
      /\ OfOrganization' = IF ev.org THEN OfOrganization \cup {ev.sub} ELSE OfOrganization
  BY EventAdded
<1>2. OfOrganization \subseteq Paid /\ Ended \subseteq Paid
  BY DEF OfOrganization, Paid, OncePaidOnceEnded
<1>3. ev.org \in BOOLEAN /\ ev.kind \in {"completed", "deleted"}
  BY DEF Happened
<1>4. CASE ~ev.org
  <2>1. LiveSubscriptions' = LiveSubscriptions
    BY <1>1, <1>2, <1>3, <1>4 DEF LiveSubscriptions
  <2>2. \A e \in DOMAIN events' : LastOfOrganization(e)' => e \in DOMAIN events /\ LastOfOrganization(e)
    BY <1>1, <1>4 DEF LastOfOrganization
  <2>3. OneLives'
    BY <2>1 DEF OneLives
  <2>4. LastTells'
    <3> SUFFICES ASSUME NEW e \in DOMAIN events', LastOfOrganization(e)'
                 PROVE  LiveSubscriptions' = IF events'[e].kind = "completed" THEN {events'[e].sub} ELSE {}
      BY DEF LastTells
    <3>1. e \in DOMAIN events /\ LastOfOrganization(e) /\ events'[e] = events[e]
      BY <1>1, <2>2
    <3> QED BY <2>1, <3>1 DEF LastTells
  <2> QED BY <2>3, <2>4
<1>5. CASE ev.org
  <2>1. LiveSubscriptions' = IF ev.kind = "completed" THEN {ev.sub} ELSE {}
    <3>1. CASE ev.kind = "completed"
      BY <1>1, <1>2, <1>5, <3>1 DEF LiveSubscriptions
    <3>2. CASE ev.kind = "deleted"
      <4>1. ev.sub \in LiveSubscriptions
        BY <1>5, <3>2 DEF LiveSubscriptions
      <4>2. LiveSubscriptions = {ev.sub}
        BY <4>1 DEF OneLives
      <4> QED BY <1>1, <1>5, <3>2, <4>2 DEF LiveSubscriptions
    <3> QED BY <1>3, <3>1, <3>2
  <2>2. \A e \in DOMAIN events' : LastOfOrganization(e)' => e = n
    <3> SUFFICES ASSUME NEW e \in DOMAIN events', LastOfOrganization(e)'
                 PROVE  e = n
      OBVIOUS
    <3>1. n \in DOMAIN events' /\ events'[n].org
      BY <1>1, <1>5
    <3>2. n <= e
      BY <3>1 DEF LastOfOrganization
    <3> QED BY <1>1, <3>2
  <2>3. OneLives'
    BY <2>1 DEF OneLives
  <2>4. LastTells'
    BY <1>1, <2>1, <2>2 DEF LastTells
  <2> QED BY <2>3, <2>4
<1> QED BY <1>3, <1>4, <1>5

(* A handler writes the row and the number of its event with it.             *)
LEMMA RowWritten ==
    ASSUME NEW e \in DOMAIN events, events \in Seq(Happened), applied \in Nat,
           told \subseteq DOMAIN events, Writes(e), ~excused', ~excused => RowFollowsApplied, events' = events, events[e].org,
           IF events[e].kind = "completed" THEN plan' = "team" /\ subscription' = events[e].sub
           ELSE plan' = "free" /\ subscription' = 0
    PROVE  RowFollowsApplied'
<1>1. Len(events) \in Nat /\ DOMAIN events = 1 .. Len(events)
  BY EventFields
<1>2. ~excused /\ applied' = e /\ applied <= e /\ told' = told \cup {e}
  <2>1. excused' = (excused \/ e < applied)
    BY DEF Writes
  <2>2. ~excused /\ ~(e < applied)
    BY <2>1
  <2> QED BY <1>1, <2>2 DEF Writes
<1>3. RowFollowsApplied
  BY <1>2
<1>4. \A f \in told : events[f].org => f <= applied
  BY <1>3 DEF RowFollowsApplied
<1>5. \A f \in told' : events'[f].org => f <= applied'
  <2> SUFFICES ASSUME NEW f \in told', events[f].org PROVE f <= e
    BY <1>2
  <2>1. CASE f = e
    BY <1>1, <2>1
  <2>2. CASE f \in told
    <3>1. f \in Nat /\ f <= applied
      BY <1>1, <1>4, <2>2
    <3> QED BY <1>1, <1>2, <3>1
  <2> QED BY <1>2, <2>1, <2>2
<1> QED BY <1>1, <1>2, <1>5 DEF RowFollowsApplied

(* What the handlers keep while nothing happens that they do not cope with.  *)
LEMMA BillingInvKept ==
    ASSUME BillingTypeOK, OncePaidOnceEnded, HandlesCheckout, [BillingNext]_billingVars,
           ~excused => OneLives /\ LastTells /\ RowFollowsApplied, ~excused'
    PROVE  (OneLives /\ LastTells /\ RowFollowsApplied)'
<1>0. /\ events \in Seq(Happened) /\ applied \in Nat /\ excused \in BOOLEAN
      /\ told \subseteq DOMAIN events
  BY FieldsTyped DEF BillingFields, EventNumbers
<1>1. ASSUME ~excused, events' = events,
             UNCHANGED <<plan, subscription, told, applied>>
      PROVE  (OneLives /\ LastTells /\ RowFollowsApplied)'
  <2>1. LiveSubscriptions' = LiveSubscriptions
    BY <1>1 DEF LiveSubscriptions, Paid, Ended, OfOrganization
  <2> QED BY <1>1, <2>1 DEF OneLives, LastTells, LastOfOrganization, RowFollowsApplied
<1>2. ASSUME ~excused => RowFollowsApplied', ~excused, events' = events
      PROVE  (OneLives /\ LastTells /\ RowFollowsApplied)'
  <2>1. LiveSubscriptions' = LiveSubscriptions
    BY <1>2 DEF LiveSubscriptions, Paid, Ended, OfOrganization
  <2> QED BY <1>2, <2>1 DEF OneLives, LastTells, LastOfOrganization
<1>3. ASSUME ~excused, NEW ev \in Happened, events' = Append(events, ev),
             \/ ev.kind = "completed" /\ ev.sub \notin Paid /\ (ev.org => LiveSubscriptions = {})
             \/ ev.kind = "deleted" /\ ev.sub \in Paid \ Ended /\ (ev.org <=> ev.sub \in OfOrganization),
             UNCHANGED <<plan, subscription, told, applied>>
      PROVE  (OneLives /\ LastTells /\ RowFollowsApplied)'
  <2>1. OneLives' /\ LastTells'
    BY <1>0, <1>3, LiveAfter
  <2>2. DOMAIN events \subseteq DOMAIN events' /\ \A e \in DOMAIN events : events'[e] = events[e]
    BY <1>0, <1>3, EventAdded
  <2>3. RowFollowsApplied'
    BY <1>0, <1>3, <2>2 DEF RowFollowsApplied
  <2> QED BY <2>1, <2>3
<1>4. CASE PostCheckout \/ SubscriptionEnds
  <2>0. UNCHANGED <<plan, subscription, told, applied>>
    BY <1>4 DEF PostCheckout, SubscriptionEnds
  <2>1. CASE UNCHANGED <<events, excused>>
    BY <1>1, <2>0, <2>1
  <2>2. ASSUME NEW sub \in Subscriptions \ Paid, NEW org \in BOOLEAN,
               events' = Append(events, [kind |-> "completed", org |-> org, sub |-> sub]),
               excused' = (excused \/ (org /\ LiveSubscriptions # {}))
        PROVE  (OneLives /\ LastTells /\ RowFollowsApplied)'
    <3> DEFINE ev == [kind |-> "completed", org |-> org, sub |-> sub]
    <3>1. ev \in Happened /\ ev.kind = "completed" /\ ev.org = org /\ ev.sub = sub
      BY DEF Happened
    <3>2. ~excused /\ (org => LiveSubscriptions = {})
      BY <2>2
    <3>3. events' = Append(events, ev)
      BY <2>2
    <3> HIDE DEF ev
    <3>4. ev.kind = "completed" /\ ev.sub \notin Paid /\ (ev.org => LiveSubscriptions = {})
      BY <3>1, <3>2
    <3> QED BY <1>3, <2>0, <3>1, <3>2, <3>3, <3>4
  <2>3. ASSUME NEW sub \in Paid \ Ended, sub \in Subscriptions,
               events' = Append(events, [kind |-> "deleted", org |-> sub \in OfOrganization, sub |-> sub]),
               excused' = excused
        PROVE  (OneLives /\ LastTells /\ RowFollowsApplied)'
    <3> DEFINE ev == [kind |-> "deleted", org |-> sub \in OfOrganization, sub |-> sub]
    <3>0. ev \in Happened /\ ev.kind = "deleted" /\ ev.sub = sub
      BY <2>3 DEF Happened
    <3>2. ev.org = (sub \in OfOrganization)
      OBVIOUS
    <3>1. ev \in Happened /\ ev.kind = "deleted" /\ (ev.org <=> sub \in OfOrganization) /\ ev.sub = sub
      BY <3>0, <3>2
    <3>3. events' = Append(events, ev) /\ ~excused
      BY <2>3
    <3> HIDE DEF ev
    <3>4. ev.kind = "deleted" /\ ev.sub \in Paid \ Ended /\ (ev.org <=> ev.sub \in OfOrganization)
      BY <3>1
    <3> QED BY <1>3, <2>0, <3>1, <3>3, <3>4
  <2> QED BY <1>4, <2>1, <2>2, <2>3, EventHappens
<1>5. ASSUME NEW e \in DOMAIN events, DeliverDeleted(e)
      PROVE  (OneLives /\ LastTells /\ RowFollowsApplied)'
  <2>1. CASE events[e].org
    <3>1. /\ Writes(e) /\ events' = events /\ events[e].kind = "deleted"
          /\ plan' = "free" /\ subscription' = 0
      BY <1>5, <2>1 DEF DeliverDeleted
    <3>2. RowFollowsApplied'
      BY <1>0, <2>1, <3>1, RowWritten
    <3>3. ~excused
      BY <3>1 DEF Writes
    <3> QED BY <1>2, <3>1, <3>2, <3>3
  <2>2. CASE ~events[e].org
    <3>1. /\ told' = told \cup {e} /\ UNCHANGED <<plan, subscription, applied, excused, events>>
      BY <1>5, <2>2 DEF DeliverDeleted
    <3>2. RowFollowsApplied'
      BY <2>2, <3>1 DEF RowFollowsApplied
    <3> QED BY <1>2, <3>1, <3>2
  <2> QED BY <2>1, <2>2
<1>6. ASSUME NEW e \in DOMAIN events, DeliverCompleted(e)
      PROVE  (OneLives /\ LastTells /\ RowFollowsApplied)'
  <2>0. UNCHANGED <<plan, subscription, applied, events>>
    BY <1>6 DEF DeliverCompleted
  <2>1. ~excused /\ (told' = told \/ (~events[e].org /\ told' = told \cup {e}))
    BY <1>6 DEF DeliverCompleted
  <2>2. RowFollowsApplied'
    BY <2>0, <2>1 DEF RowFollowsApplied
  <2> QED BY <1>2, <2>0, <2>1, <2>2
<1>7. CASE WriteTeam
  <2>1. /\ handling \in DOMAIN events /\ events[handling].kind = "completed" /\ events[handling].org
        /\ Writes(handling) /\ events' = events
        /\ plan' = "team" /\ subscription' = events[handling].sub
    BY <1>7 DEF WriteTeam, HandlesCheckout
  <2>2. RowFollowsApplied'
    BY <1>0, <2>1, RowWritten
  <2>3. ~excused
    BY <2>1 DEF Writes
  <2> QED BY <1>2, <2>1, <2>2, <2>3
<1>8. ASSUME \/ MembersChange \/ CountMembers \/ UpdateSeatCount \/ CheckoutFails \/ WriteFails
             \/ (\E org \in BOOLEAN : LoadTarget(org)) \/ UNCHANGED billingVars
      PROVE  (OneLives /\ LastTells /\ RowFollowsApplied)'
  <2>1. UNCHANGED <<events, excused, plan, subscription, told, applied>>
    BY <1>8 DEF MembersChange, CountMembers, UpdateSeatCount, CheckoutFails, WriteFails, LoadTarget, billingVars
  <2> QED BY <1>1, <2>1
<1> QED BY <1>4, <1>5, <1>6, <1>7, <1>8 DEF BillingNext

(* Once every event was taken, the organization is on the team plan just     *)
(* when its subscription lives, and names it (stripe_webhook).               *)
THEOREM PlanFollows == BillingSpec => []PlanFollowsSubscription
<1> DEFINE Types == BillingTypeOK /\ OncePaidOnceEnded /\ HandlesCheckout
<1> DEFINE Inv == ~excused => OneLives /\ LastTells /\ RowFollowsApplied
<1>1. BillingInit => Inv
  <2> SUFFICES ASSUME BillingInit PROVE OneLives /\ LastTells /\ RowFollowsApplied
    OBVIOUS
  <2>1. Len(events) = 0 /\ events \in Seq(Happened)
    BY EmptySeq DEF BillingInit
  <2>2. DOMAIN events = {}
    BY <2>1, EventFields
  <2>3. LiveSubscriptions = {}
    BY <2>2 DEF LiveSubscriptions, Paid
  <2> QED BY <2>2, <2>3 DEF BillingInit, OneLives, LastTells, RowFollowsApplied
<1>2. Inv /\ Types /\ [BillingNext]_billingVars => Inv'
  BY BillingInvKept
<1>3. Inv /\ Types => PlanFollowsSubscription
  <2> SUFFICES ASSUME LastTells, RowFollowsApplied, BillingTypeOK, told = DOMAIN events
               PROVE  IF LiveSubscriptions = {} THEN plan = "free" /\ subscription = 0
                      ELSE plan = "team" /\ subscription \in LiveSubscriptions
    BY DEF PlanFollowsSubscription
  <2>1. events \in Seq(Happened) /\ applied \in Nat
    BY FieldsTyped DEF BillingFields, EventNumbers
  <2>2. DOMAIN events = 1 .. Len(events) /\ Len(events) \in Nat
        /\ \A e \in DOMAIN events : events[e].kind \in {"completed", "deleted"}
    BY <2>1, EventFields
  <2>3. \A e \in DOMAIN events : events[e].org => e <= applied
    BY DEF RowFollowsApplied
  <2>4. CASE applied = 0
    <3>1. OfOrganization = {}
      BY <2>2, <2>3, <2>4 DEF OfOrganization
    <3>2. LiveSubscriptions = {}
      BY <3>1 DEF LiveSubscriptions
    <3> QED BY <2>4, <3>2 DEF RowFollowsApplied
  <2>5. CASE applied # 0
    <3>1. applied \in DOMAIN events /\ LastOfOrganization(applied)
      BY <2>3, <2>5 DEF RowFollowsApplied, LastOfOrganization
    <3>2. LiveSubscriptions = IF events[applied].kind = "completed" THEN {events[applied].sub} ELSE {}
      BY <3>1 DEF LastTells
    <3> QED BY <2>2, <2>5, <3>1, <3>2 DEF RowFollowsApplied
  <2> QED BY <2>4, <2>5
<1>4. BillingSpec => []Types
  BY BillingTyped
<1> HIDE DEF Inv, Types
<1> QED BY <1>1, <1>2, <1>3, <1>4, PTL DEF BillingSpec

-----------------------------------------------------------------------------
(* SignInGate                                                                 *)

(* Of the requests of a key that passed less than a window ago: those its    *)
(* present bucket counts, and those of the bucket before.                    *)
Counted(k) == {a \in accepted[k] : a.age + bucket[k].left <= Window}
StillCounted(k) == {a \in accepted[k] : a.age + bucket[k].left > Window}

(* The places of one bucket are given once.                                  *)
PlacedOnce(requests) == \A a, b \in requests : a.nth = b.nth => a = b

(* A bucket has counted what passed since it opened, and no request that it  *)
(* counts is older than it; the first is as old as it, so the first of the   *)
(* bucket before is not among those of the last window. Without a bucket     *)
(* nothing passed at this time.                                              *)
BucketCounts(k) ==
    /\ PlacedOnce(Counted(k)) /\ PlacedOnce(StillCounted(k))
    /\ \A a \in Counted(k) : a.nth = 1 => a.age + bucket[k].left = Window
    /\ \A a \in StillCounted(k) : a.nth # 1
    /\ bucket[k].left > 0 => \A a \in Counted(k) : a.nth <= bucket[k].count
    /\ bucket[k].left = 0 <=> bucket[k].count = 0
    /\ bucket[k].left = 0 => \A a \in accepted[k] : a.age > 0
GateInv == \A k \in LimiterKeys : BucketCounts(k)

Requests == [age : 0 .. Window - 1, nth : 1 .. MaxAttempts]
Buckets == [count : 0 .. MaxAttempts, left : 0 .. Window]

(* The bounds of the limiter are numbers.                                    *)
LEMMA GateBounds ==
    /\ MaxAttempts \in Nat \ {0} /\ Window \in Nat \ {0}
    /\ StateTtl \in Nat /\ Leeway \in Nat
BY GateAssumption

(* Every request is counted under a key of the limiter.                      *)
LEMMA KeysTyped ==
    \A forwarded, realIp \in Header, agent \in AgentHeader : KeyOf(forwarded, realIp, agent) \in LimiterKeys
<1> TAKE forwarded, realIp \in Header, agent \in AgentHeader
<1> DEFINE address == IF forwarded = "absent" THEN realIp ELSE forwarded
<1>1. CASE address \in Addresses
  BY <1>1 DEF KeyOf, LimiterKeys
<1>2. CASE address \notin Addresses /\ agent # "absent"
  BY <1>2 DEF KeyOf, LimiterKeys
<1>3. CASE address \notin Addresses /\ agent = "absent"
  BY <1>3 DEF KeyOf, LimiterKeys
<1> QED BY <1>1, <1>2, <1>3

(* The limiter's part of GateTypeOK, one key at a time.                      *)
LEMMA LimiterFields ==
    ASSUME GateTypeOK, NEW k \in LimiterKeys
    PROVE  /\ bucket[k] \in Buckets /\ bucket[k].count \in 0 .. MaxAttempts /\ bucket[k].left \in 0 .. Window
           /\ bucket[k] = [count |-> bucket[k].count, left |-> bucket[k].left]
           /\ accepted[k] \subseteq Requests
           /\ \A a \in accepted[k] : a.age \in 0 .. Window - 1 /\ a.nth \in 1 .. MaxAttempts
           /\ \A a, b \in accepted[k] : a.age = b.age /\ a.nth = b.nth => a = b
<1>1. bucket[k] \in Buckets /\ accepted[k] \subseteq Requests
  BY DEF GateTypeOK, Buckets, Requests
<1> QED BY <1>1 DEF Buckets, Requests

(* What passed of a key, after a step of the limiter.                        *)
LEMMA CheckFields ==
    ASSUME GateTypeOK, NEW k \in LimiterKeys, Check(k)
    PROVE  /\ bucket[k].count < MaxAttempts
           /\ bucket'[k].count = bucket[k].count + 1
           /\ bucket'[k].left = IF bucket[k].left = 0 THEN Window ELSE bucket[k].left
           /\ bucket'[k] \in Buckets
           /\ accepted'[k] = accepted[k] \cup {[age |-> 0, nth |-> bucket[k].count + 1]}
           /\ \A j \in LimiterKeys \ {k} : bucket'[j] = bucket[j] /\ accepted'[j] = accepted[j]
           /\ bucket' \in [LimiterKeys -> Buckets]
           /\ accepted' \in [LimiterKeys -> SUBSET Requests]
<1>1. /\ bucket \in [LimiterKeys -> Buckets]
      /\ accepted \in [LimiterKeys -> SUBSET Requests]
  BY DEF GateTypeOK, Buckets, Requests
<1>2. bucket[k].count \in 0 .. MaxAttempts /\ bucket[k].left \in 0 .. Window /\ bucket[k].count < MaxAttempts
  BY LimiterFields DEF Check
<1>3. [age |-> 0, nth |-> bucket[k].count + 1] \in Requests
  BY <1>2, GateBounds DEF Requests
<1> DEFINE later == [count |-> bucket[k].count + 1,
                     left |-> IF bucket[k].left = 0 THEN Window ELSE bucket[k].left]
<1>4. later \in Buckets /\ later.count = bucket[k].count + 1
      /\ later.left = IF bucket[k].left = 0 THEN Window ELSE bucket[k].left
  BY <1>2, GateBounds DEF Buckets
<1>5. bucket' = [bucket EXCEPT ![k] = later]
  BY DEF Check
<1>6. accepted' = [accepted EXCEPT ![k] = accepted[k] \cup {[age |-> 0, nth |-> bucket[k].count + 1]}]
  BY DEF Check
<1> HIDE DEF later
<1> QED BY <1>1, <1>2, <1>3, <1>4, <1>5, <1>6

(* When time passes, every request of a key gets older and the oldest are    *)
(* forgotten.                                                                *)
LEMMA TickFields ==
    ASSUME GateTypeOK, GateTick, NEW k \in LimiterKeys
    PROVE  /\ bucket'[k].left = IF bucket[k].left <= 1 THEN 0 ELSE bucket[k].left - 1
           /\ bucket'[k].count = IF bucket[k].left <= 1 THEN 0 ELSE bucket[k].count
           /\ bucket'[k] \in Buckets
           /\ accepted'[k] \subseteq Requests
           /\ \A a \in accepted'[k] : /\ a.age \in 1 .. Window - 1
                                      /\ \E b \in accepted[k] : b.age = a.age - 1 /\ b.nth = a.nth
<1>0. /\ bucket[k].count \in 0 .. MaxAttempts /\ bucket[k].left \in 0 .. Window
      /\ bucket[k] = [count |-> bucket[k].count, left |-> bucket[k].left]
      /\ \A a \in accepted[k] : a.age \in 0 .. Window - 1 /\ a.nth \in 1 .. MaxAttempts
  BY LimiterFields
<1>1. bucket'[k] = IF bucket[k].left <= 1 THEN NoBucket ELSE [bucket[k] EXCEPT !.left = @ - 1]
  BY DEF GateTick
<1>2. accepted'[k] = {[age |-> a.age + 1, nth |-> a.nth] : a \in {b \in accepted[k] : b.age + 1 < Window}}
  BY DEF GateTick
<1>3. /\ bucket'[k].left = IF bucket[k].left <= 1 THEN 0 ELSE bucket[k].left - 1
      /\ bucket'[k].count = IF bucket[k].left <= 1 THEN 0 ELSE bucket[k].count
      /\ bucket'[k] \in Buckets
  <2>1. CASE bucket[k].left <= 1
    BY <1>1, <2>1, GateBounds DEF NoBucket, Buckets
  <2>2. CASE ~(bucket[k].left <= 1)
    <3>1. bucket'[k] = [count |-> bucket[k].count, left |-> bucket[k].left - 1]
      BY <1>0, <1>1, <2>2
    <3> QED BY <1>0, <2>2, <3>1, GateBounds DEF Buckets
  <2> QED BY <2>1, <2>2
<1>4. ASSUME NEW a \in accepted'[k]
      PROVE  /\ a \in Requests /\ a.age \in 1 .. Window - 1
             /\ \E b \in accepted[k] : b.age = a.age - 1 /\ b.nth = a.nth
  <2>1. PICK b \in accepted[k] : b.age + 1 < Window /\ a = [age |-> b.age + 1, nth |-> b.nth]
    BY <1>2
  <2>2. a.age = b.age + 1 /\ a.nth = b.nth
    BY <2>1
  <2>3. a.age \in 1 .. Window - 1 /\ b.age = a.age - 1 /\ b.nth \in 1 .. MaxAttempts
    BY <1>0, <2>1, <2>2, GateBounds
  <2>4. a \in Requests
    BY <2>1, <2>2, <2>3, GateBounds DEF Requests
  <2> QED BY <2>2, <2>3, <2>4
<1> QED BY <1>3, <1>4

(* GateTypeOK holds of every state of the module.                            *)
THEOREM GateTyped == GateSpec => []GateTypeOK
<1> DEFINE Targets == {uri.authority : uri \in Redirects}
<1>0. NoBucket \in Buckets
  BY GateBounds DEF NoBucket, Buckets
<1>1. GateInit => GateTypeOK
  BY <1>0 DEF GateInit, GateTypeOK, Buckets
<1>2. GateTypeOK /\ [GateNext]_gateVars => GateTypeOK'
  <2> SUFFICES ASSUME GateTypeOK, [GateNext]_gateVars PROVE GateTypeOK'
    OBVIOUS
  <2>0. pending \in [0 .. StateTtl + Leeway -> SUBSET Targets]
        /\ sentTo \in Authorities \cup {"nobody", "caller"} /\ Targets \subseteq Authorities
    BY DEF GateTypeOK, Redirects
  <2>1. CASE GateTick
    <3>1. bucket' \in [LimiterKeys -> Buckets]
      <4>1. \A k \in LimiterKeys : bucket'[k] \in Buckets
        BY <2>1, TickFields
      <4> QED BY <2>1, <4>1 DEF GateTick
    <3>2. accepted' \in [LimiterKeys -> SUBSET Requests]
      <4>1. \A k \in LimiterKeys : accepted'[k] \subseteq Requests
        BY <2>1, TickFields
      <4> QED BY <2>1, <4>1 DEF GateTick
    <3>3. pending' \in [0 .. StateTtl + Leeway -> SUBSET Targets]
      <4>1. \A a \in 0 .. StateTtl + Leeway : a # 0 => a - 1 \in 0 .. StateTtl + Leeway
        BY GateBounds
      <4> HIDE DEF Targets
      <4> QED BY <2>0, <2>1, <4>1 DEF GateTick
    <3> QED BY <2>1, <3>1, <3>2, <3>3 DEF GateTypeOK, GateTick, Buckets, Requests
  <2>2. ASSUME NEW k \in LimiterKeys, NEW uri \in Redirects, LoginInit(k, uri)
        PROVE  GateTypeOK'
    <3>1. bucket' \in [LimiterKeys -> Buckets] /\ accepted' \in [LimiterKeys -> SUBSET Requests]
      BY <2>2, CheckFields DEF LoginInit
    <3>2. pending' \in [0 .. StateTtl + Leeway -> SUBSET Targets]
      <4>1. uri.authority \in Targets
        OBVIOUS
      <4> HIDE DEF Targets
      <4> QED BY <2>0, <2>2, <4>1 DEF LoginInit
    <3> QED BY <2>2, <3>1, <3>2 DEF LoginInit, GateTypeOK, Buckets, Requests
  <2>3. ASSUME NEW k \in LimiterKeys, FinishCallback(k)
        PROVE  GateTypeOK'
    <3>1. bucket' \in [LimiterKeys -> Buckets] /\ accepted' \in [LimiterKeys -> SUBSET Requests]
      BY <2>3, CheckFields DEF FinishCallback
    <3>2. sentTo' \in Authorities \cup {"nobody", "caller"}
      <4> HIDE DEF Targets
      <4> QED BY <2>0, <2>3 DEF FinishCallback
    <3> QED BY <2>3, <3>1, <3>2 DEF FinishCallback, GateTypeOK, Buckets, Requests
  <2>4. CASE UNCHANGED gateVars
    BY <2>4 DEF GateTypeOK, gateVars
  <2> QED BY <2>1, <2>2, <2>3, <2>4, KeysTyped DEF GateNext
<1> QED BY <1>1, <1>2, PTL DEF GateSpec

(* A request that passes keeps what the buckets count.                       *)
LEMMA CheckKeeps ==
    ASSUME GateTypeOK, GateInv, NEW k \in LimiterKeys, Check(k)
    PROVE  GateInv'
<1>0. ASSUME NEW j \in LimiterKeys \ {k} PROVE BucketCounts(j)'
  <2>1. bucket'[j] = bucket[j] /\ accepted'[j] = accepted[j]
    BY CheckFields
  <2> QED BY <2>1 DEF GateInv, BucketCounts, Counted, StillCounted
<1> DEFINE new == [age |-> 0, nth |-> bucket[k].count + 1]
<1>1. /\ bucket'[k].count = bucket[k].count + 1
      /\ bucket'[k].left = IF bucket[k].left = 0 THEN Window ELSE bucket[k].left
      /\ accepted'[k] = accepted[k] \cup {new}
  BY CheckFields
<1>2. /\ bucket[k].count \in Nat /\ bucket[k].left \in 0 .. Window
      /\ \A a \in accepted[k] : a.age \in 0 .. Window - 1 /\ a.nth \in 1 .. MaxAttempts
  <2>1. bucket[k].count \in 0 .. MaxAttempts
    BY LimiterFields
  <2>2. bucket[k].count \in Nat
    BY <2>1, GateBounds
  <2> QED BY <2>2, LimiterFields
<1>3. new.age = 0 /\ new.nth = bucket[k].count + 1
  OBVIOUS
<1>4. BucketCounts(k)
  BY DEF GateInv
<1> HIDE DEF new
<1>5. CASE bucket[k].left = 0
  <2>1. Counted(k)' = {new}
    BY <1>1, <1>2, <1>3, <1>4, <1>5, GateBounds DEF Counted, BucketCounts
  <2>2. StillCounted(k)' = Counted(k)
    BY <1>1, <1>2, <1>3, <1>4, <1>5, GateBounds DEF StillCounted, Counted, BucketCounts
  <2>3. \A a \in Counted(k)' : a.nth = 1 => a.age + bucket'[k].left = Window
    BY <1>1, <1>3, <1>5, <2>1, GateBounds
  <2>4. \A a \in StillCounted(k)' : a.nth # 1
    <3> SUFFICES ASSUME NEW a \in Counted(k), a.nth = 1 PROVE FALSE
      BY <2>2
    <3>1. a \in accepted[k] /\ a.age + bucket[k].left = Window
      BY <1>4 DEF BucketCounts, Counted
    <3> QED BY <1>2, <1>5, <3>1, GateBounds
  <2>5. PlacedOnce(Counted(k)') /\ PlacedOnce(StillCounted(k)')
    BY <1>4, <2>1, <2>2 DEF BucketCounts, PlacedOnce
  <2>6. bucket'[k].left > 0 => \A a \in Counted(k)' : a.nth <= bucket'[k].count
    BY <1>1, <1>2, <1>3, <2>1
  <2>7. bucket'[k].left # 0 /\ bucket'[k].count # 0
    BY <1>1, <1>2, <1>5, GateBounds
  <2>8. BucketCounts(k)'
    BY <2>3, <2>4, <2>5, <2>6, <2>7 DEF BucketCounts
  <2> QED BY <1>0, <2>8 DEF GateInv
<1>6. CASE bucket[k].left # 0
  <2>1. Counted(k)' = Counted(k) \cup {new}
    BY <1>1, <1>2, <1>3, <1>6, GateBounds DEF Counted
  <2>2. StillCounted(k)' = StillCounted(k)
    BY <1>1, <1>2, <1>3, <1>6, GateBounds DEF StillCounted
  <2>3. \A a \in Counted(k) : a.nth <= bucket[k].count /\ a.nth \in Nat
    BY <1>2, <1>4, <1>6, GateBounds DEF BucketCounts, Counted
  <2>4. PlacedOnce(Counted(k)') /\ \A a \in Counted(k)' : a.nth <= bucket'[k].count
    BY <1>1, <1>2, <1>3, <1>4, <2>1, <2>3 DEF BucketCounts, PlacedOnce
  <2>5. bucket'[k].left = bucket[k].left /\ bucket[k].count # 0
    BY <1>1, <1>2, <1>4, <1>6, GateBounds DEF BucketCounts
  <2>6. \A a \in Counted(k)' : a.nth = 1 => a.age + bucket'[k].left = Window
    BY <1>2, <1>3, <1>4, <2>1, <2>5 DEF BucketCounts
  <2>7. PlacedOnce(StillCounted(k)') /\ \A a \in StillCounted(k)' : a.nth # 1
    BY <1>4, <2>2 DEF BucketCounts
  <2>8. bucket'[k].left # 0 /\ bucket'[k].count # 0
    BY <1>1, <1>2, <1>6, <2>5
  <2>9. BucketCounts(k)'
    BY <2>4, <2>6, <2>7, <2>8 DEF BucketCounts
  <2> QED BY <1>0, <2>9 DEF GateInv
<1> QED BY <1>5, <1>6

(* So does time.                                                             *)
LEMMA TickKeeps ==
    ASSUME GateTypeOK, GateInv, GateTick
    PROVE  GateInv'
<1> SUFFICES ASSUME NEW k \in LimiterKeys PROVE BucketCounts(k)'
  BY DEF GateInv
<1>1. /\ bucket'[k].left = IF bucket[k].left <= 1 THEN 0 ELSE bucket[k].left - 1
      /\ bucket'[k].count = IF bucket[k].left <= 1 THEN 0 ELSE bucket[k].count
      /\ accepted'[k] \subseteq Requests
      /\ \A a \in accepted'[k] : /\ a.age \in 1 .. Window - 1
                                 /\ \E b \in accepted[k] : b.age = a.age - 1 /\ b.nth = a.nth
  BY TickFields
<1>2. /\ bucket[k].count \in Nat /\ bucket[k].left \in 0 .. Window
      /\ \A a \in accepted[k] : a.age \in 0 .. Window - 1 /\ a.nth \in 1 .. MaxAttempts
  <2>1. bucket[k].count \in 0 .. MaxAttempts
    BY LimiterFields
  <2>2. bucket[k].count \in Nat
    BY <2>1, GateBounds
  <2> QED BY <2>2, LimiterFields
<1>3. BucketCounts(k)
  BY DEF GateInv
<1>4. \A a, b \in accepted'[k] : a.age = b.age /\ a.nth = b.nth => a = b
  BY <1>1 DEF Requests
<1>5. ASSUME NEW a \in Counted(k)'
      PROVE  a \in accepted'[k] /\ \E b \in Counted(k) : b.age = a.age - 1 /\ b.nth = a.nth
  <2>1. a \in accepted'[k] /\ a.age + bucket'[k].left <= Window
    BY DEF Counted
  <2>2. PICK b \in accepted[k] : b.age = a.age - 1 /\ b.nth = a.nth
    BY <1>1, <2>1
  <2>3. a.age \in 1 .. Window - 1
    BY <1>1, <2>1
  <2>4. b.age + bucket[k].left <= Window
    BY <1>1, <1>2, <2>1, <2>2, <2>3, GateBounds
  <2> QED BY <2>1, <2>2, <2>4 DEF Counted
<1>6. ASSUME NEW a \in StillCounted(k)'
      PROVE  a \in accepted'[k] /\ bucket[k].left > 1 /\ \E b \in StillCounted(k) : b.age = a.age - 1 /\ b.nth = a.nth
  <2>1. a \in accepted'[k] /\ a.age + bucket'[k].left > Window
    BY DEF StillCounted
  <2>2. PICK b \in accepted[k] : b.age = a.age - 1 /\ b.nth = a.nth
    BY <1>1, <2>1
  <2>3. a.age \in 1 .. Window - 1
    BY <1>1, <2>1
  <2>4. b.age + bucket[k].left > Window /\ bucket[k].left > 1
    BY <1>1, <1>2, <2>1, <2>2, <2>3, GateBounds
  <2> QED BY <2>1, <2>2, <2>4 DEF StillCounted
<1>7. PlacedOnce(Counted(k)')
  <2> SUFFICES ASSUME NEW a \in Counted(k)', NEW b \in Counted(k)', a.nth = b.nth PROVE a = b
    BY DEF PlacedOnce
  <2>1. PICK c \in Counted(k) : c.age = a.age - 1 /\ c.nth = a.nth
    BY <1>5
  <2>2. PICK d \in Counted(k) : d.age = b.age - 1 /\ d.nth = b.nth
    BY <1>5
  <2>3. c = d
    BY <1>3, <2>1, <2>2 DEF BucketCounts, PlacedOnce
  <2>4. a.age = b.age
    BY <1>1, <1>5, <2>1, <2>2, <2>3, GateBounds
  <2> QED BY <1>4, <1>5, <2>4
<1>8. PlacedOnce(StillCounted(k)')
  <2> SUFFICES ASSUME NEW a \in StillCounted(k)', NEW b \in StillCounted(k)', a.nth = b.nth PROVE a = b
    BY DEF PlacedOnce
  <2>1. PICK c \in StillCounted(k) : c.age = a.age - 1 /\ c.nth = a.nth
    BY <1>6
  <2>2. PICK d \in StillCounted(k) : d.age = b.age - 1 /\ d.nth = b.nth
    BY <1>6
  <2>3. c = d
    BY <1>3, <2>1, <2>2 DEF BucketCounts, PlacedOnce
  <2>4. a.age = b.age
    BY <1>1, <1>6, <2>1, <2>2, <2>3, GateBounds
  <2> QED BY <1>4, <1>6, <2>4
<1>9. bucket'[k].left > 0 => \A a \in Counted(k)' : a.nth <= bucket'[k].count
  BY <1>1, <1>2, <1>3, <1>5 DEF BucketCounts
<1>10. (bucket'[k].left = 0 <=> bucket'[k].count = 0) /\ \A a \in accepted'[k] : a.age > 0
  BY <1>1, <1>2, <1>3, GateBounds DEF BucketCounts
<1>11. ASSUME NEW a \in Counted(k)', a.nth = 1
       PROVE  a.age + bucket'[k].left = Window
  <2>1. PICK b \in Counted(k) : b.age = a.age - 1 /\ b.nth = a.nth
    BY <1>5
  <2>2. b \in accepted[k] /\ b.age + bucket[k].left = Window
    BY <1>3, <1>11, <2>1 DEF BucketCounts, Counted
  <2>3. a.age \in 1 .. Window - 1
    BY <1>1, <1>5
  <2> QED BY <1>1, <1>2, <2>1, <2>2, <2>3, GateBounds
<1>12. ASSUME NEW a \in StillCounted(k)'
       PROVE  a.nth # 1
  <2>1. PICK b \in StillCounted(k) : b.nth = a.nth
    BY <1>6
  <2> QED BY <1>3, <2>1 DEF BucketCounts
<1> QED BY <1>7, <1>8, <1>9, <1>10, <1>11, <1>12 DEF BucketCounts

(* Requests that are placed once in a bucket are no more than it has places, *)
(* and fewer without the first.                                              *)
LEMMA PlacesBound ==
    ASSUME NEW S \in SUBSET Requests, PlacedOnce(S)
    PROVE  /\ IsFiniteSet(S) /\ Cardinality(S) <= MaxAttempts
           /\ (\A a \in S : a.nth # 1) => Cardinality(S) < MaxAttempts
<1> DEFINE place == [a \in S |-> a.nth]
<1>1. IsFiniteSet(1 .. MaxAttempts) /\ Cardinality(1 .. MaxAttempts) = MaxAttempts
  <2>1. MaxAttempts \in Nat /\ 1 \in Int /\ MaxAttempts >= 1
    BY GateBounds
  <2>2. /\ IsFiniteSet(1 .. MaxAttempts)
        /\ Cardinality(1 .. MaxAttempts) = IF 1 > MaxAttempts THEN 0 ELSE MaxAttempts - 1 + 1
    BY <2>1, FS_Interval
  <2> QED BY <2>1, <2>2
<1>2. place \in [S -> 1 .. MaxAttempts]
  BY DEF Requests
<1>3. place \in Injection(S, 1 .. MaxAttempts)
  BY <1>2 DEF PlacedOnce, Injection, IsInjective
<1>4. ASSUME \A a \in S : a.nth # 1
      PROVE  Cardinality(S) < MaxAttempts
  <2>1. IsFiniteSet(2 .. MaxAttempts) /\ Cardinality(2 .. MaxAttempts) = MaxAttempts - 1
    <3>1. MaxAttempts \in Int /\ 2 \in Int /\ MaxAttempts >= 1
      BY GateBounds
    <3>2. /\ IsFiniteSet(2 .. MaxAttempts)
          /\ Cardinality(2 .. MaxAttempts) = IF 2 > MaxAttempts THEN 0 ELSE MaxAttempts - 2 + 1
      BY <3>1, FS_Interval
    <3> QED BY <3>1, <3>2
  <2>2. place \in Injection(S, 2 .. MaxAttempts)
    <3>1. \A a \in S : a.nth \in 2 .. MaxAttempts
      BY <1>4, GateBounds DEF Requests
    <3> QED BY <3>1 DEF PlacedOnce, Injection, IsInjective
  <2>3. IsFiniteSet(S) /\ Cardinality(S) <= MaxAttempts - 1
    <3> HIDE DEF place
    <3> QED BY <2>1, <2>2, FS_Injection
  <2>4. Cardinality(S) \in Nat
    BY <2>3, FS_CardinalityType
  <2> QED BY <2>3, <2>4, GateBounds
<1> QED BY <1>1, <1>3, <1>4, FS_Injection

(* However the requests are spaced, fewer than twice max_requests of one key *)
(* pass within less than a window (RateLimiter::check).                      *)
THEOREM BurstsBounded == GateSpec => []BurstBounded
<1>1. GateInit => GateInv
  <2> SUFFICES ASSUME GateInit, NEW k \in LimiterKeys PROVE BucketCounts(k)
    BY DEF GateInv
  <2>1. bucket[k].left = 0 /\ bucket[k].count = 0 /\ accepted[k] = {}
    BY DEF GateInit, NoBucket
  <2> QED BY <2>1 DEF BucketCounts, Counted, StillCounted, PlacedOnce
<1>2. GateInv /\ GateTypeOK /\ [GateNext]_gateVars => GateInv'
  <2> SUFFICES ASSUME GateInv, GateTypeOK, [GateNext]_gateVars PROVE GateInv'
    OBVIOUS
  <2>1. CASE GateTick
    BY <2>1, TickKeeps
  <2>2. ASSUME NEW k \in LimiterKeys, FinishCallback(k) \/ \E uri \in Redirects : LoginInit(k, uri)
        PROVE  GateInv'
    BY <2>2, CheckKeeps DEF FinishCallback, LoginInit
  <2>3. CASE UNCHANGED gateVars
    BY <2>3 DEF gateVars, GateInv, BucketCounts, Counted, StillCounted
  <2> QED BY <2>1, <2>2, <2>3, KeysTyped DEF GateNext
<1>3. GateInv /\ GateTypeOK => BurstBounded
  <2> SUFFICES ASSUME GateInv, GateTypeOK, NEW k \in LimiterKeys
               PROVE  Cardinality(accepted[k]) < 2 * MaxAttempts
    BY DEF BurstBounded
  <2>1. accepted[k] \subseteq Requests /\ bucket[k].left \in 0 .. Window
        /\ \A a \in accepted[k] : a.age \in 0 .. Window - 1
    BY LimiterFields
  <2>2. accepted[k] = Counted(k) \cup StillCounted(k) /\ Counted(k) \cap StillCounted(k) = {}
    BY <2>1, GateBounds DEF Counted, StillCounted
  <2>3. Counted(k) \subseteq Requests /\ StillCounted(k) \subseteq Requests
    BY <2>1 DEF Counted, StillCounted
  <2>4. /\ PlacedOnce(Counted(k)) /\ PlacedOnce(StillCounted(k))
        /\ \A a \in StillCounted(k) : a.nth # 1
    BY DEF GateInv, BucketCounts
  <2>5. /\ IsFiniteSet(Counted(k)) /\ Cardinality(Counted(k)) <= MaxAttempts
        /\ IsFiniteSet(StillCounted(k)) /\ Cardinality(StillCounted(k)) < MaxAttempts
    BY <2>3, <2>4, PlacesBound
  <2>7. Cardinality(Counted(k)) \in Nat /\ Cardinality(StillCounted(k)) \in Nat
    BY <2>5, FS_CardinalityType
  <2>6. Cardinality(accepted[k]) = Cardinality(Counted(k)) + Cardinality(StillCounted(k))
    <3>1. Cardinality(Counted(k) \cap StillCounted(k)) = 0
      BY <2>2, FS_EmptySet
    <3>2. Cardinality(accepted[k]) = Cardinality(Counted(k)) + Cardinality(StillCounted(k))
                                     - Cardinality(Counted(k) \cap StillCounted(k))
      BY <2>2, <2>5, FS_Union
    <3> QED BY <2>7, <3>1, <3>2
  <2> QED BY <2>5, <2>6, <2>7, GateBounds
<1> QED BY <1>1, <1>2, <1>3, GateTyped, PTL DEF GateSpec
=============================================================================
