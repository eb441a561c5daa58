-------------------------- MODULE WindowsAgentProofs --------------------------
(* Theorems about the agent on Windows: the service's controller, for any    *)
(* desktops; the agent's sessions, for any requests; its sound, for any      *)
(* formats and sizes of packets; and its encoder, for any transforms and     *)
(* rates. All for any bounds on what changes, exits and fails.               *)
EXTENDS WindowsService, AudioPipeline, VideoEncoder, AgentSession, FoldLemmas,
        FiniteSetTheorems, SequenceTheorems, TLAPS

-----------------------------------------------------------------------------
(* WindowsService                                                             *)

(* The failures of failed that may each have left a process of a desktop      *)
(* behind, and what is left behind: no more of any desktop than those.        *)
Cost(failed) == Cardinality(failed \cap LeavingCalls)
Accounted(left, failed) ==
    /\ left \in [Desktops -> Nat] /\ failed \subseteq Failures
    /\ \A d \in Desktops : left[d] <= Cost(failed)

(* What is left behind is accounted for, and outside its loop the controller  *)
(* has no agents.                                                             *)
Answering ==
    /\ Accounted(orphans, svcFailed)
    /\ svcAt # "loop" => agentOf = NoAgents

AgentTables == [Desktops -> {"none", "running", "exited"}]

-----------------------------------------------------------------------------
ServiceBudgets == [changes : 0 .. MaxChanges, exits : 0 .. MaxChildExits, starts : 0 .. MaxStarts]

(* What changes, exits and starts is counted within its bound.                *)
LEMMA BudgetFacts ==
    ASSUME ServiceTypeOK
    PROVE  /\ svcBudget.changes < MaxChanges => [svcBudget EXCEPT !.changes = @ + 1] \in ServiceBudgets
           /\ svcBudget.exits < MaxChildExits => [svcBudget EXCEPT !.exits = @ + 1] \in ServiceBudgets
           /\ svcBudget.starts < MaxStarts => [svcBudget EXCEPT !.starts = @ + 1] \in ServiceBudgets
<1>1. MaxChanges \in Nat /\ MaxChildExits \in Nat /\ MaxStarts \in Nat
  BY ServiceAssumption
<1>2. svcBudget \in ServiceBudgets
  BY DEF ServiceTypeOK, ServiceBudgets
<1>3. ASSUME svcBudget.changes < MaxChanges PROVE [svcBudget EXCEPT !.changes = @ + 1] \in ServiceBudgets
  BY <1>1, <1>2, <1>3 DEF ServiceBudgets
<1>4. ASSUME svcBudget.exits < MaxChildExits PROVE [svcBudget EXCEPT !.exits = @ + 1] \in ServiceBudgets
  BY <1>1, <1>2, <1>4 DEF ServiceBudgets
<1>5. ASSUME svcBudget.starts < MaxStarts PROVE [svcBudget EXCEPT !.starts = @ + 1] \in ServiceBudgets
  BY <1>1, <1>2, <1>5 DEF ServiceBudgets
<1> QED BY <1>3, <1>4, <1>5

(* A failure of another kind costs one more at most, and one more if it may   *)
(* leave a process behind.                                                    *)
LEMMA CostGrows ==
    ASSUME NEW failed \in SUBSET Failures, NEW call \in Failures
    PROVE  /\ Cost(failed) \in Nat /\ Cost(failed) <= Cost(failed \cup {call})
           /\ call \in LeavingCalls \ failed => Cost(failed \cup {call}) = Cost(failed) + 1
<1> DEFINE before == failed \cap LeavingCalls
           after == (failed \cup {call}) \cap LeavingCalls
<1>1. IsFiniteSet(LeavingCalls)
  <2>1. IsFiniteSet({"enumerate"})
    BY FS_Singleton
  <2>2. IsFiniteSet({"enumerate"} \cup {"terminate"})
    BY <2>1, FS_AddElement
  <2>3. IsFiniteSet({"enumerate"} \cup {"terminate"} \cup {"query"})
    BY <2>2, FS_AddElement
  <2>4. LeavingCalls = {"enumerate"} \cup {"terminate"} \cup {"query"}
    BY DEF LeavingCalls
  <2> QED BY <2>3, <2>4
<1>2. IsFiniteSet(before)
  BY <1>1, FS_Subset
<1>3. Cardinality(before) \in Nat
  BY <1>2, FS_CardinalityType
<1>4. CASE call \in LeavingCalls \ failed
  <2>1. after = before \cup {call} /\ call \notin before
    BY <1>4
  <2>2. Cardinality(before \cup {call}) = Cardinality(before) + 1
    <3> HIDE DEF before, after
    <3> QED BY <1>2, <2>1, FS_AddElement
  <2> HIDE DEF before, after
  <2>3. Cardinality(after) = Cardinality(before) + 1
    BY <2>1, <2>2
  <2>4. Cost(failed) = Cardinality(before) /\ Cost(failed \cup {call}) = Cardinality(after)
    BY DEF Cost, before, after
  <2> QED BY <1>3, <1>4, <2>3, <2>4
<1>5. CASE call \notin LeavingCalls \ failed
  <2>1. after = before
    BY <1>5
  <2>2. Cost(failed \cup {call}) = Cost(failed)
    BY <2>1 DEF Cost
  <2>3. Cost(failed) \in Nat
    BY <1>3 DEF Cost
  <2> QED BY <1>5, <2>2, <2>3
<1> QED BY <1>4, <1>5

(* One process more of a desktop is paid for by the failure that left it.     *)
LEMMA LeftFacts ==
    ASSUME NEW left, NEW failed, Accounted(left, failed),
           NEW call \in LeavingCalls \ failed, NEW more, more \in [Desktops -> Nat],
           \A d \in Desktops : more[d] <= left[d] + 1
    PROVE  Accounted(more, failed \cup {call})
<1>1. call \in Failures /\ failed \in SUBSET Failures
  BY DEF LeavingCalls, Failures, Accounted
<1>2. Cost(failed) \in Nat /\ Cost(failed \cup {call}) = Cost(failed) + 1
  BY <1>1, CostGrows
<1>3. ASSUME NEW d \in Desktops PROVE more[d] <= Cost(failed \cup {call})
  <2>1. more[d] \in Nat /\ left[d] \in Nat /\ left[d] <= Cost(failed) /\ more[d] <= left[d] + 1
    BY DEF Accounted
  <2> QED BY <1>2, <2>1
<1> QED BY <1>1, <1>3 DEF Accounted

(* A failure that leaves nothing behind does not take the account away.       *)
LEMMA FailureFacts ==
    ASSUME NEW left, NEW failed, Accounted(left, failed), NEW call \in Failures
    PROVE  Accounted(left, failed \cup {call})
<1>1. failed \in SUBSET Failures
  BY DEF Accounted
<1>2. /\ Cost(failed) \in Nat /\ Cost(failed \cup {call}) \in Nat
      /\ Cost(failed) <= Cost(failed \cup {call})
  BY <1>1, CostGrows
<1>3. ASSUME NEW d \in Desktops PROVE left[d] <= Cost(failed \cup {call})
  <2>1. left[d] \in Nat /\ left[d] <= Cost(failed)
    BY DEF Accounted
  <2> QED BY <1>2, <2>1
<1> QED BY <1>1, <1>3 DEF Accounted

(* Left is one process more.                                                  *)
LEMMA LeftOne ==
    ASSUME NEW left \in [Desktops -> Nat], NEW d \in Desktops
    PROVE  /\ Left(left, d) \in [Desktops -> Nat]
           /\ \A e \in Desktops : Left(left, d)[e] <= left[e] + 1
<1>1. left[d] + 1 \in Nat /\ \A e \in Desktops : left[e] \in Nat
  OBVIOUS
<1>2. Left(left, d) = [e \in Desktops |-> IF e = d THEN left[d] + 1 ELSE left[e]]
  BY DEF Left
<1> QED BY <1>1, <1>2

(* What StopSessions, EndController and Reconcile do to the table of agents   *)
(* and to what is left behind, stated once for the actions that use them.     *)

(* stop_session and stop_all: a process is only left behind by a refusal to   *)
(* terminate it or to say whether it runs.                                    *)
LEMMA StopFacts ==
    ASSUME NEW table \in AgentTables, NEW ds \in SUBSET Desktops, NEW left, NEW failed,
           Accounted(left, failed), StopSessions(table, ds, left, failed)
    PROVE  /\ agentOf' \in AgentTables
           /\ Accounted(orphans', svcFailed')
           /\ ds = Desktops => agentOf' = NoAgents
<1>1. agentOf' = [d \in Desktops |-> IF d \in ds THEN "none" ELSE table[d]]
  BY DEF StopSessions
<1>2. agentOf' \in AgentTables /\ (ds = Desktops => agentOf' = NoAgents)
  BY <1>1 DEF NoAgents, AgentTables
<1>3. ASSUME NEW call \in {"terminate", "query"}, NEW d \in ds,
             Fails(call, failed), orphans' = Left(left, d)
      PROVE  Accounted(orphans', svcFailed')
  <2>1. call \in LeavingCalls \ failed /\ svcFailed' = failed \cup {call}
    BY <1>3 DEF Fails, MayFail, LeavingCalls
  <2>2. left \in [Desktops -> Nat] /\ d \in Desktops
    BY DEF Accounted
  <2>3. orphans' \in [Desktops -> Nat] /\ \A e \in Desktops : orphans'[e] <= left[e] + 1
    BY <1>3, <2>2, LeftOne
  <2> QED BY <2>1, <2>3, LeftFacts
<1> QED BY <1>2, <1>3 DEF StopSessions

(* run_controller returns with an error: what it still had stays behind, and  *)
(* it had something only in its loop.                                         *)
LEMMA EndFacts ==
    ASSUME NEW table \in AgentTables, NEW left, NEW failed, Accounted(left, failed),
           NEW call \in Failures, Fails(call, failed), EndController(table, left),
           call \in LeavingCalls \/ table = NoAgents
    PROVE  /\ svcAt' = "ended"
           /\ agentOf' = NoAgents /\ agentOf' \in AgentTables
           /\ Accounted(orphans', svcFailed')
<1>1. /\ left \in [Desktops -> Nat]
      /\ orphans' = [d \in Desktops |-> left[d] + IF table[d] = "running" THEN 1 ELSE 0]
      /\ call \notin failed /\ svcFailed' = failed \cup {call}
  BY DEF Accounted, EndController, Fails, MayFail
<1>2. ASSUME NEW d \in Desktops
      PROVE  /\ orphans'[d] \in Nat /\ orphans'[d] <= left[d] + 1
             /\ table = NoAgents => orphans'[d] = left[d]
  <2>1. left[d] \in Nat /\ orphans'[d] = left[d] + IF table[d] = "running" THEN 1 ELSE 0
    BY <1>1
  <2>2. table = NoAgents => table[d] # "running"
    BY DEF NoAgents
  <2> QED BY <2>1, <2>2
<1>3. orphans' \in [Desktops -> Nat]
  BY <1>1, <1>2
<1>4. CASE call \in LeavingCalls
  <2>1. Accounted(orphans', svcFailed')
    BY <1>1, <1>2, <1>3, <1>4, LeftFacts
  <2> QED BY <2>1 DEF EndController, NoAgents, AgentTables
<1>5. CASE table = NoAgents
  <2>1. orphans' = left
    BY <1>1, <1>2, <1>3, <1>5
  <2>2. Accounted(orphans', svcFailed')
    BY <1>1, <2>1, FailureFacts
  <2> QED BY <2>2 DEF EndController, NoAgents, AgentTables
<1> QED BY <1>4, <1>5

(* reconcile_active_sessions leaves no process behind but one for each call   *)
(* that fails, and ends the controller only when the sessions cannot be       *)
(* enumerated.                                                                *)
LEMMA ReconcileFacts ==
    ASSUME NEW table \in AgentTables, NEW left, NEW failed, Accounted(left, failed),
           Reconcile(table, left, failed)
    PROVE  /\ svcAt' \in {"loop", "ended"}
           /\ agentOf' \in AgentTables
           /\ Accounted(orphans', svcFailed')
           /\ svcAt' # "loop" => agentOf' = NoAgents
<1> DEFINE present == [d \in Desktops |-> IF d \in active /\ table[d] = "none" THEN "running" ELSE table[d]]
<1>1. present \in AgentTables
  BY DEF AgentTables
<1>2. CASE StopSessions(present, Desktops \ active, left, failed) /\ svcAt' = "loop"
  BY <1>1, <1>2, StopFacts
<1>3. ASSUME Fails("spawn", failed), svcAt' = "loop", NEW d \in active, orphans' = left,
             agentOf' = [e \in Desktops |-> IF e = d \/ e \notin active THEN "none" ELSE present[e]]
      PROVE  /\ agentOf' \in AgentTables /\ Accounted(orphans', svcFailed')
  <2>1. agentOf' \in AgentTables
    BY <1>1, <1>3 DEF AgentTables
  <2>2. svcFailed' = failed \cup {"spawn"} /\ "spawn" \in Failures
    BY <1>3 DEF Fails, Failures
  <2> QED BY <1>3, <2>1, <2>2, FailureFacts
<1>4. CASE Fails("enumerate", failed) /\ EndController(table, left)
  <2>1. "enumerate" \in Failures /\ "enumerate" \in LeavingCalls
    BY DEF Failures, LeavingCalls
  <2> QED BY <1>4, <2>1, EndFacts
<1> QED BY <1>2, <1>3, <1>4 DEF Reconcile

-----------------------------------------------------------------------------
(* reap_exited keeps the table of agents one.                                 *)
LEMMA ReapedTable ==
    ASSUME ServiceTypeOK PROVE agentOf \in AgentTables /\ \A ds : Reaped(ds) \in AgentTables
BY DEF ServiceTypeOK, AgentTables, Reaped

(* A tick of the scan: what it does to agents and processes, whether or not   *)
(* reap_exited misjudges an agent.                                            *)
LEMMA ScanFacts ==
    ASSUME ServiceTypeOK, Answering, ScanTick
    PROVE  /\ svcAt' \in {"loop", "ended"}
           /\ agentOf' \in AgentTables
           /\ Accounted(orphans', svcFailed')
           /\ svcAt' # "loop" => agentOf' = NoAgents
<1>1. Accounted(orphans, svcFailed)
  BY DEF Answering
<1>2. CASE Reconcile(Reaped({}), orphans, svcFailed)
  BY <1>1, <1>2, ReapedTable, ReconcileFacts
<1>3. ASSUME NEW d \in Desktops, MayFail("query", svcFailed),
             Reconcile(Reaped({d}), Left(orphans, d), svcFailed \cup {"query"})
      PROVE  Accounted(Left(orphans, d), svcFailed \cup {"query"})
  <2>1. "query" \in LeavingCalls \ svcFailed
    BY <1>3 DEF MayFail, LeavingCalls
  <2>2. /\ Left(orphans, d) \in [Desktops -> Nat]
        /\ \A e \in Desktops : Left(orphans, d)[e] <= orphans[e] + 1
    BY <1>1, LeftOne DEF Accounted
  <2> QED BY <1>1, <2>1, <2>2, LeftFacts
<1>4. ASSUME NEW d \in Desktops, MayFail("query", svcFailed),
             Reconcile(Reaped({d}), Left(orphans, d), svcFailed \cup {"query"})
      PROVE  /\ svcAt' \in {"loop", "ended"}
             /\ agentOf' \in AgentTables
             /\ Accounted(orphans', svcFailed')
             /\ svcAt' # "loop" => agentOf' = NoAgents
  BY <1>3, <1>4, ReapedTable, ReconcileFacts
<1> QED BY <1>2, <1>4 DEF ScanTick

(* So does ensure_agent, whichever agents fail to start.                    *)
LEMMA EnsuredTable ==
    ASSUME ServiceTypeOK, NEW ds, NEW failing PROVE Ensured(ds, failing) \in AgentTables
BY DEF ServiceTypeOK, AgentTables, Ensured

(* The event that run_controller takes, and those it leaves, are events.      *)
LEMMA HeadTail ==
    ASSUME ServiceTypeOK, svcEvents # <<>>
    PROVE  Head(svcEvents) \in ServiceEvents /\ Tail(svcEvents) \in Seq(ServiceEvents)
<1>1. svcEvents \in Seq(ServiceEvents)
  BY DEF ServiceTypeOK
<1> QED BY <1>1, HeadTailProperties

(* Every event but the one to stop names a desktop.                           *)
LEMMA HeadDesktop ==
    ASSUME ServiceTypeOK, svcEvents # <<>>, Head(svcEvents) # StopEvent
    PROVE  Head(svcEvents).desktop \in Desktops
BY HeadTail DEF ServiceEvents

(* The service handler appends to the queue of events.                        *)
LEMMA NotifyFacts ==
    ASSUME ServiceTypeOK, NEW event \in ServiceEvents, Notify(event)
    PROVE  svcEvents' \in Seq(ServiceEvents)
<1>1. svcEvents \in Seq(ServiceEvents)
  BY DEF ServiceTypeOK
<1>2. Append(svcEvents, event) \in Seq(ServiceEvents)
  BY <1>1, AppendProperties
<1> QED BY <1>1, <1>2 DEF Notify

(* A change of session: what it does to agents and processes.                *)
LEMMA ChangeFacts ==
    ASSUME ServiceTypeOK, Answering, HandleSessionChange
    PROVE  /\ agentOf' \in AgentTables
           /\ svcEvents' \in Seq(ServiceEvents)
           /\ svcAt' \in {"loop", "ended"}
           /\ Accounted(orphans', svcFailed')
           /\ svcAt' # "loop" => agentOf' = NoAgents
<1> DEFINE d == Head(svcEvents).desktop
<1>1. /\ d \in Desktops /\ svcEvents' \in Seq(ServiceEvents) /\ svcAt = "loop"
      /\ agentOf \in AgentTables /\ Accounted(orphans, svcFailed)
  BY HeadTail, HeadDesktop, ReapedTable DEF HandleSessionChange, Answering
<1>2. CASE StopSessions(agentOf, {d}, orphans, svcFailed) /\ UNCHANGED svcAt
  BY <1>1, <1>2, StopFacts
<1>3. CASE UNCHANGED <<agentOf, orphans, svcFailed, svcAt>>
  BY <1>1, <1>3
<1>4. CASE /\ \/ agentOf' = Ensured({d}, {}) /\ UNCHANGED svcFailed
              \/ agentOf' = Ensured({d}, {d}) /\ Fails("spawn", svcFailed)
           /\ UNCHANGED <<orphans, svcAt>>
  <2>1. agentOf' \in AgentTables
    BY <1>4, EnsuredTable
  <2>2. svcFailed' = svcFailed \/ svcFailed' = svcFailed \cup {"spawn"}
    BY <1>4 DEF Fails
  <2>3. Accounted(orphans', svcFailed')
    BY <1>1, <1>4, <2>2, FailureFacts DEF Failures
  <2> QED BY <1>1, <1>4, <2>1, <2>3
<1>5. CASE Fails("enumerate", svcFailed) /\ EndController(agentOf, orphans)
  <2>1. "enumerate" \in Failures /\ "enumerate" \in LeavingCalls
    BY DEF Failures, LeavingCalls
  <2> QED BY <1>1, <1>5, <2>1, EndFacts
<1> QED BY <1>1, <1>2, <1>3, <1>4, <1>5 DEF HandleSessionChange

-----------------------------------------------------------------------------
(* No step takes ServiceTypeOK or Answering away: agents are only made and    *)
(* dropped in the loop, and a process that is left by it, or by whoever       *)
(* leaves it, is one of a call that failed.                                   *)
LEMMA ServiceKept ==
    ASSUME ServiceTypeOK, Answering, [ServiceNext]_serviceVars PROVE ServiceTypeOK' /\ Answering'
<1>0. agentOf \in AgentTables /\ Accounted(orphans, svcFailed)
  BY ReapedTable DEF Answering
<1>1. CASE StartService
  <2>1. ServiceTypeOK'
    BY <1>1, BudgetFacts, EmptySeq DEF ServiceBudgets, StartService, ServiceTypeOK
  <2> QED BY <1>1, <2>1 DEF StartService, Answering
<1>2. CASE ConnectController
  <2>1. CASE svcAt' = "first scan" /\ UNCHANGED <<agentOf, orphans, svcFailed>>
    BY <1>2, <2>1 DEF ConnectController, ServiceTypeOK, Answering
  <2>2. CASE Fails("connect", svcFailed) /\ EndController(agentOf, orphans)
    <3>1. agentOf = NoAgents /\ "connect" \in Failures
      BY <1>2 DEF ConnectController, Answering, Failures
    <3>2. /\ svcAt' = "ended" /\ agentOf' = NoAgents /\ agentOf' \in AgentTables
          /\ Accounted(orphans', svcFailed')
      BY <1>0, <2>2, <3>1, EndFacts
    <3> QED BY <1>2, <3>2 DEF ConnectController, ServiceTypeOK, AgentTables, Accounted, Answering
  <2> QED BY <1>2, <2>1, <2>2 DEF ConnectController
<1>3. CASE FirstScan
  <2>1. /\ svcAt' \in {"loop", "ended"} /\ agentOf' \in AgentTables
        /\ Accounted(orphans', svcFailed') /\ (svcAt' # "loop" => agentOf' = NoAgents)
    BY <1>0, <1>3, ReconcileFacts DEF FirstScan
  <2> QED BY <1>3, <2>1 DEF FirstScan, ServiceTypeOK, AgentTables, Accounted, Answering
<1>4. CASE ScanTick
  <2>1. /\ svcAt' \in {"loop", "ended"} /\ agentOf' \in AgentTables
        /\ Accounted(orphans', svcFailed') /\ (svcAt' # "loop" => agentOf' = NoAgents)
    BY <1>4, ScanFacts
  <2> QED BY <1>4, <2>1 DEF ScanTick, ServiceTypeOK, AgentTables, Accounted, Answering
<1>5. CASE HandleSessionChange
  <2>1. /\ svcAt' \in {"loop", "ended"} /\ agentOf' \in AgentTables /\ svcEvents' \in Seq(ServiceEvents)
        /\ Accounted(orphans', svcFailed') /\ (svcAt' # "loop" => agentOf' = NoAgents)
    BY <1>5, ChangeFacts
  <2> QED BY <1>5, <2>1 DEF HandleSessionChange, ServiceTypeOK, AgentTables, Accounted, Answering
<1>6. CASE StopController
  <2>1. agentOf' \in AgentTables /\ agentOf' = NoAgents /\ Accounted(orphans', svcFailed')
    BY <1>0, <1>6, StopFacts DEF StopController
  <2> QED BY <1>6, <2>1 DEF StopController, ServiceTypeOK, AgentTables, Accounted, Answering
<1>7. CASE ReportStopped
  BY <1>7 DEF ReportStopped, ServiceTypeOK, Answering
<1>8. CASE AskToStop
  <2>1. ServiceTypeOK'
    BY <1>8, NotifyFacts DEF AskToStop, ServiceTypeOK, ServiceEvents
  <2> QED BY <1>8, <2>1 DEF AskToStop, Answering
<1>9. ASSUME NEW d \in Desktops, DesktopActive(d) PROVE ServiceTypeOK' /\ Answering'
  <2>1. [up |-> TRUE, desktop |-> d] \in ServiceEvents
    BY DEF ServiceEvents
  <2>2. ServiceTypeOK'
    BY <1>9, <2>1, NotifyFacts, BudgetFacts DEF ServiceBudgets, DesktopActive, ChangeBudget, ServiceTypeOK
  <2> QED BY <1>9, <2>2 DEF DesktopActive, Answering
<1>10. ASSUME NEW d \in Desktops, NEW logoff \in BOOLEAN, DesktopInactive(d, logoff)
       PROVE  ServiceTypeOK' /\ Answering'
  <2>1. [up |-> FALSE, desktop |-> d] \in ServiceEvents
    BY DEF ServiceEvents
  <2>2. ServiceTypeOK'
    BY <1>10, <2>1, NotifyFacts, BudgetFacts DEF ServiceBudgets, DesktopInactive, ChangeBudget, ServiceTypeOK
  <2>3. svcAt' = svcAt /\ (agentOf = NoAgents => agentOf' = NoAgents)
    BY <1>10 DEF DesktopInactive, NoAgents
  <2>4. Cost(svcFailed) \in Nat
    BY <1>0, CostGrows DEF Accounted, Failures
  <2>5. Accounted(orphans', svcFailed')
    BY <1>0, <1>10, <2>4 DEF DesktopInactive, Accounted
  <2> QED BY <2>2, <2>3, <2>5 DEF Answering
<1>11. ASSUME NEW d \in Desktops, AgentExits(d) PROVE ServiceTypeOK' /\ Answering'
  <2>1. ServiceTypeOK'
    BY <1>11, BudgetFacts DEF ServiceBudgets, AgentExits, ServiceTypeOK
  <2>2. agentOf # NoAgents
    BY <1>11 DEF AgentExits, NoAgents
  <2> QED BY <1>11, <2>1, <2>2 DEF AgentExits, Answering
<1>12. CASE UNCHANGED serviceVars
  BY <1>12 DEF serviceVars, ServiceTypeOK, Answering
<1> QED
  BY <1>1, <1>2, <1>3, <1>4, <1>5, <1>6, <1>7, <1>8, <1>9, <1>10, <1>11, <1>12 DEF ServiceNext

(* The first state has both.                                                  *)
LEMMA ServiceBegins == (\E fg \in BOOLEAN : ServiceInit(fg)) => ServiceTypeOK /\ Answering
<1>1. ASSUME NEW fg \in BOOLEAN, ServiceInit(fg) PROVE ServiceTypeOK /\ Answering
  <2>1. 0 \in 0 .. MaxChanges /\ 0 \in 0 .. MaxChildExits /\ 0 \in 0 .. MaxStarts
    BY ServiceAssumption
  <2>2. svcEvents \in Seq(ServiceEvents)
    BY <1>1, EmptySeq DEF ServiceInit
  <2>3. Cost(svcFailed) \in Nat /\ \A d \in Desktops : orphans[d] = 0
    BY <1>1, CostGrows DEF ServiceInit, Failures
  <2>4. Accounted(orphans, svcFailed)
    BY <1>1, <2>3 DEF ServiceInit, Accounted
  <2> QED BY <1>1, <2>1, <2>2, <2>4 DEF ServiceInit, ServiceTypeOK, NoAgents, Answering
<1> QED BY <1>1

(* ServiceTypeOK holds of every state of the module.                          *)
THEOREM ServiceTyped == ServiceSpec => []ServiceTypeOK
BY ServiceBegins, ServiceKept, PTL DEF ServiceSpec

(* AgentsAnswerToController: whatever is stopped, logs off, exits, fails to    *)
(* start or comes late, run_controller leaves no more agents of a desktop      *)
(* behind than calls failed that can leave one.                                *)
THEOREM NoAgentLeftBehind == ServiceSpec => []AgentsAnswerToController
<1>1. ServiceTypeOK /\ Answering => AgentsAnswerToController
  BY DEF Answering, Accounted, Cost, AgentsAnswerToController
<1> QED BY <1>1, ServiceBegins, ServiceKept, PTL DEF ServiceSpec

-----------------------------------------------------------------------------
(* The command line                                                          *)

QuoteStates == [out : Seq(Chars), slashes : Nat]
NothingQuoted == [out |-> <<Quote>>, slashes |-> 0]
QuoteSteps(arg) == [i \in 1 .. Len(arg) |-> [acc \in QuoteStates |-> QuoteChar(acc, arg[i])]]

Places == {"gap", "word", "quoted"}
ParseStates ==
    [args : Seq(Seq(Chars)), cur : Seq(Chars), slashes : Nat, at : Places]
ParseSteps(line) == [i \in 1 .. Len(line) |-> [p \in ParseStates |-> ParseChar(p, line[i])]]

(* The three characters with a meaning of their own are three.              *)
LEMMA CharsDiffer ==
    /\ Space \in Chars /\ Quote \in Chars /\ Slash \in Chars
    /\ Space # Quote /\ Space # Slash /\ Quote # Slash
BY DEF Chars, Space, Quote, Slash

(* Slashes(n) is n backslashes.                                             *)
LEMMA SlashesTyped ==
    \A n \in Nat : /\ Slashes(n) \in Seq(Chars) /\ Len(Slashes(n)) = n
                   /\ \A i \in 1 .. n : Slashes(n)[i] = Slash
<1> SUFFICES ASSUME NEW n \in Nat
             PROVE  /\ Slashes(n) \in Seq(Chars) /\ Len(Slashes(n)) = n
                    /\ \A i \in 1 .. n : Slashes(n)[i] = Slash
  OBVIOUS
<1>1. Slashes(n) \in [1 .. n -> Chars]
  BY CharsDiffer DEF Slashes
<1>2. Slashes(n) \in Seq(Chars)
  BY <1>1, SeqDef
<1> QED BY <1>1, <1>2, LenProperties DEF Slashes

(* Backslashes one by one.                                                   *)
LEMMA SlashesMore ==
    /\ Slashes(0) = <<>>
    /\ \A n \in Nat : Slashes(n + 1) = Append(Slashes(n), Slash)
    /\ \A m, n \in Nat : Slashes(m) \o Slashes(n) = Slashes(m + n)
<1>1. Slashes(0) = <<>>
  BY SlashesTyped, EmptySeq
<1>2. ASSUME NEW n \in Nat PROVE Slashes(n + 1) = Append(Slashes(n), Slash)
  <2>1. /\ Slashes(n + 1) \in Seq(Chars) /\ Len(Slashes(n + 1)) = n + 1
        /\ \A i \in 1 .. n + 1 : Slashes(n + 1)[i] = Slash
        /\ Slashes(n) \in Seq(Chars) /\ Len(Slashes(n)) = n
        /\ \A i \in 1 .. n : Slashes(n)[i] = Slash
    BY SlashesTyped
  <2>2. /\ Append(Slashes(n), Slash) \in Seq(Chars) /\ Len(Append(Slashes(n), Slash)) = n + 1
        /\ \A i \in 1 .. n : Append(Slashes(n), Slash)[i] = Slash
        /\ Append(Slashes(n), Slash)[n + 1] = Slash
    BY <2>1, AppendProperties, CharsDiffer
  <2>3. \A i \in 1 .. n + 1 : Append(Slashes(n), Slash)[i] = Slashes(n + 1)[i]
    BY <2>1, <2>2
  <2> QED BY <2>1, <2>2, <2>3, SeqEqual
<1>3. ASSUME NEW m \in Nat, NEW n \in Nat PROVE Slashes(m) \o Slashes(n) = Slashes(m + n)
  <2>1. /\ Slashes(m + n) \in Seq(Chars) /\ Len(Slashes(m + n)) = m + n
        /\ \A i \in 1 .. m + n : Slashes(m + n)[i] = Slash
        /\ Slashes(n) \in Seq(Chars) /\ Len(Slashes(n)) = n
        /\ \A i \in 1 .. n : Slashes(n)[i] = Slash
        /\ Slashes(m) \in Seq(Chars) /\ Len(Slashes(m)) = m
        /\ \A i \in 1 .. m : Slashes(m)[i] = Slash
    BY SlashesTyped
  <2>2. /\ Slashes(m) \o Slashes(n) \in Seq(Chars) /\ Len(Slashes(m) \o Slashes(n)) = m + n
        /\ \A i \in 1 .. m + n : (Slashes(m) \o Slashes(n))[i] =
                                    IF i <= m THEN Slashes(m)[i] ELSE Slashes(n)[i - m]
    <3> DEFINE s == Slashes(m)
               t == Slashes(n)
    <3>1. s \in Seq(Chars) /\ t \in Seq(Chars) /\ Len(s) = m /\ Len(t) = n
      BY <2>1
    <3> HIDE DEF s, t
    <3>2. /\ s \o t \in Seq(Chars) /\ Len(s \o t) = m + n
          /\ \A i \in 1 .. m + n : (s \o t)[i] = IF i <= m THEN s[i] ELSE t[i - m]
      BY <3>1, ConcatProperties
    <3> QED BY <3>2 DEF s, t
  <2>3. \A i \in 1 .. m + n : (Slashes(m) \o Slashes(n))[i] = Slashes(m + n)[i]
    BY <2>1, <2>2
  <2> QED BY <2>1, <2>2, <2>3, SeqEqual
<1> QED BY <1>1, <1>2, <1>3

(* A character quoted leaves a state of the quotation.                      *)
LEMMA QuoteCharTyped ==
    ASSUME NEW acc \in QuoteStates, NEW ch \in Chars PROVE QuoteChar(acc, ch) \in QuoteStates
<1>1. /\ acc.out \in Seq(Chars) /\ acc.slashes \in Nat
      /\ Slashes(acc.slashes) \in Seq(Chars) /\ Slashes(2 * acc.slashes + 1) \in Seq(Chars)
      /\ <<ch>> \in Seq(Chars) /\ <<Quote>> \in Seq(Chars)
  BY SlashesTyped, CharsDiffer DEF QuoteStates
<1>2. /\ acc.out \o Slashes(acc.slashes) \o <<ch>> \in Seq(Chars)
      /\ acc.out \o Slashes(2 * acc.slashes + 1) \o <<Quote>> \in Seq(Chars)
  BY <1>1, ConcatProperties
<1> QED BY <1>1, <1>2 DEF QuoteChar, QuoteStates

(* A state of the parser, and what each character makes of it.               *)
State(args, cur, slashes, at) == [args |-> args, cur |-> cur, slashes |-> slashes, at |-> at]

(* A backslash is counted.                                                  *)
LEMMA ParseSlash ==
    ASSUME NEW a, NEW c, NEW n, NEW at
    PROVE  ParseChar(State(a, c, n, at), Slash) = State(a, c, n + 1, Within(at))
BY CharsDiffer DEF ParseChar, State

(* After an odd number of backslashes a quote is a character.               *)
LEMMA ParseEscaped ==
    ASSUME NEW a, NEW c, NEW n, NEW at, n % 2 = 1
    PROVE  ParseChar(State(a, c, n, at), Quote) = State(a, c \o Slashes(n \div 2) \o <<Quote>>, 0, at)
BY CharsDiffer DEF ParseChar, State

(* After an even number it opens or closes a quoted part.                   *)
LEMMA ParseQuote ==
    ASSUME NEW a, NEW c, NEW n, NEW at, ~(n % 2 = 1)
    PROVE  ParseChar(State(a, c, n, at), Quote) =
              State(a, c \o Slashes(n \div 2), 0, IF at = "quoted" THEN "word" ELSE "quoted")
BY CharsDiffer DEF ParseChar, State

(* Outside a quoted part a space ends an argument.                          *)
LEMMA ParseSpace ==
    ASSUME NEW a, NEW c, NEW n, NEW at, at # "quoted"
    PROVE  ParseChar(State(a, c, n, at), Space)
             = State(IF at = "word" THEN Append(a, c \o Slashes(n)) ELSE a, <<>>, 0, "gap")
BY CharsDiffer DEF ParseChar, State

(* Any other character goes after the backslashes before it.                *)
LEMMA ParseOther ==
    ASSUME NEW a, NEW c, NEW n, NEW at, NEW ch, ch # Slash, ch # Quote, ch = Space => at = "quoted"
    PROVE  ParseChar(State(a, c, n, at), ch) = State(a, Append(c \o Slashes(n), ch), 0, Within(at))
BY CharsDiffer DEF ParseChar, State

(* Such a record is a state of the parser.                                  *)
LEMMA StateTyped ==
    ASSUME NEW a \in Seq(Seq(Chars)), NEW c \in Seq(Chars), NEW n \in Nat, NEW at \in Places
    PROVE  State(a, c, n, at) \in ParseStates
BY DEF State, ParseStates

(* The parser between two arguments.                                         *)
Fresh(args) == State(args, <<>>, 0, "gap")

(* It is one, whatever was parsed.                                          *)
LEMMA FreshTyped == ASSUME NEW args \in Seq(Seq(Chars)) PROVE Fresh(args) \in ParseStates
<1>1. <<>> \in Seq(Chars) /\ "gap" \in Places
  BY DEF Places
<1> QED BY <1>1, Zenon DEF Fresh, State, ParseStates

(* A character read leaves a state of the parser.                           *)
LEMMA ParseStateTyped ==
    ASSUME NEW a \in Seq(Seq(Chars)), NEW c \in Seq(Chars), NEW n \in Nat, NEW at \in Places,
           NEW ch \in Chars
    PROVE  ParseChar(State(a, c, n, at), ch) \in ParseStates
<1> DEFINE half == n \div 2
           s == Slashes(n)
           h == Slashes(half)
           turned == IF at = "quoted" THEN "word" ELSE "quoted"
           within == Within(at)
<1>1. half \in Nat /\ n + 1 \in Nat /\ turned \in Places /\ within \in Places
  BY DEF Places, Within
<1>3. s \in Seq(Chars) /\ h \in Seq(Chars) /\ <<Quote>> \in Seq(Chars) /\ <<>> \in Seq(Chars)
  BY <1>1, SlashesTyped, CharsDiffer
<1> HIDE DEF half, s, h, turned, within
<1>4. /\ c \o s \in Seq(Chars) /\ c \o h \in Seq(Chars)
      /\ c \o h \o <<Quote>> \in Seq(Chars)
  BY <1>3, ConcatProperties
<1>5. Append(c \o s, ch) \in Seq(Chars) /\ Append(a, c \o s) \in Seq(Seq(Chars))
  BY <1>4, AppendProperties
<1>6. CASE ch = Slash
  <2>1. State(a, c, n + 1, within) \in ParseStates
    BY <1>1, StateTyped
  <2> QED BY <1>6, <2>1, ParseSlash DEF within
<1>7. CASE ch = Quote
  <2>1. CASE n % 2 = 1
    <3>1. State(a, c \o h \o <<Quote>>, 0, at) \in ParseStates
      BY <1>4, StateTyped
    <3>2. ParseChar(State(a, c, n, at), Quote) = State(a, c \o h \o <<Quote>>, 0, at)
      BY <2>1, ParseEscaped DEF h, half
    <3> QED BY <1>7, <3>1, <3>2
  <2>2. CASE ~(n % 2 = 1)
    <3>1. State(a, c \o h, 0, turned) \in ParseStates
      BY <1>1, <1>4, StateTyped
    <3>2. ParseChar(State(a, c, n, at), Quote) = State(a, c \o h, 0, turned)
      BY <2>2, ParseQuote DEF h, half, turned
    <3> QED BY <1>7, <3>1, <3>2
  <2> QED BY <2>1, <2>2
<1>8. CASE ch = Space /\ at # "quoted"
  <2> DEFINE more == IF at = "word" THEN Append(a, c \o s) ELSE a
  <2>1. more \in Seq(Seq(Chars))
    BY <1>5
  <2>2. ParseChar(State(a, c, n, at), Space) = State(more, <<>>, 0, "gap")
    BY <1>8, ParseSpace DEF s
  <2> HIDE DEF more
  <2>3. State(more, <<>>, 0, "gap") \in ParseStates
    BY <1>3, <2>1, StateTyped DEF Places
  <2> QED BY <1>8, <2>2, <2>3
<1>9. CASE ch # Slash /\ ch # Quote /\ (ch = Space => at = "quoted")
  <2>1. State(a, Append(c \o s, ch), 0, within) \in ParseStates
    BY <1>1, <1>5, StateTyped
  <2>5. ParseChar(State(a, c, n, at), ch) = State(a, Append(c \o s, ch), 0, within)
    BY <1>9, ParseOther DEF s, within
  <2> QED BY <2>1, <2>5
<1> QED BY <1>6, <1>7, <1>8, <1>9

(* So it does in any of its states.                                         *)
LEMMA ParseCharTyped ==
    ASSUME NEW p \in ParseStates, NEW ch \in Chars PROVE ParseChar(p, ch) \in ParseStates
<1>1. PICK a \in Seq(Seq(Chars)), c \in Seq(Chars), n \in Nat, at \in Places : p = State(a, c, n, at)
  BY DEF ParseStates, State
<1> QED BY <1>1, ParseStateTyped

(* A step of the quotation for each character.                               *)
LEMMA QuoteStepsTyped ==
    ASSUME NEW arg \in Seq(Chars)
    PROVE  /\ QuoteSteps(arg) \in Seq([QuoteStates -> QuoteStates]) /\ Len(QuoteSteps(arg)) = Len(arg)
           /\ NothingQuoted \in QuoteStates
<1> DEFINE step(i) == [acc \in QuoteStates |-> QuoteChar(acc, arg[i])]
<1>1. ASSUME NEW i \in 1 .. Len(arg) PROVE step(i) \in [QuoteStates -> QuoteStates]
  <2>1. arg[i] \in Chars
    OBVIOUS
  <2> QED BY <2>1, QuoteCharTyped
<1>2. QuoteSteps(arg) = [i \in 1 .. Len(arg) |-> step(i)]
  BY DEF QuoteSteps
<1> HIDE DEF step
<1>3. QuoteSteps(arg) \in [1 .. Len(arg) -> [QuoteStates -> QuoteStates]]
  BY <1>1, <1>2
<1>4. NothingQuoted \in QuoteStates
  BY CharsDiffer DEF NothingQuoted, QuoteStates
<1>5. Len(arg) \in Nat
  OBVIOUS
<1> QED BY <1>3, <1>4, <1>5, SeqDef, LenProperties

(* QuoteBody is what they make of the opening quote.                        *)
LEMMA QuoteBodyIs ==
    ASSUME NEW arg \in Seq(Chars)
    PROVE  QuoteBody(arg) = After(NothingQuoted, QuoteSteps(arg))
<1> DEFINE steps == QuoteSteps(arg)
           n == Len(arg)
           Body(f) == f = [i \in 0 .. Len(arg) |->
                             IF i = 0 THEN [out |-> <<Quote>>, slashes |-> 0]
                             ELSE QuoteChar(f[i - 1], arg[i])]
           g == CHOOSE f : Body(f)
<1>1. /\ steps \in Seq([QuoteStates -> QuoteStates]) /\ Len(steps) = n
      /\ NothingQuoted \in QuoteStates /\ n \in Nat
  BY QuoteStepsTyped
<1>2. \A i \in 1 .. n : \A acc \in QuoteStates : steps[i][acc] = QuoteChar(acc, arg[i])
  BY DEF QuoteSteps
<1> HIDE DEF steps
<1>3. PICK f \in [0 .. Len(steps) -> QuoteStates] : Passes(f, NothingQuoted, steps)
  <2>1. steps \in Seq([QuoteStates -> QuoteStates])
    BY <1>1
  <2> QED BY <1>1, <2>1, PassesExists, Zenon
<1>4. Body(f)
  <2>1. f = [i \in 0 .. n |-> IF i = 0 THEN NothingQuoted ELSE steps[i][f[i - 1]]]
    BY <1>1, <1>3 DEF Passes
  <2>2. ASSUME NEW i \in 0 .. n, i # 0 PROVE steps[i][f[i - 1]] = QuoteChar(f[i - 1], arg[i])
    <3>1. i \in 1 .. n /\ i - 1 \in 0 .. n /\ f[i - 1] \in QuoteStates
      BY <1>1, <1>3, <2>2
    <3> QED BY <1>2, <3>1
  <2> HIDE DEF n
  <2>3. f = [i \in 0 .. n |-> IF i = 0 THEN NothingQuoted ELSE QuoteChar(f[i - 1], arg[i])]
    BY <2>1, <2>2
  <2> QED BY <2>3 DEF n, NothingQuoted
<1>5. Body(g)
  BY <1>4, Zenon
<1>6. QuoteBody(arg) = g[n]
  BY Zenon DEF QuoteBody
<1>7. Yields(g, NothingQuoted, steps, QuoteStates)
  <2> HIDE DEF g, n
  <2>1. \A i \in 0 .. n : g[i] = IF i = 0 THEN NothingQuoted ELSE QuoteChar(g[i - 1], arg[i])
    <3>1. g = [i \in 0 .. n |-> IF i = 0 THEN NothingQuoted ELSE QuoteChar(g[i - 1], arg[i])]
      BY <1>5, Zenon DEF NothingQuoted, n
    <3> QED BY <3>1, Zenon
  <2>2. 0 \in 0 .. n /\ \A i \in 1 .. n : i \in 0 .. n /\ i # 0
    BY <1>1
  <2> QED BY <1>1, <1>2, <2>1, <2>2 DEF Yields
<1> HIDE DEF g
<1>8. After(NothingQuoted, steps) = g[Len(steps)]
  <2>1. steps \in Seq([QuoteStates -> QuoteStates])
    BY <1>1
  <2>2. NothingQuoted \in QuoteStates
    BY <1>1
  <2> QED BY <2>1, <2>2, <1>7, AfterIs, Zenon
<1> QED BY <1>1, <1>6, <1>8 DEF steps

(* One character more.                                                       *)
LEMMA QuoteMore ==
    ASSUME NEW arg \in Seq(Chars), NEW ch \in Chars
    PROVE  QuoteBody(arg) \in QuoteStates /\ QuoteBody(Append(arg, ch)) = QuoteChar(QuoteBody(arg), ch)
<1> DEFINE steps == QuoteSteps(arg)
           step == [acc \in QuoteStates |-> QuoteChar(acc, ch)]
           more == Append(arg, ch)
<1>1. more \in Seq(Chars) /\ Len(more) = Len(arg) + 1 /\ Len(arg) \in Nat
      /\ more[Len(arg) + 1] = ch /\ \A i \in 1 .. Len(arg) : more[i] = arg[i]
  BY AppendProperties
<1>2. steps \in Seq([QuoteStates -> QuoteStates]) /\ Len(steps) = Len(arg) /\ NothingQuoted \in QuoteStates
  BY QuoteStepsTyped
<1>3. step \in [QuoteStates -> QuoteStates]
  BY QuoteCharTyped
<1>4. QuoteSteps(more) = Append(steps, step)
  <2> DEFINE t == Append(steps, step)
             s == QuoteSteps(more)
  <2>1. t \in Seq([QuoteStates -> QuoteStates]) /\ Len(t) = Len(arg) + 1
        /\ t[Len(arg) + 1] = step /\ \A i \in 1 .. Len(arg) : t[i] = steps[i]
    <3> HIDE DEF steps, step
    <3> QED BY <1>2, <1>3, AppendProperties
  <2>2. s \in Seq([QuoteStates -> QuoteStates]) /\ Len(s) = Len(arg) + 1
    BY <1>1, QuoteStepsTyped
  <2>3. ASSUME NEW i \in 1 .. Len(arg) + 1 PROVE s[i] = t[i]
    <3>1. s[i] = [acc \in QuoteStates |-> QuoteChar(acc, more[i])]
      BY <1>1, <2>3 DEF QuoteSteps
    <3>2. CASE i = Len(arg) + 1
      BY <3>1, <3>2, <2>1, <1>1
    <3>3. CASE i # Len(arg) + 1
      <4>1. i \in 1 .. Len(arg)
        BY <3>3, <1>1
      <4>2. steps[i] = [acc \in QuoteStates |-> QuoteChar(acc, arg[i])]
        BY <4>1 DEF QuoteSteps
      <4> QED BY <3>1, <4>1, <4>2, <2>1, <1>1
    <3> QED BY <3>2, <3>3
  <2> HIDE DEF s, t
  <2>4. s = t
    BY <2>1, <2>2, <2>3, SeqEqual
  <2> QED BY <2>4 DEF s, t
<1> HIDE DEF steps, step, more
<1>5. After(NothingQuoted, Append(steps, step)) = step[After(NothingQuoted, steps)]
  BY <1>2, <1>3, AfterMore
<1>6. After(NothingQuoted, steps) \in QuoteStates
  BY <1>2, AfterTyped
<1>7. QuoteBody(arg) = After(NothingQuoted, steps)
  BY QuoteBodyIs DEF steps
<1>8. QuoteBody(more) = After(NothingQuoted, QuoteSteps(more))
  BY <1>1, QuoteBodyIs
<1>9. step[QuoteBody(arg)] = QuoteChar(QuoteBody(arg), ch)
  BY <1>6, <1>7 DEF step
<1> QED BY <1>4, <1>5, <1>6, <1>7, <1>8, <1>9 DEF more

(* Nothing quoted is the opening quote.                                     *)
LEMMA QuoteNothing == QuoteBody(<<>>) = NothingQuoted
<1> DEFINE none == <<>>
<1>1. none \in Seq(Chars) /\ Len(none) = 0
  OBVIOUS
<1>2. QuoteSteps(none) = none
  <2> HIDE DEF none
  <2>1. QuoteSteps(none) \in Seq([QuoteStates -> QuoteStates]) /\ Len(QuoteSteps(none)) = 0
    BY <1>1, QuoteStepsTyped
  <2> QED BY <2>1, EmptySeq DEF none
<1>3. NothingQuoted \in QuoteStates
  BY <1>1, QuoteStepsTyped
<1> QED BY <1>1, <1>2, <1>3, QuoteBodyIs, AfterNone

(* And a step of the parser for each.                                        *)
LEMMA ParseStepsTyped ==
    ASSUME NEW line \in Seq(Chars)
    PROVE  ParseSteps(line) \in Seq([ParseStates -> ParseStates]) /\ Len(ParseSteps(line)) = Len(line)
<1> DEFINE step(i) == [p \in ParseStates |-> ParseChar(p, line[i])]
<1>1. ASSUME NEW i \in 1 .. Len(line) PROVE step(i) \in [ParseStates -> ParseStates]
  <2>1. line[i] \in Chars
    OBVIOUS
  <2> QED BY <2>1, ParseCharTyped
<1>2. ParseSteps(line) = [i \in 1 .. Len(line) |-> step(i)]
  BY DEF ParseSteps
<1> HIDE DEF step
<1>3. ParseSteps(line) \in [1 .. Len(line) -> [ParseStates -> ParseStates]]
  BY <1>1, <1>2
<1>4. Len(line) \in Nat
  OBVIOUS
<1> QED BY <1>3, <1>4, SeqDef, LenProperties

(* ParseFrom is what the characters of the line make of the state.          *)
LEMMA ParseFromIs ==
    ASSUME NEW start \in ParseStates, NEW line \in Seq(Chars)
    PROVE  ParseFrom(start, line) = After(start, ParseSteps(line))
<1> DEFINE steps == ParseSteps(line)
           n == Len(line)
           Body(f) == f = [i \in 0 .. Len(line) |->
                             IF i = 0 THEN start ELSE ParseChar(f[i - 1], line[i])]
           g == CHOOSE f : Body(f)
<1>1. /\ steps \in Seq([ParseStates -> ParseStates]) /\ Len(steps) = n /\ n \in Nat
  BY ParseStepsTyped
<1>2. \A i \in 1 .. n : \A p \in ParseStates : steps[i][p] = ParseChar(p, line[i])
  BY DEF ParseSteps
<1> HIDE DEF steps
<1>3. PICK f \in [0 .. Len(steps) -> ParseStates] : Passes(f, start, steps)
  <2>1. steps \in Seq([ParseStates -> ParseStates])
    BY <1>1
  <2> QED BY <2>1, PassesExists, Zenon
<1>4. Body(f)
  <2>1. f = [i \in 0 .. n |-> IF i = 0 THEN start ELSE steps[i][f[i - 1]]]
    BY <1>1, <1>3 DEF Passes
  <2>2. ASSUME NEW i \in 0 .. n, i # 0 PROVE steps[i][f[i - 1]] = ParseChar(f[i - 1], line[i])
    <3>1. i \in 1 .. n /\ i - 1 \in 0 .. n /\ f[i - 1] \in ParseStates
      BY <1>1, <1>3, <2>2
    <3> QED BY <1>2, <3>1
  <2> HIDE DEF n
  <2>3. f = [i \in 0 .. n |-> IF i = 0 THEN start ELSE ParseChar(f[i - 1], line[i])]
    BY <2>1, <2>2
  <2> QED BY <2>3 DEF n
<1>5. Body(g)
  BY <1>4, Zenon
<1>6. ParseFrom(start, line) = g[n]
  BY Zenon DEF ParseFrom
<1>7. Yields(g, start, steps, ParseStates)
  <2> HIDE DEF g, n
  <2>1. \A i \in 0 .. n : g[i] = IF i = 0 THEN start ELSE ParseChar(g[i - 1], line[i])
    <3>1. g = [i \in 0 .. n |-> IF i = 0 THEN start ELSE ParseChar(g[i - 1], line[i])]
      BY <1>5, Zenon DEF n
    <3> QED BY <3>1, Zenon
  <2>2. 0 \in 0 .. n /\ \A i \in 1 .. n : i \in 0 .. n /\ i # 0
    BY <1>1
  <2> QED BY <1>1, <1>2, <2>1, <2>2 DEF Yields
<1> HIDE DEF g
<1>8. After(start, steps) = g[Len(steps)]
  <2>1. steps \in Seq([ParseStates -> ParseStates])
    BY <1>1
  <2> QED BY <2>1, <1>7, AfterIs, Zenon
<1> QED BY <1>1, <1>6, <1>8 DEF steps

(* A line read leaves a state of the parser.                                *)
LEMMA ParseTyped ==
    ASSUME NEW start \in ParseStates, NEW line \in Seq(Chars)
    PROVE  ParseFrom(start, line) \in ParseStates
BY ParseFromIs, ParseStepsTyped, AfterTyped

(* One line, then another.                                                   *)
LEMMA ParseBoth ==
    ASSUME NEW start \in ParseStates, NEW s \in Seq(Chars), NEW t \in Seq(Chars)
    PROVE  ParseFrom(start, s \o t) = ParseFrom(ParseFrom(start, s), t)
<1> DEFINE first == ParseSteps(s)
           second == ParseSteps(t)
           both == s \o t
<1>1. /\ first \in Seq([ParseStates -> ParseStates]) /\ Len(first) = Len(s) /\ Len(s) \in Nat
      /\ second \in Seq([ParseStates -> ParseStates]) /\ Len(second) = Len(t) /\ Len(t) \in Nat
  BY ParseStepsTyped
<1>2. /\ both \in Seq(Chars) /\ Len(both) = Len(s) + Len(t)
      /\ \A i \in 1 .. Len(s) + Len(t) : both[i] = IF i <= Len(s) THEN s[i] ELSE t[i - Len(s)]
  BY ConcatProperties
<1>3. ParseSteps(both) = first \o second
  <2> DEFINE u == first \o second
             v == ParseSteps(both)
  <2>1. /\ u \in Seq([ParseStates -> ParseStates]) /\ Len(u) = Len(s) + Len(t)
        /\ \A i \in 1 .. Len(s) + Len(t) : u[i] = IF i <= Len(s) THEN first[i] ELSE second[i - Len(s)]
    <3> HIDE DEF first, second
    <3> DEFINE F == [ParseStates -> ParseStates]
    <3>1. first \in Seq(F)
      BY <1>1
    <3>2. second \in Seq(F)
      BY <1>1
    <3> HIDE DEF F
    <3>3. /\ first \o second \in Seq(F) /\ Len(first \o second) = Len(first) + Len(second)
          /\ \A i \in 1 .. Len(first) + Len(second) :
                (first \o second)[i] = IF i <= Len(first) THEN first[i] ELSE second[i - Len(first)]
      BY <3>1, <3>2, ConcatProperties
    <3> QED BY <1>1, <3>3 DEF F
  <2>2. v \in Seq([ParseStates -> ParseStates]) /\ Len(v) = Len(s) + Len(t)
    <3> HIDE DEF both
    <3> QED BY <1>2, ParseStepsTyped
  <2>3. ASSUME NEW i \in 1 .. Len(s) + Len(t) PROVE u[i] = v[i]
    <3>1. v[i] = [p \in ParseStates |-> ParseChar(p, both[i])]
      BY <1>2 DEF ParseSteps
    <3>2. CASE i <= Len(s)
      <4>1. i \in 1 .. Len(s)
        BY <3>2, <1>1
      <4>2. first[i] = [p \in ParseStates |-> ParseChar(p, s[i])]
        BY <4>1 DEF ParseSteps
      <4> HIDE DEF both, first, second, u, v
      <4> QED BY <3>1, <3>2, <4>2, <2>1, <1>2
    <3>3. CASE ~(i <= Len(s))
      <4>1. i - Len(s) \in 1 .. Len(t)
        BY <3>3, <1>1
      <4>2. second[i - Len(s)] = [p \in ParseStates |-> ParseChar(p, t[i - Len(s)])]
        BY <4>1 DEF ParseSteps
      <4> HIDE DEF both, first, second, u, v
      <4> QED BY <3>1, <3>3, <4>2, <2>1, <1>2
    <3> QED BY <3>2, <3>3
  <2> HIDE DEF u, v
  <2>4. u = v
    BY <2>1, <2>2, <2>3, SeqEqual
  <2> QED BY <2>4 DEF u, v
<1> DEFINE made == After(start, first)
<1>4. made \in ParseStates /\ ParseFrom(start, s) = made
  BY <1>1, AfterTyped, ParseFromIs
<1> HIDE DEF first, second, both
<1>5. Joins(start, first, second)
  <2>1. first \in Seq([ParseStates -> ParseStates])
    BY <1>1
  <2>2. second \in Seq([ParseStates -> ParseStates])
    BY <1>1
  <2> QED BY <2>1, <2>2, AfterBoth, Zenon
<1>6. ParseFrom(start, both) = After(start, first \o second)
  BY <1>2, <1>3, ParseFromIs
<1> HIDE DEF made
<1>7. ParseFrom(made, t) = After(made, second)
  BY <1>4, ParseFromIs DEF second
<1> QED BY <1>4, <1>5, <1>6, <1>7 DEF Joins, made, both

(* One character.                                                            *)
LEMMA ParseOne ==
    ASSUME NEW start \in ParseStates, NEW ch \in Chars
    PROVE  ParseFrom(start, <<ch>>) = ParseChar(start, ch)
<1> DEFINE one == <<ch>>
           step == [p \in ParseStates |-> ParseChar(p, ch)]
<1>1. one \in Seq(Chars) /\ Len(one) = 1 /\ one[1] = ch
  OBVIOUS
<1>2. step \in [ParseStates -> ParseStates]
  BY ParseCharTyped
<1>3. ParseSteps(one) = <<step>>
  <2> DEFINE u == <<step>>
  <2>1. u \in Seq([ParseStates -> ParseStates]) /\ Len(u) = 1 /\ u[1] = step
    BY <1>2
  <2>2. ParseSteps(one) \in Seq([ParseStates -> ParseStates]) /\ Len(ParseSteps(one)) = 1
    BY <1>1, ParseStepsTyped
  <2>3. ParseSteps(one)[1] = step
    BY <1>1 DEF ParseSteps
  <2> HIDE DEF u, one, step
  <2>4. \A i \in 1 .. 1 : ParseSteps(one)[i] = u[i]
    BY <2>1, <2>3
  <2>5. ParseSteps(one) = u
    BY <2>1, <2>2, <2>4, SeqEqual
  <2> QED BY <2>5 DEF u
<1> HIDE DEF one, step
<1>4. ParseFrom(start, one) = After(start, <<step>>)
  BY <1>1, <1>3, ParseFromIs
<1>5. After(start, <<step>>) = step[start]
  BY <1>2, AfterOne
<1> QED BY <1>4, <1>5 DEF one, step

(* No character changes nothing.                                            *)
LEMMA ParseNone ==
    ASSUME NEW start \in ParseStates
    PROVE  ParseFrom(start, <<>>) = start
<1> DEFINE none == <<>>
<1>1. none \in Seq(Chars) /\ Len(none) = 0
  OBVIOUS
<1>2. ParseSteps(none) = none
  <2> HIDE DEF none
  <2>1. ParseSteps(none) \in Seq([ParseStates -> ParseStates]) /\ Len(ParseSteps(none)) = 0
    BY <1>1, ParseStepsTyped
  <2> QED BY <2>1, EmptySeq DEF none
<1>3. After(start, none) = start
  BY AfterNone
<1> HIDE DEF none
<1>4. ParseFrom(start, none) = After(start, none)
  BY <1>1, <1>2, ParseFromIs
<1> QED BY <1>3, <1>4 DEF none

(* One character more.                                                       *)
LEMMA ParseMore ==
    ASSUME NEW start \in ParseStates, NEW line \in Seq(Chars), NEW ch \in Chars
    PROVE  ParseFrom(start, Append(line, ch)) = ParseChar(ParseFrom(start, line), ch)
<1> DEFINE one == <<ch>>
           made == ParseFrom(start, line)
<1>1. one \in Seq(Chars) /\ Append(line, ch) = line \o one
  BY AppendIsConcat
<1>2. made \in ParseStates
  BY ParseTyped
<1> HIDE DEF made
<1>3. ParseFrom(made, one) = ParseChar(made, ch)
  BY <1>2, ParseOne
<1> HIDE DEF one
<1>4. ParseFrom(start, line \o one) = ParseFrom(made, one)
  BY <1>1, ParseBoth DEF made
<1> QED BY <1>1, <1>3, <1>4 DEF made

(* A character at the end of the second is one at the end of both.          *)
LEMMA AppendConcat ==
    ASSUME NEW s \in Seq(Chars), NEW t \in Seq(Chars), NEW e \in Chars
    PROVE  Append(s \o t, e) = s \o Append(t, e)
<1> DEFINE one == <<e>>
<1>1. s \o t \in Seq(Chars) /\ one \in Seq(Chars)
  BY ConcatProperties
<1>2. Append(s \o t, e) = (s \o t) \o one /\ Append(t, e) = t \o one
  BY <1>1, AppendIsConcat
<1> HIDE DEF one
<1>3. (s \o t) \o one = s \o (t \o one)
  <2>1. one \in Seq(Chars)
    BY <1>1
  <2> QED BY <2>1, ConcatAssociative
<1> QED BY <1>2, <1>3

(* Backslashes wait for what comes after them.                               *)
LEMMA SlashesParsed ==
    ASSUME NEW args \in Seq(Seq(Chars)), NEW cur \in Seq(Chars), NEW k \in Nat,
           NEW at \in {"word", "quoted"}, NEW n \in Nat
    PROVE  ParseFrom(State(args, cur, k, at), Slashes(n)) = State(args, cur, k + n, at)
<1> DEFINE start == State(args, cur, k, at)
           T == {m \in Nat : ParseFrom(start, Slashes(m)) = State(args, cur, k + m, at)}
<1>1. start \in ParseStates
  BY StateTyped DEF Places
<1>2. 0 \in T
  <2>1. ParseFrom(start, Slashes(0)) = start /\ k + 0 = k
    BY <1>1, ParseNone, SlashesMore
  <2> QED BY <2>1
<1>3. ASSUME NEW m \in Nat, m \in T PROVE m + 1 \in T
  <2>1. ParseFrom(start, Slashes(m + 1)) = ParseChar(ParseFrom(start, Slashes(m)), Slash)
    <3> HIDE DEF start
    <3>1. Slashes(m) \in Seq(Chars) /\ Slash \in Chars
      BY SlashesTyped, CharsDiffer
    <3> QED BY <3>1, <1>1, ParseMore, SlashesMore
  <2>2. ParseFrom(start, Slashes(m)) = State(args, cur, k + m, at)
    BY <1>3
  <2>3. ParseChar(State(args, cur, k + m, at), Slash) = State(args, cur, (k + m) + 1, at)
    BY ParseSlash DEF Within
  <2>4. (k + m) + 1 = k + (m + 1)
    OBVIOUS
  <2> QED BY <2>1, <2>2, <2>3, <2>4
<1> HIDE DEF T
<1>4. Nat \subseteq T
  BY <1>2, <1>3, SetInduction
<1> QED BY <1>4 DEF T

(* The two halves of an argument: what was written, and the backslashes that *)
(* were not yet. What was written, parsed, gives the first half back.        *)
Held(arg, cur) ==
    LET body == QuoteBody(arg)
    IN /\ cur \in Seq(Chars)
       /\ arg = cur \o Slashes(body.slashes)
       /\ \A args \in Seq(Seq(Chars)) :
             ParseFrom(Fresh(args), body.out) = State(args, cur, 0, "quoted")

(* Before its first character nothing is held.                              *)
LEMMA HeldNothing == Held(<<>>, <<>>)
<1> DEFINE none == <<>>
<1>1. none \in Seq(Chars) /\ Slashes(0) = none /\ none \o none = none
  BY SlashesMore
<1>2. QuoteBody(none).slashes = 0 /\ QuoteBody(none).out = <<Quote>>
  BY QuoteNothing DEF NothingQuoted
<1>3. ASSUME NEW args \in Seq(Seq(Chars))
      PROVE  ParseFrom(Fresh(args), <<Quote>>) = State(args, none, 0, "quoted")
  <2>1. Fresh(args) \in ParseStates
    BY FreshTyped
  <2> HIDE DEF none
  <2>2. ASSUME NEW n \in Nat, n = 0
        PROVE  ParseChar(State(args, none, n, "gap"), Quote) = State(args, none \o Slashes(n \div 2), 0, "quoted")
    <3>1. ~(n % 2 = 1)
      BY <2>2
    <3> QED BY <3>1, ParseQuote
  <2>3. 0 \div 2 = 0 /\ Fresh(args) = State(args, none, 0, "gap")
    BY DEF Fresh, none
  <2>4. ParseFrom(Fresh(args), <<Quote>>) = ParseChar(Fresh(args), Quote)
    BY <2>1, ParseOne, CharsDiffer
  <2> QED BY <2>2, <2>3, <2>4, <1>1
<1> HIDE DEF none
<1>4. Held(none, none)
  BY <1>1, <1>2, <1>3 DEF Held, none
<1> QED BY <1>4 DEF none

(* What a quotation writes is read after what was written before.            *)
LEMMA ReadOn ==
    ASSUME NEW start \in ParseStates, NEW out \in Seq(Chars), NEW args \in Seq(Seq(Chars)),
           NEW cur \in Seq(Chars), NEW n \in Nat, NEW ch \in Chars,
           ParseFrom(start, out) = State(args, cur, 0, "quoted")
    PROVE  /\ out \o Slashes(n) \o <<ch>> \in Seq(Chars)
           /\ ParseFrom(start, out \o Slashes(n) \o <<ch>>) = ParseChar(State(args, cur, n, "quoted"), ch)
<1> DEFINE s == Slashes(n)
           c == <<ch>>
<1>1. s \in Seq(Chars) /\ c \in Seq(Chars)
  BY SlashesTyped
<1>2. ParseFrom(State(args, cur, 0, "quoted"), s) = State(args, cur, n, "quoted")
  BY SlashesParsed
<1>3. ParseFrom(State(args, cur, n, "quoted"), c) = ParseChar(State(args, cur, n, "quoted"), ch)
  BY StateTyped, ParseOne DEF Places
<1> HIDE DEF s, c
<1>4. out \o s \in Seq(Chars) /\ out \o s \o c \in Seq(Chars)
  BY <1>1, ConcatProperties
<1>5. ParseFrom(start, out \o s) = ParseFrom(ParseFrom(start, out), s)
  BY <1>1, ParseBoth
<1>6. ParseFrom(start, out \o s \o c) = ParseFrom(ParseFrom(start, out \o s), c)
  BY <1>1, <1>4, ParseBoth
<1> QED BY <1>2, <1>3, <1>4, <1>5, <1>6 DEF s, c

(* A backslash is held back.                                                *)
LEMMA HeldSlash ==
    ASSUME NEW arg \in Seq(Chars), NEW cur, Held(arg, cur)
    PROVE  Held(Append(arg, Slash), cur)
<1> DEFINE body == QuoteBody(arg)
           more == Append(arg, Slash)
           k == body.slashes
<1>1. body \in QuoteStates /\ QuoteBody(more) = QuoteChar(body, Slash)
  BY QuoteMore, CharsDiffer
<1>2. k \in Nat /\ QuoteBody(more).slashes = k + 1 /\ QuoteBody(more).out = body.out
  BY <1>1, CharsDiffer DEF QuoteChar, QuoteStates
<1>3. more = cur \o Slashes(k + 1)
  <2> DEFINE s == Slashes(k)
  <2>1. cur \in Seq(Chars) /\ arg = cur \o s
    BY DEF Held
  <2>2. s \in Seq(Chars) /\ Slashes(k + 1) = Append(s, Slash) /\ Slash \in Chars
    BY <1>2, SlashesTyped, SlashesMore, CharsDiffer
  <2> HIDE DEF s, body
  <2>3. Append(cur \o s, Slash) = cur \o Append(s, Slash)
    <3>1. cur \in Seq(Chars)
      BY <2>1
    <3>2. s \in Seq(Chars)
      BY <2>2
    <3>3. Slash \in Chars
      BY CharsDiffer
    <3> QED BY <3>1, <3>2, <3>3, AppendConcat
  <2> QED BY <2>1, <2>2, <2>3
<1> HIDE DEF more
<1> QED BY <1>2, <1>3 DEF Held, more

(* Any other character is written, with what was held back before it.       *)
LEMMA HeldOther ==
    ASSUME NEW arg \in Seq(Chars), NEW cur, Held(arg, cur), NEW ch \in Chars, ch # Slash
    PROVE  Held(Append(arg, ch), Append(arg, ch))
<1> DEFINE body == QuoteBody(arg)
           more == Append(arg, ch)
           k == body.slashes
           n == IF ch = Quote THEN 2 * k + 1 ELSE k
           out == body.out
           wrote == out \o Slashes(n) \o <<ch>>
<1>1. body \in QuoteStates /\ QuoteBody(more) = QuoteChar(body, ch)
  BY QuoteMore
<1>2. k \in Nat /\ out \in Seq(Chars) /\ n \in Nat
  <2>1. k \in Nat /\ out \in Seq(Chars)
    BY <1>1 DEF QuoteStates
  <2> QED BY <2>1
<1>3. QuoteBody(more).out = wrote /\ QuoteBody(more).slashes = 0
  <2>1. CASE ch = Quote
    <3>1. QuoteBody(more) = [out |-> out \o Slashes(2 * k + 1) \o <<Quote>>, slashes |-> 0]
      BY <1>1, <2>1, CharsDiffer DEF QuoteChar
    <3>2. n = 2 * k + 1
      BY <2>1
    <3> HIDE DEF out, k, n, more
    <3> QED BY <3>1, <3>2, <2>1
  <2>2. CASE ch # Quote
    <3>1. QuoteBody(more) = [out |-> out \o Slashes(k) \o <<ch>>, slashes |-> 0]
      BY <1>1, <2>2, CharsDiffer DEF QuoteChar
    <3>2. n = k
      BY <2>2
    <3> HIDE DEF out, k, n, more
    <3> QED BY <3>1, <3>2
  <2> QED BY <2>1, <2>2
<1>4. cur \in Seq(Chars) /\ arg = cur \o Slashes(k)
  BY DEF Held
<1>5. more \in Seq(Chars) /\ more = more \o Slashes(0)
  <2>1. more \in Seq(Chars)
    BY AppendProperties
  <2> HIDE DEF more
  <2> QED BY <2>1, SlashesMore, ConcatEmptySeq
<1>6. ASSUME NEW args \in Seq(Seq(Chars))
      PROVE  ParseFrom(Fresh(args), wrote) = State(args, more, 0, "quoted")
  <2> DEFINE start == Fresh(args)
  <2>1. start \in ParseStates
    BY FreshTyped
  <2>2. ParseFrom(start, out) = State(args, cur, 0, "quoted")
    BY DEF Held
  <2> HIDE DEF start, out, n
  <2>3. ParseFrom(start, wrote) = ParseChar(State(args, cur, n, "quoted"), ch)
    BY <1>2, <1>4, <2>1, <2>2, ReadOn
  <2>4. ParseChar(State(args, cur, n, "quoted"), ch) = State(args, more, 0, "quoted")
    <3>1. CASE ch = Quote
      <4>1. n = 2 * k + 1
        BY <3>1 DEF n
      <4> HIDE DEF k
      <4>2. n % 2 = 1 /\ n \div 2 = k
        BY <4>1, <1>2
      <4>3. ParseChar(State(args, cur, n, "quoted"), ch) = State(args, cur \o Slashes(k) \o <<ch>>, 0, "quoted")
        BY <3>1, <4>2, ParseEscaped
      <4>4. arg \o <<ch>> = more
        BY AppendIsConcat
      <4> QED BY <4>3, <4>4, <1>4
    <3>2. CASE ch # Quote
      <4>1. n = k
        BY <3>2 DEF n
      <4>2. ParseChar(State(args, cur, k, "quoted"), ch) = State(args, Append(cur \o Slashes(k), ch), 0, "quoted")
        BY <3>2, ParseOther DEF Within
      <4> QED BY <4>1, <4>2, <1>4
    <3> QED BY <3>1, <3>2
  <2> QED BY <2>3, <2>4 DEF start
<1> HIDE DEF more, wrote, out, n
<1>7. Held(more, more)
  BY <1>3, <1>5, <1>6 DEF Held
<1> QED BY <1>7 DEF more

(* So every argument is written and held back in two halves.                *)
LEMMA AlwaysHeld == \A arg \in Seq(Chars) : \E cur : Held(arg, cur)
<1> DEFINE T == {arg \in Seq(Chars) : \E cur : Held(arg, cur)}
<1>1. <<>> \in T
  BY HeldNothing
<1>2. ASSUME NEW arg \in Seq(Chars), NEW ch \in Chars, arg \in T PROVE Append(arg, ch) \in T
  <2>1. PICK cur : Held(arg, cur)
    BY <1>2
  <2>2. Append(arg, ch) \in Seq(Chars)
    BY AppendProperties
  <2>3. CASE ch = Slash
    BY <2>1, <2>2, <2>3, HeldSlash
  <2>4. CASE ch # Slash
    BY <2>1, <2>2, <2>4, HeldOther
  <2> QED BY <2>3, <2>4
<1> HIDE DEF T
<1>3. Seq(Chars) \subseteq T
  BY <1>1, <1>2, SequenceInduction
<1> QED BY <1>3 DEF T

(* An argument that needs no quotes is read as it is.                        *)
Plain(arg) == \A i \in 1 .. Len(arg) : arg[i] \notin {Space, Quote, Slash}

(* It is the word under way when the parser comes to its end.               *)
LEMMA PlainParsed ==
    ASSUME NEW args \in Seq(Seq(Chars)), NEW arg \in Seq(Chars), Plain(arg), arg # <<>>
    PROVE  ParseFrom(Fresh(args), arg) = State(args, arg, 0, "word")
<1> DEFINE start == Fresh(args)
           Read(s) == ParseFrom(start, s) = State(args, s, 0, IF s = <<>> THEN "gap" ELSE "word")
           T == {s \in Seq(Chars) : Plain(s) => Read(s)}
<1>1. start \in ParseStates
  BY FreshTyped
<1>2. <<>> \in T
  BY <1>1, ParseNone DEF Fresh
<1>3. ASSUME NEW s \in Seq(Chars), NEW ch \in Chars, s \in T PROVE Append(s, ch) \in T
  <2> DEFINE more == Append(s, ch)
             at == IF s = <<>> THEN "gap" ELSE "word"
  <2>1. more \in Seq(Chars) /\ Len(more) = Len(s) + 1 /\ Len(s) \in Nat
        /\ more[Len(s) + 1] = ch /\ \A i \in 1 .. Len(s) : more[i] = s[i]
    BY AppendProperties
  <2>2. SUFFICES ASSUME Plain(more) PROVE Read(more)
    BY <2>1
  <2>3. Plain(s) /\ ch \notin {Space, Quote, Slash}
    BY <2>1, <2>2 DEF Plain
  <2>4. ParseFrom(start, s) = State(args, s, 0, at)
    BY <2>3, <1>3
  <2>5. ParseFrom(start, more) = ParseChar(State(args, s, 0, at), ch)
    <3> HIDE DEF start, at
    <3> QED BY <1>1, <2>4, ParseMore
  <2>6. s \o Slashes(0) = s /\ Within(at) = "word" /\ more # <<>>
    <3>1. s \o Slashes(0) = s
      BY SlashesMore, ConcatEmptySeq
    <3>2. more # <<>>
      BY <2>1, EmptySeq
    <3> QED BY <3>1, <3>2 DEF Within
  <2>7. ParseChar(State(args, s, 0, at), ch) = State(args, Append(s \o Slashes(0), ch), 0, Within(at))
    BY <2>3, ParseOther
  <2> HIDE DEF start, at, more
  <2>8. ParseFrom(start, more) = State(args, more, 0, "word")
    BY <2>5, <2>6, <2>7 DEF more
  <2> QED BY <2>6, <2>8
<1> HIDE DEF T
<1>4. Seq(Chars) \subseteq T
  BY <1>2, <1>3, SequenceInduction
<1>5. arg \in T
  BY <1>4
<1> QED BY <1>5 DEF T

(* Quoted or not, an argument and the space after it are one argument more.  *)
LEMMA ArgumentParsed ==
    ASSUME NEW args \in Seq(Seq(Chars)), NEW arg \in Seq(Chars)
    PROVE  /\ quote_command_arg(arg) \in Seq(Chars)
           /\ quote_command_arg(arg) \o <<Space>> \in Seq(Chars)
           /\ ParseFrom(Fresh(args), quote_command_arg(arg) \o <<Space>>) = Fresh(Append(args, arg))
<1> DEFINE q == quote_command_arg(arg)
           space == <<Space>>
<1>0. DOMAIN arg = 1 .. Len(arg)
  OBVIOUS
<1>1. q \in Seq(Chars) /\ ParseFrom(Fresh(args), q) = State(args, arg, 0, "word")
  <2>1. CASE arg # <<>> /\ Plain(arg)
    <3>1. q = arg
      BY <1>0, <2>1, Zenon DEF quote_command_arg, Plain
    <3> QED BY <2>1, <3>1, PlainParsed
  <2>2. CASE ~(arg # <<>> /\ Plain(arg))
    <3> DEFINE body == QuoteBody(arg)
               k == body.slashes
               out == body.out
               start == Fresh(args)
    <3>1. q = out \o Slashes(2 * k) \o <<Quote>>
      BY <1>0, <2>2, Zenon DEF quote_command_arg, Plain
    <3>2. k \in Nat /\ out \in Seq(Chars)
      BY QuoteMore, CharsDiffer DEF QuoteStates
    <3>3. PICK cur : Held(arg, cur)
      BY AlwaysHeld
    <3>4. cur \in Seq(Chars) /\ arg = cur \o Slashes(k)
      BY <3>3 DEF Held
    <3>5. ParseFrom(start, out) = State(args, cur, 0, "quoted")
      BY <3>3 DEF Held, Fresh
    <3>6. start \in ParseStates
      BY FreshTyped
    <3> HIDE DEF k, out, start, q
    <3>7. /\ out \o Slashes(2 * k) \o <<Quote>> \in Seq(Chars)
          /\ ParseFrom(start, out \o Slashes(2 * k) \o <<Quote>>) =
                ParseChar(State(args, cur, 2 * k, "quoted"), Quote)
      <4>1. 2 * k \in Nat
        BY <3>2
      <4>2. cur \in Seq(Chars)
        BY <3>4
      <4>3. out \in Seq(Chars)
        BY <3>2
      <4> QED BY <4>1, <4>2, <4>3, <3>5, <3>6, ReadOn, CharsDiffer
    <3>8. ParseChar(State(args, cur, 2 * k, "quoted"), Quote) = State(args, cur \o Slashes(k), 0, "word")
      <4>1. ~((2 * k) % 2 = 1) /\ (2 * k) \div 2 = k
        BY <3>2
      <4> QED BY <4>1, ParseQuote
    <3> QED BY <3>1, <3>4, <3>7, <3>8 DEF start
  <2> QED BY <2>1, <2>2
<1>2. space \in Seq(Chars)
  BY CharsDiffer
<1> DEFINE read == State(args, arg, 0, "word")
<1>3. read \in ParseStates
  BY StateTyped DEF Places
<1>4. ParseFrom(read, space) = ParseChar(read, Space)
  <2> HIDE DEF read
  <2> QED BY <1>3, ParseOne, CharsDiffer
<1>5. ParseChar(read, Space) = Fresh(Append(args, arg))
  <2>1. ParseChar(read, Space) = State(Append(args, arg \o Slashes(0)), <<>>, 0, "gap")
    BY ParseSpace
  <2>2. arg \o Slashes(0) = arg
    BY SlashesMore, ConcatEmptySeq
  <2> QED BY <2>1, <2>2 DEF Fresh
<1> HIDE DEF q, space, read
<1>6. q \o space \in Seq(Chars)
  BY <1>1, <1>2, ConcatProperties
<1>7. ParseFrom(Fresh(args), q \o space) = ParseFrom(ParseFrom(Fresh(args), q), space)
  <2>1. q \in Seq(Chars)
    BY <1>1
  <2> QED BY <2>1, <1>2, FreshTyped, ParseBoth
<1> QED BY <1>1, <1>4, <1>5, <1>6, <1>7 DEF q, space, read

(* The agent's process is given the two arguments the controller was given,  *)
(* whatever their characters and however long (session_agent_command_line).  *)
THEOREM ArgumentsSurvive ==
    \A url, token \in Seq(Chars) :
        ParsedArguments(session_agent_command_line(url, token)) = <<url, token>>
<1> SUFFICES ASSUME NEW url \in Seq(Chars), NEW token \in Seq(Chars)
             PROVE  ParsedArguments(session_agent_command_line(url, token)) = <<url, token>>
  OBVIOUS
<1> DEFINE qu == quote_command_arg(url)
           qt == quote_command_arg(token)
           space == <<Space>>
           none == <<>>
           one == Append(none, url)
           two == Append(one, token)
<1>1. none \in Seq(Seq(Chars)) /\ one \in Seq(Seq(Chars)) /\ two = <<url, token>>
  <2>1. none \in Seq(Seq(Chars)) /\ Len(none) = 0
    OBVIOUS
  <2>2. one \in Seq(Seq(Chars)) /\ one = <<url>>
    OBVIOUS
  <2>3. Append(<<url>>, token) = <<url, token>>
    <3> DEFINE s == <<url>>
               t == <<url, token>>
    <3>1. /\ s \in Seq(Seq(Chars)) /\ Len(s) = 1 /\ s[1] = url
          /\ t \in Seq(Seq(Chars)) /\ Len(t) = 2 /\ t[1] = url /\ t[2] = token
      OBVIOUS
    <3> HIDE DEF s, t
    <3>2. /\ Append(s, token) \in Seq(Seq(Chars)) /\ Len(Append(s, token)) = 2
          /\ Append(s, token)[1] = url /\ Append(s, token)[2] = token
      <4>1. s \in Seq(Seq(Chars))
        BY <3>1
      <4>2. /\ Append(s, token) \in Seq(Seq(Chars))
            /\ Len(Append(s, token)) = Len(s) + 1
            /\ \A i \in 1 .. Len(s) : Append(s, token)[i] = s[i]
            /\ Append(s, token)[Len(s) + 1] = token
        BY <4>1, AppendProperties
      <4> QED BY <3>1, <4>2
    <3>3. \A i \in 1 .. 2 : Append(s, token)[i] = t[i]
      BY <3>1, <3>2
    <3>4. Append(s, token) = t
      BY <3>1, <3>2, <3>3, SeqEqual
    <3> QED BY <3>4 DEF s, t
  <2> QED BY <2>1, <2>2, <2>3, Zenon
<1>2. /\ qu \o space \in Seq(Chars)
      /\ ParseFrom(Fresh(none), qu \o space) = Fresh(one)
  <2>1. none \in Seq(Seq(Chars))
    BY <1>1
  <2> HIDE DEF none
  <2> QED BY <2>1, ArgumentParsed
<1>3. /\ qt \o space \in Seq(Chars)
      /\ ParseFrom(Fresh(one), qt \o space) = Fresh(two)
  <2>1. one \in Seq(Seq(Chars))
    BY <1>1
  <2> HIDE DEF one
  <2> QED BY <2>1, ArgumentParsed
<1> DEFINE line == session_agent_command_line(url, token)
<1>4. Append(line, Space) = (qu \o space) \o (qt \o space)
  <2>1. qt \in Seq(Chars)
    BY ArgumentParsed, <1>1
  <2>2. space \in Seq(Chars) /\ Space \in Chars
    BY CharsDiffer
  <2>3. line = (qu \o space) \o qt
    BY DEF session_agent_command_line
  <2> HIDE DEF line, qu, qt
  <2> DEFINE front == qu \o space
  <2>4. front \in Seq(Chars)
    BY <1>2
  <2> HIDE DEF front
  <2>5. Append(front \o qt, Space) = front \o Append(qt, Space)
    <3>1. Space \in Chars
      BY CharsDiffer
    <3>2. ASSUME NEW x \in Seq(Chars), NEW y \in Seq(Chars)
          PROVE  Append(x \o y, Space) = x \o Append(y, Space)
      BY <3>1, AppendConcat
    <3> QED BY <2>1, <2>4, <3>2
  <2>6. Append(qt, Space) = qt \o space
    BY <2>1, <2>2, AppendIsConcat
  <2> QED BY <2>3, <2>5, <2>6 DEF front
<1>5. ParsedArguments(line) = ParseFrom(Fresh(none), Append(line, Space)).args
  BY DEF ParsedArguments, Fresh, State
<1> DEFINE a == qu \o space
           b == qt \o space
<1> HIDE DEF a, b, none, one, two, line
<1>6. ParseFrom(Fresh(none), a \o b) = ParseFrom(ParseFrom(Fresh(none), a), b)
  <2>1. a \in Seq(Chars)
    BY <1>2 DEF a
  <2>2. b \in Seq(Chars)
    BY <1>3 DEF b
  <2>3. Fresh(none) \in ParseStates
    BY <1>1, FreshTyped
  <2> QED BY <2>1, <2>2, <2>3, ParseBoth
<1>7. ParseFrom(Fresh(none), Append(line, Space)) = Fresh(two)
  BY <1>2, <1>3, <1>4, <1>6 DEF a, b
<1>8. Fresh(two).args = two
  BY DEF Fresh, State
<1> QED BY <1>1, <1>5, <1>7, <1>8 DEF line

(* So the property the run checks up to a length holds of every address and  *)
(* token, in every state.                                                    *)
THEOREM AgentArgumentsAlwaysSurvive == ServiceSpec => []AgentArgumentsSurvive
<1>1. AgentArgumentsSurvive
  <2>1. MaxArgument \in Nat
    BY ServiceAssumption
  <2>2. BoundedSeq(Chars, MaxArgument) \subseteq Seq(Chars)
    BY <2>1, SeqDef DEF BoundedSeq, SeqOf
  <2> QED BY <2>2, ArgumentsSurvive DEF AgentArgumentsSurvive
<1> QED BY <1>1, PTL

-----------------------------------------------------------------------------
(* AudioPipeline                                                              *)

(* The rates and the length of an Opus frame are positive.                   *)
LEMMA AudioBounds ==
    /\ OpusRate \in Nat \ {0} /\ OpusFrame \in Nat \ {0} /\ PcmCapacity \in Nat \ {0}
    /\ PacketFrames \subseteq Nat /\ MaxHeard \in Nat
    /\ \A f \in DeviceFormats : f.rate \in Nat \ {0}
BY AudioAssumption

(* Whole parts and what is left over make up a number.                       *)
LEMMA Parts ==
    ASSUME NEW a \in Nat, NEW b \in Nat \ {0}
    PROVE  a \div b \in Nat /\ a % b \in 0 .. b - 1 /\ (a \div b) * b + (a % b) = a
<1>1. a \div b \in Nat /\ a % b \in 0 .. b - 1 /\ a = b * (a \div b) + (a % b)
  OBVIOUS
<1> DEFINE q == a \div b
<1> HIDE DEF q
<1>2. q \in Nat /\ b * q = q * b
  BY <1>1 DEF q
<1> QED BY <1>1, <1>2 DEF q

(* What a packet resamples to: at the other rate, and with what is carried   *)
(* over, exactly what it was.                                                *)
LEMMA ResampledExactly ==
    ASSUME probed \in DeviceFormats, NEW n \in Nat, NEW carry \in 0 .. probed.rate - 1
    PROVE  LET r == Resampled(n, carry)
           IN /\ r.frames \in Nat /\ r.carry \in 0 .. probed.rate - 1
              /\ n # 1 => r.frames * probed.rate + r.carry = n * OpusRate + carry
              /\ \A k \in 0 .. r.frames - 1 : SourceFrame(k) < n
<1> DEFINE rate == probed.rate
<1> DEFINE r == Resampled(n, carry)
<1>0. rate \in Nat \ {0} /\ OpusRate \in Nat \ {0}
  BY AudioBounds
<1>1. CASE rate = OpusRate
  <2>1. r.frames = n /\ r.carry = carry
    BY <1>1 DEF Resampled
  <2>2. \A k \in 0 .. n - 1 : SourceFrame(k) < n
    BY <1>1 DEF SourceFrame
  <2> HIDE DEF r
  <2> QED BY <1>1, <2>1, <2>2 DEF r
<1>2. CASE rate # OpusRate /\ n <= 1
  <2>1. r.frames = n /\ r.carry = carry
    BY <1>2 DEF Resampled
  <2>2. \A k \in 0 .. n - 1 : SourceFrame(k) < n
    <3> SUFFICES ASSUME NEW k \in 0 .. n - 1 PROVE SourceFrame(k) < n
      OBVIOUS
    <3>1. k = 0 /\ n = 1
      BY <1>2
    <3>2. 0 * rate = 0 /\ 0 \div OpusRate = 0
      BY <1>0
    <3> QED BY <1>2, <3>1, <3>2 DEF SourceFrame
  <2>3. n # 1 => n * rate + carry = n * OpusRate + carry
    <3>1. n # 1 => n = 0
      BY <1>2
    <3>2. 0 * rate = 0 /\ 0 * OpusRate = 0
      BY <1>0
    <3> QED BY <3>1, <3>2
  <2> HIDE DEF r
  <2> QED BY <2>1, <2>2, <2>3 DEF r
<1>3. CASE rate # OpusRate /\ n > 1
  <2> DEFINE whole == n * OpusRate
  <2> DEFINE scaled == whole + carry
  <2>1. whole \in Nat /\ scaled \in Nat
    BY <1>0
  <2>2. r.frames = scaled \div rate /\ r.carry = scaled % rate
    BY <1>3 DEF Resampled
  <2> HIDE DEF r, rate, whole
  <2>3. /\ scaled \div rate \in Nat /\ scaled % rate \in 0 .. rate - 1
        /\ (scaled \div rate) * rate + (scaled % rate) = scaled
    BY <1>0, <2>1, Parts
  <2> DEFINE made == scaled \div rate
  <2> DEFINE left == scaled % rate
  <2> HIDE DEF made, left, scaled
  <2>4. made \in Nat /\ left \in 0 .. rate - 1 /\ made * rate + left = scaled
    BY <2>3 DEF made, left
  <2>5. ASSUME NEW k \in 0 .. made - 1
        PROVE  SourceFrame(k) < n
    <3>1. k \in Nat /\ k + 1 <= made
      BY <2>4
    <3>2. (k + 1) * rate <= made * rate
      BY <1>0, <2>4, <3>1
    <3>3. (k + 1) * rate = k * rate + rate
      BY <1>0, <3>1
    <3> DEFINE at == k * rate
    <3>4. at \in Nat
      BY <1>0, <3>1
    <3>5. made * rate \in Nat
      BY <1>0, <2>4
    <3> HIDE DEF at
    <3>6. at + rate <= made * rate
      BY <3>2, <3>3 DEF at
    <3>7. at < whole
      <4> DEFINE m == made * rate
      <4>1. m \in Nat /\ at + rate <= m /\ m + left = whole + carry
        BY <2>4, <3>5, <3>6 DEF scaled
      <4> HIDE DEF m
      <4>2. carry \in 0 .. rate - 1
        BY DEF rate
      <4> QED BY <1>0, <2>1, <2>4, <3>4, <4>1, <4>2
    <3> DEFINE q == at \div OpusRate
    <3>8. q \in Nat /\ q * OpusRate <= at
      <4>1. at \div OpusRate \in Nat /\ at % OpusRate \in 0 .. OpusRate - 1
            /\ (at \div OpusRate) * OpusRate + (at % OpusRate) = at
        BY <1>0, <3>4, Parts
      <4>2. q \in Nat /\ at % OpusRate \in Nat /\ q * OpusRate + (at % OpusRate) = at
        BY <1>0, <4>1
      <4> HIDE DEF q
      <4> DEFINE p == q * OpusRate
      <4>3. p \in Nat
        BY <1>0, <4>2
      <4> HIDE DEF p
      <4>4. p <= at
        BY <3>4, <4>2, <4>3 DEF p
      <4> QED BY <4>2, <4>4 DEF p
    <3>9. q < n
      <4> HIDE DEF q
      <4>1. q * OpusRate < n * OpusRate
        <5> DEFINE p == q * OpusRate
        <5>1. p \in Nat /\ p <= at
          BY <1>0, <3>8
        <5> HIDE DEF p
        <5>2. p < whole
          BY <2>1, <3>4, <3>7, <5>1
        <5> QED BY <5>2 DEF p, whole
      <4>2. ~(n <= q)
        <5> SUFFICES ASSUME n <= q PROVE FALSE
          OBVIOUS
        <5>1. n * OpusRate <= q * OpusRate
          BY <1>0, <3>8
        <5>2. n * OpusRate \in Nat /\ q * OpusRate \in Nat
          BY <1>0, <3>8
        <5> QED BY <4>1, <5>1, <5>2
      <4> QED BY <3>8, <4>2
    <3>10. SourceFrame(k) = q
      BY <1>3 DEF SourceFrame, at, rate
    <3> QED BY <3>9, <3>10
  <2>6. r.frames = made /\ r.carry = left
    BY <2>2 DEF made, left
  <2> QED BY <2>4, <2>5, <2>6 DEF r, rate, scaled, whole
<1> QED BY <1>0, <1>1, <1>2, <1>3

-----------------------------------------------------------------------------
(* What was captured is only sent when it is something.                      *)
SendsPacket == captureAt = "sending" => held \in PacketFrames

(* What came out, at the device's rate, with what is carried over, is what   *)
(* went in, at the rate of Opus.                                             *)
PaceKept ==
    ~audioHeard.lone =>
        (audioOut * OpusFrame + buffered) * probed.rate + remainder = audioHeard.normalized * OpusRate

AudioInv == AudioTypeOK /\ SendsPacket /\ PaceKept

(* A step that leaves the encoder's state alone keeps the pace.              *)
LEMMA PaceUntouched ==
    ASSUME PaceKept, UNCHANGED <<probed, remainder, buffered, audioOut>>,
           audioHeard'.lone = audioHeard.lone, audioHeard'.normalized = audioHeard.normalized
    PROVE  PaceKept'
BY DEF PaceKept

(* What the encoder makes of a packet.                                       *)
LEMMA EncodeKeeps ==
    ASSUME AudioInv, EncodePacket
    PROVE  AudioInv'
<1> DEFINE n == Head(pcm)
<1> DEFINE r == Resampled(n, remainder)
<1>0. /\ pcm \in Seq(PacketFrames) /\ pcm # <<>> /\ probed \in DeviceFormats /\ Len(pcm) \in Nat
      /\ OpusRate \in Nat \ {0} /\ OpusFrame \in Nat \ {0} /\ probed.rate \in Nat \ {0}
      /\ PacketFrames \subseteq Nat /\ remainder \in 0 .. probed.rate - 1
      /\ buffered \in 0 .. OpusFrame - 1 /\ audioOut \in Nat
      /\ audioHeard \in [captured : 0 .. MaxHeard, normalized : Nat, lone : BOOLEAN]
  BY AudioBounds, LenProperties DEF AudioInv, AudioTypeOK, EncodePacket
<1>1. n \in PacketFrames /\ n \in Nat /\ Tail(pcm) \in Seq(PacketFrames) /\ Len(Tail(pcm)) = Len(pcm) - 1
      /\ <<>> \in Seq(PacketFrames) /\ Len(<<>>) = 0
  <2>1. Head(pcm) \in PacketFrames /\ Tail(pcm) \in Seq(PacketFrames) /\ Len(Tail(pcm)) = Len(pcm) - 1
    BY <1>0, HeadTailProperties
  <2>2. <<>> \in Seq(PacketFrames) /\ Len(<<>>) = 0
    OBVIOUS
  <2> QED BY <1>0, <2>1, <2>2
<1>2. UNCHANGED <<audioAt, probed, opened, captureAt, held, stopFlag>>
  BY DEF EncodePacket
<1>3. pcm' \in Seq(PacketFrames) /\ Len(pcm') <= PcmCapacity /\ encodeAt' \in {"none", "running", "ended"}
  <2>1. pcm' \in {Tail(pcm), <<>>} /\ encodeAt' \in {encodeAt, "running", "ended"}
    BY DEF EncodePacket
  <2>2. Len(pcm) <= PcmCapacity /\ encodeAt \in {"none", "running", "ended"} /\ PcmCapacity \in Nat
    BY AudioBounds DEF AudioInv, AudioTypeOK
  <2>3. Len(pcm) - 1 <= PcmCapacity /\ 0 <= PcmCapacity
    BY <1>0, <2>2
  <2> QED BY <1>1, <2>1, <2>2, <2>3
<1>4. SendsPacket'
  BY <1>2 DEF AudioInv, SendsPacket
<1> HIDE DEF n
<1>5. CASE UNCHANGED <<remainder, buffered, audioOut, audioHeard>>
  <2>1. PaceKept'
    BY <1>2, <1>5, PaceUntouched DEF AudioInv
  <2>2. AudioTypeOK'
    BY <1>2, <1>3, <1>5 DEF AudioInv, AudioTypeOK
  <2> QED BY <1>4, <2>1, <2>2 DEF AudioInv
<1>6. CASE /\ remainder' = Pushed(n).carry /\ buffered' = Pushed(n).left
           /\ audioOut' = audioOut + Pushed(n).complete
           /\ audioHeard' = [audioHeard EXCEPT !.normalized = @ + n, !.lone = @ \/ n = 1]
  <2>1. /\ r.frames \in Nat /\ r.carry \in 0 .. probed.rate - 1
        /\ n # 1 => r.frames * probed.rate + r.carry = n * OpusRate + remainder
    BY <1>0, <1>1, ResampledExactly
  <2> DEFINE frames == r.frames
  <2> DEFINE all == buffered + frames
  <2>2. /\ remainder' = r.carry /\ buffered' = all % OpusFrame
        /\ audioOut' = audioOut + (all \div OpusFrame)
    BY <1>6 DEF Pushed
  <2> HIDE DEF r, frames
  <2>3. frames \in Nat /\ all \in Nat
    BY <1>0, <2>1 DEF frames
  <2>4. /\ all \div OpusFrame \in Nat /\ all % OpusFrame \in 0 .. OpusFrame - 1
        /\ (all \div OpusFrame) * OpusFrame + (all % OpusFrame) = all
    BY <1>0, <2>3, Parts
  <2> DEFINE complete == all \div OpusFrame
  <2> HIDE DEF complete, all
  <2>5. /\ complete \in Nat /\ buffered' \in 0 .. OpusFrame - 1
        /\ complete * OpusFrame + buffered' = all /\ audioOut' = audioOut + complete
    BY <2>2, <2>4 DEF complete
  <2>6. /\ audioHeard'.normalized = audioHeard.normalized + n /\ audioHeard'.lone = (audioHeard.lone \/ n = 1)
        /\ audioHeard' \in [captured : 0 .. MaxHeard, normalized : Nat, lone : BOOLEAN]
    <3>1. audioHeard.normalized + n \in Nat /\ (audioHeard.lone \/ n = 1) \in BOOLEAN
      BY <1>0, <1>1
    <3> QED BY <1>0, <1>6, <3>1
  <2>7. AudioTypeOK'
    <3>1. audioOut' \in Nat
      BY <1>0, <2>5
    <3>2. remainder' \in 0 .. (probed.rate - 1)'
      BY <1>2, <2>1, <2>2
    <3> QED BY <1>2, <1>3, <2>5, <2>6, <3>1, <3>2 DEF AudioInv, AudioTypeOK
  <2>8. ASSUME ~audioHeard'.lone
        PROVE  (audioOut' * OpusFrame + buffered') * probed.rate + remainder'
                  = audioHeard'.normalized * OpusRate
    <3>0. n # 1 /\ ~audioHeard.lone
      BY <2>6, <2>8
    <3> DEFINE rate == probed.rate
    <3> DEFINE sofar == audioOut * OpusFrame + buffered
    <3>1. audioOut' * OpusFrame + buffered' = sofar + frames
      <4> DEFINE x == audioOut * OpusFrame
      <4> DEFINE y == complete * OpusFrame
      <4>1. x \in Nat /\ y \in Nat
        BY <1>0, <2>5
      <4>2. audioOut' * OpusFrame = x + y
        BY <1>0, <2>5
      <4> HIDE DEF x, y
      <4>3. y + buffered' = buffered + frames
        BY <2>5 DEF y, all
      <4>4. (x + y) + buffered' = (x + buffered) + frames
        <5> DEFINE b1 == buffered
        <5> DEFINE b2 == buffered'
        <5> HIDE DEF b1, b2
        <5>1. b1 \in Nat /\ b2 \in Nat /\ x \in Nat /\ y \in Nat /\ frames \in Nat
          BY <1>0, <2>3, <2>5, <4>1 DEF b1, b2
        <5>2. y + b2 = b1 + frames
          BY <4>3 DEF b1, b2
        <5>3. (x + y) + b2 = (x + b1) + frames
          BY <5>1, <5>2
        <5> QED BY <5>3 DEF b1, b2
      <4> QED BY <4>2, <4>4 DEF x
    <3>2. sofar \in Nat
      <4>1. audioOut * OpusFrame \in Nat
        BY <1>0
      <4> QED BY <1>0, <4>1
    <3>3. sofar * rate + remainder = audioHeard.normalized * OpusRate
      BY <3>0 DEF AudioInv, PaceKept
    <3> HIDE DEF sofar, rate
    <3>4. (sofar + frames) * rate = sofar * rate + frames * rate
      BY <1>0, <2>3, <3>2 DEF rate
    <3>5. (audioHeard.normalized + n) * OpusRate = audioHeard.normalized * OpusRate + n * OpusRate
      BY <1>0, <1>1
    <3>6. frames * rate + remainder' = n * OpusRate + remainder
      BY <2>1, <2>2, <3>0 DEF rate, frames
    <3> DEFINE a == sofar * rate
    <3> DEFINE b == frames * rate
    <3> DEFINE p == audioHeard.normalized * OpusRate
    <3> DEFINE q == n * OpusRate
    <3>7. a \in Nat /\ b \in Nat /\ p \in Nat /\ q \in Nat /\ remainder \in Nat /\ remainder' \in Nat
      <4>1. audioHeard.normalized \in Nat /\ remainder \in Nat /\ remainder' \in Nat /\ rate \in Nat
        BY <1>0, <2>1, <2>2 DEF rate
      <4> QED BY <1>0, <1>1, <2>3, <3>2, <4>1
    <3> HIDE DEF a, b, p, q
    <3>8. a + remainder = p /\ b + remainder' = q + remainder
      BY <3>3, <3>6 DEF a, b, p, q
    <3>9. (a + b) + remainder' = p + q
      <4> DEFINE c1 == remainder
      <4> DEFINE c2 == remainder'
      <4> HIDE DEF c1, c2
      <4>1. a \in Nat /\ b \in Nat /\ c1 \in Nat /\ c2 \in Nat /\ q \in Nat
        BY <3>7 DEF c1, c2
      <4>2. p = a + c1 /\ b + c2 = q + c1
        BY <3>8 DEF c1, c2
      <4>3. (a + b) + c2 = (a + c1) + q
        BY <4>1, <4>2
      <4> QED BY <4>2, <4>3 DEF c2
    <3>10. (sofar + frames) * rate = a + b /\ (audioHeard.normalized + n) * OpusRate = p + q
      BY <3>4, <3>5 DEF a, b, p, q
    <3>11. audioHeard'.normalized = audioHeard.normalized + n
      BY <2>6
    <3> QED BY <3>1, <3>9, <3>10, <3>11 DEF rate
  <2>9. PaceKept'
    BY <1>2, <2>8 DEF PaceKept
  <2> QED BY <1>4, <2>7, <2>9 DEF AudioInv
<1> QED BY <1>5, <1>6 DEF EncodePacket, n

(* AudioInv holds in every reachable state.                                  *)
LEMMA AudioInvariant == AudioSpec => []AudioInv
<1>1. AudioInit => AudioInv
  <2> SUFFICES ASSUME AudioInit PROVE AudioInv
    OBVIOUS
  <2>0. probed \in DeviceFormats /\ probed.rate \in Nat \ {0} /\ OpusRate \in Nat \ {0} /\ OpusFrame \in Nat \ {0}
        /\ MaxHeard \in Nat /\ PcmCapacity \in Nat
    BY AudioBounds DEF AudioInit
  <2>1. AudioTypeOK
    <3>1. remainder \in 0 .. probed.rate - 1 /\ buffered \in 0 .. OpusFrame - 1 /\ audioOut \in Nat
      BY <2>0 DEF AudioInit
    <3>2. audioHeard \in [captured : 0 .. MaxHeard, normalized : Nat, lone : BOOLEAN]
      <4>1. 0 \in 0 .. MaxHeard /\ 0 \in Nat /\ FALSE \in BOOLEAN
        BY <2>0
      <4> QED BY <4>1 DEF AudioInit
    <3>3. pcm \in Seq(PacketFrames) /\ Len(pcm) <= PcmCapacity
      BY <2>0 DEF AudioInit
    <3> QED BY <2>0, <3>1, <3>2, <3>3 DEF AudioInit, AudioTypeOK
  <2>2. PaceKept
    <3>1. 0 * OpusFrame = 0 /\ 0 * probed.rate = 0 /\ 0 * OpusRate = 0
      BY <2>0
    <3>2. audioOut = 0 /\ buffered = 0 /\ remainder = 0 /\ audioHeard.normalized = 0
      BY DEF AudioInit
    <3> QED BY <3>1, <3>2 DEF PaceKept
  <2>3. SendsPacket
    BY DEF AudioInit, SendsPacket
  <2> QED BY <2>1, <2>2, <2>3 DEF AudioInv
<1>2. AudioInv /\ [AudioNext]_audioVars => AudioInv'
  <2> SUFFICES ASSUME AudioInv, [AudioNext]_audioVars PROVE AudioInv'
    OBVIOUS
  <2>0. AudioTypeOK /\ SendsPacket /\ PaceKept
    BY DEF AudioInv
  <2>1. CASE EncodePacket
    BY <2>1, EncodeKeeps
  <2>2. CASE UNCHANGED audioVars \/ AudioStart \/ OpenLoopback \/ CaptureLoop \/ DropAudio \/ StopAudio
    <3>1. AudioTypeOK'
      BY <2>0, <2>2 DEF AudioTypeOK, audioVars, AudioStart, OpenLoopback, CaptureLoop, DropAudio, StopAudio
    <3>2. SendsPacket'
      BY <2>0, <2>2 DEF SendsPacket, audioVars, AudioStart, OpenLoopback, CaptureLoop, DropAudio, StopAudio
    <3>3. UNCHANGED <<probed, remainder, buffered, audioOut, audioHeard>>
      BY <2>2 DEF audioVars, AudioStart, OpenLoopback, CaptureLoop, DropAudio, StopAudio
    <3> QED BY <2>0, <3>1, <3>2, <3>3, PaceUntouched DEF AudioInv
  <2>3. CASE ReadPacket
    <3>0. PacketFrames \subseteq Nat /\ MaxHeard \in Nat
      BY AudioBounds
    <3>1. AudioTypeOK'
      <4>1. CASE captureAt' \in {"outer", "ended"} /\ UNCHANGED <<held, audioHeard>>
        BY <2>0, <2>3, <4>1 DEF AudioTypeOK, ReadPacket
      <4>2. ASSUME NEW n \in PacketFrames, audioHeard.captured + n <= MaxHeard,
                   audioHeard' = [audioHeard EXCEPT !.captured = @ + n],
                   IF n > 0 THEN captureAt' = "sending" /\ held' = n ELSE UNCHANGED <<captureAt, held>>
            PROVE  AudioTypeOK'
        <5>1. audioHeard' \in [captured : 0 .. MaxHeard, normalized : Nat, lone : BOOLEAN]
          <6>1. audioHeard \in [captured : 0 .. MaxHeard, normalized : Nat, lone : BOOLEAN]
            BY <2>0 DEF AudioTypeOK
          <6>2. audioHeard.captured \in 0 .. MaxHeard /\ n \in Nat
            BY <3>0, <6>1
          <6>3. audioHeard.captured + n \in 0 .. MaxHeard
            BY <3>0, <4>2, <6>2
          <6> QED BY <4>2, <6>1, <6>3
        <5>2. held' \in PacketFrames \cup {0} /\ captureAt' \in {"none", "opening", "outer", "inner", "sending", "ended"}
          BY <2>0, <4>2 DEF AudioTypeOK
        <5> QED BY <2>0, <2>3, <5>1, <5>2 DEF AudioTypeOK, ReadPacket
      <4> QED BY <2>3, <4>1, <4>2 DEF ReadPacket
    <3>2. SendsPacket'
      BY <2>0, <2>3 DEF SendsPacket, ReadPacket
    <3>3. /\ UNCHANGED <<probed, remainder, buffered, audioOut>>
          /\ audioHeard'.lone = audioHeard.lone /\ audioHeard'.normalized = audioHeard.normalized
      BY <2>0, <2>3 DEF AudioTypeOK, ReadPacket
    <3> QED BY <2>0, <3>1, <3>2, <3>3, PaceUntouched DEF AudioInv
  <2>4. CASE SendPacket \/ EncodeEnds
    <3>0. PcmCapacity \in Nat /\ Len(pcm) \in Nat /\ pcm \in Seq(PacketFrames)
      BY <2>0, AudioBounds, LenProperties DEF AudioTypeOK
    <3>1. pcm' \in Seq(PacketFrames) /\ Len(pcm') <= PcmCapacity
      <4>1. CASE pcm' = pcm \/ pcm' = <<>>
        <5>1. Len(pcm) <= PcmCapacity
          BY <2>0 DEF AudioTypeOK
        <5>2. 0 <= PcmCapacity
          BY <3>0
        <5>3. Len(<<>>) = 0 /\ <<>> \in Seq(PacketFrames)
          OBVIOUS
        <5> QED BY <3>0, <4>1, <5>1, <5>2, <5>3
      <4>2. CASE SendPacket /\ pcm' = Append(pcm, held) /\ Len(pcm) < PcmCapacity
        <5>1. held \in PacketFrames
          BY <2>0, <4>2 DEF SendsPacket, SendPacket
        <5> QED BY <3>0, <4>2, <5>1, AppendProperties
      <4> QED BY <2>4, <4>1, <4>2 DEF SendPacket, EncodeEnds
    <3>2. AudioTypeOK'
      BY <2>0, <2>4, <3>1 DEF AudioTypeOK, SendPacket, EncodeEnds
    <3>3. SendsPacket'
      BY <2>0, <2>4 DEF SendsPacket, SendPacket, EncodeEnds
    <3>4. UNCHANGED <<probed, remainder, buffered, audioOut, audioHeard>>
      BY <2>4 DEF SendPacket, EncodeEnds
    <3> QED BY <2>0, <3>2, <3>3, <3>4, PaceUntouched DEF AudioInv
  <2> QED BY <2>1, <2>2, <2>3, <2>4 DEF AudioNext
<1> QED BY <1>1, <1>2, PTL DEF AudioSpec

(* The variables keep their types: the channel holds no more packets than    *)
(* its capacity, the normalizer less than an Opus frame, and less is carried *)
(* over than makes a frame.                                                  *)
THEOREM AudioTyped == AudioSpec => []AudioTypeOK
<1>1. AudioInv => AudioTypeOK
  BY DEF AudioInv
<1> QED BY <1>1, AudioInvariant, PTL

(* At every rate a device may have, and for every way Windows cuts the sound *)
(* into packets: what is written is what was captured, rounded down once,    *)
(* and no frame is read past its packet.                                     *)
THEOREM AudioPaceKept == AudioSpec => []AudioKeepsPace
<1>1. ASSUME AudioInv PROVE AudioKeepsPace
  <2>0. /\ pcm \in Seq(PacketFrames) /\ probed \in DeviceFormats
        /\ OpusRate \in Nat \ {0} /\ OpusFrame \in Nat \ {0} /\ probed.rate \in Nat \ {0}
        /\ PacketFrames \subseteq Nat /\ remainder \in 0 .. probed.rate - 1
        /\ buffered \in 0 .. OpusFrame - 1 /\ audioOut \in Nat /\ audioHeard.normalized \in Nat
    BY <1>1, AudioBounds DEF AudioInv, AudioTypeOK
  <2>1. ASSUME ~audioHeard.lone
        PROVE  audioOut * OpusFrame + buffered = (audioHeard.normalized * OpusRate) \div probed.rate
    <3> DEFINE sofar == audioOut * OpusFrame + buffered
    <3> DEFINE whole == audioHeard.normalized * OpusRate
    <3> DEFINE rate == probed.rate
    <3>1. sofar * rate + remainder = whole
      BY <1>1, <2>1 DEF AudioInv, PaceKept
    <3>2. sofar \in Nat /\ whole \in Nat
      <4>1. audioOut * OpusFrame \in Nat
        BY <2>0
      <4> QED BY <2>0, <4>1
    <3> HIDE DEF sofar, whole
    <3>3. rate \in Nat \ {0} /\ remainder \in 0 .. rate - 1
      BY <2>0
    <3> HIDE DEF rate
    <3>4. rate * sofar \in Nat /\ rate * sofar = sofar * rate
      BY <3>2, <3>3
    <3>5. rate * sofar <= whole /\ whole < rate * sofar + rate
      <4> DEFINE m == rate * sofar
      <4> HIDE DEF m
      <4>1. m \in Nat /\ m + remainder = whole
        BY <3>1, <3>4 DEF m
      <4>2. m <= whole /\ whole < m + rate
        BY <3>2, <3>3, <4>1
      <4> QED BY <4>2 DEF m
    <3>6. whole \div rate = sofar
      BY <3>2, <3>3, <3>5
    <3> QED BY <3>6 DEF sofar, whole, rate
  <2>2. ASSUME pcm # <<>>
        PROVE  \A k \in 0 .. Resampled(Head(pcm), remainder).frames - 1 : SourceFrame(k) < Head(pcm)
    <3>1. Head(pcm) \in Nat
      BY <2>0, <2>2, HeadTailProperties
    <3> QED BY <2>0, <3>1, ResampledExactly
  <2> QED BY <2>1, <2>2 DEF AudioKeepsPace
<1> QED BY <1>1, AudioInvariant, PTL

-----------------------------------------------------------------------------
(* VideoEncoder                                                               *)

(* What the bounds are.                                                      *)
LEMMA EncoderConstants ==
    /\ FirstBitrate \in Bitrates /\ EncodedCapacity \in Nat \ {0}
    /\ MaxControls \in Nat /\ MaxEncFaults \in Nat
BY EncoderAssumption

(* The flags, and the variables that are not.                                *)
EncoderFlags ==
    nvenc \in BOOLEAN /\ encForce \in BOOLEAN /\ pendingKey \in BOOLEAN /\ recreateFailed \in BOOLEAN
EncoderFields ==
    /\ control \in [bitrate : Bitrates, keyframe : BOOLEAN]
    /\ controlAt \in {"idle", "bitrate", "backend", "keyframe", "force", "pend"}
    /\ encRate \in Bitrates
    /\ encodeStep \in [at : {"idle", "took", "loaded"}, key : BOOLEAN, rate : Bitrates \cup {0}]
    /\ backendRate \in [config : Bitrates, requested : Bitrates, actual : Bitrates]
    /\ mfInput \in [forced : BOOLEAN, held : {"nothing", "frame", "key frame"}]
    /\ encoded \in Seq(BOOLEAN) /\ Len(encoded) <= EncodedCapacity
    /\ writerAt \in {"running", "ended"}
    /\ keyRequest \in {"none", "owed", "sent", "lost", "untold"}
    /\ encBudget \in [controls : 0 .. MaxControls, faults : 0 .. MaxEncFaults]

(* The type is that of both.                                                 *)
LEMMA EncoderTypeIs == EncoderTypeOK <=> EncoderFlags /\ EncoderFields
BY Zenon DEF EncoderTypeOK, EncoderFlags, EncoderFields

(* The same of the next state.                                               *)
LEMMA EncoderTypeIsNext == EncoderTypeOK' <=> EncoderFlags' /\ EncoderFields'
BY Zenon DEF EncoderTypeOK, EncoderFlags, EncoderFields

(* A fault is counted within its bound.                                      *)
LEMMA EncFaultTyped ==
    ASSUME EncoderTypeOK, EncFault \/ UNCHANGED encBudget
    PROVE  encBudget' \in [controls : 0 .. MaxControls, faults : 0 .. MaxEncFaults]
<1>0. /\ encBudget \in [controls : 0 .. MaxControls, faults : 0 .. MaxEncFaults]
      /\ encBudget.faults \in 0 .. MaxEncFaults /\ MaxEncFaults \in Nat
  BY EncoderConstants DEF EncoderTypeOK
<1>1. CASE EncFault
  <2>1. encBudget.faults + 1 \in 0 .. MaxEncFaults
    BY <1>0, <1>1 DEF EncFault
  <2> QED BY <1>0, <1>1, <2>1 DEF EncFault
<1> QED BY <1>0, <1>1

(* The channel takes a frame when there is room for it; what came of a key   *)
(* frame is the answer of a request that is owed.                            *)
LEMMA EmitTyped ==
    ASSUME EncoderTypeOK, NEW key \in BOOLEAN, NEW otherwise \in {"owed", "untold"},
           Emit(key, otherwise) \/ KeyGone(key, otherwise) \/ NothingOut
    PROVE  /\ encoded' \in Seq(BOOLEAN) /\ Len(encoded') <= EncodedCapacity
           /\ keyRequest' \in {"none", "owed", "sent", "lost", "untold"}
           /\ keyRequest' = "owed" => keyRequest = "owed"
<1>0. /\ encoded \in Seq(BOOLEAN) /\ Len(encoded) <= EncodedCapacity /\ Len(encoded) \in Nat
      /\ EncodedCapacity \in Nat /\ keyRequest \in {"none", "owed", "sent", "lost", "untold"}
  BY EncoderConstants, LenProperties DEF EncoderTypeOK
<1>1. /\ keyRequest' \in {keyRequest, "sent", "lost", "owed", "untold"}
      /\ keyRequest # "owed" => keyRequest' = keyRequest
  BY DEF Emit, KeyGone, NothingOut, Answer
<1>2. encoded' = encoded \/ (Len(encoded) < EncodedCapacity /\ encoded' = Append(encoded, key))
  BY DEF Emit, KeyGone, NothingOut
<1>3. CASE encoded' = encoded
  BY <1>0, <1>1, <1>3
<1>4. CASE Len(encoded) < EncodedCapacity /\ encoded' = Append(encoded, key)
  <2>1. Append(encoded, key) \in Seq(BOOLEAN) /\ Len(Append(encoded, key)) = Len(encoded) + 1
    BY <1>0, AppendProperties
  <2> QED BY <1>0, <1>1, <1>4, <2>1
<1> QED BY <1>2, <1>3, <1>4

(* A key frame that comes out, or that is gone, leaves no request owed, nor  *)
(* does a frame for which the transform was not told of it.                  *)
LEMMA KeyAnswers ==
    ASSUME NEW key, NEW otherwise, key = TRUE \/ otherwise = "untold",
           Emit(key, otherwise) \/ KeyGone(key, otherwise)
    PROVE  keyRequest' # "owed"
BY DEF Emit, KeyGone, Answer

(* The rates of the backend stay among those that were asked for.            *)
LEMMA RateTyped ==
    ASSUME EncoderTypeOK, NEW b \in Bitrates
    PROVE  /\ Reconfigured(b) \in [config : Bitrates, requested : Bitrates, actual : Bitrates]
           /\ [Reconfigured(b) EXCEPT !.actual = backendRate.actual]
                 \in [config : Bitrates, requested : Bitrates, actual : Bitrates]
           /\ [backendRate EXCEPT !.requested = b]
                 \in [config : Bitrates, requested : Bitrates, actual : Bitrates]
BY DEF EncoderTypeOK, Reconfigured

(* The session's task changes what it hands over, never what was encoded.    *)
LEMMA ControlTyped ==
    ASSUME EncoderTypeOK,
           \/ ReceiveControl \/ StoreBitrate \/ SetBackendBitrate
           \/ TakeKeyframeRequest \/ ForceKeyframe \/ PendKeyframe
    PROVE  EncoderTypeOK'
<1>0. /\ control \in [bitrate : Bitrates, keyframe : BOOLEAN] /\ control.bitrate \in Bitrates
      /\ encBudget \in [controls : 0 .. MaxControls, faults : 0 .. MaxEncFaults]
      /\ encBudget.controls \in 0 .. MaxControls /\ MaxControls \in Nat
      /\ backendRate \in [config : Bitrates, requested : Bitrates, actual : Bitrates]
      /\ EncoderFlags /\ EncoderFields
  BY EncoderConstants, EncoderTypeIs DEF EncoderTypeOK
<1>1. CASE ReceiveControl
  <2>1. encBudget' \in [controls : 0 .. MaxControls, faults : 0 .. MaxEncFaults]
    <3>1. encBudget.controls + 1 \in 0 .. MaxControls /\ encBudget' = [encBudget EXCEPT !.controls = @ + 1]
      BY <1>0, <1>1 DEF ReceiveControl
    <3> QED BY <1>0, <3>1
  <2>2. control' \in [bitrate : Bitrates, keyframe : BOOLEAN] /\ keyRequest' \in {keyRequest, "owed"}
    BY <1>0, <1>1 DEF ReceiveControl
  <2>3. /\ controlAt' = "bitrate"
        /\ UNCHANGED <<nvenc, encRate, encForce, encodeStep, backendRate, pendingKey, mfInput, encoded,
                       writerAt, recreateFailed>>
    BY <1>1 DEF ReceiveControl
  <2>4. EncoderFlags'
    BY <1>0, <2>3, Zenon DEF EncoderFlags
  <2>5. EncoderFields'
    BY <1>0, <2>1, <2>2, <2>3 DEF EncoderFields
  <2> QED BY <2>4, <2>5, EncoderTypeIsNext
<1>2. CASE StoreBitrate
  <2>1. EncoderFlags'
    BY <1>0, <1>2, Zenon DEF StoreBitrate, EncoderFlags
  <2>2. EncoderFields'
    BY <1>0, <1>2 DEF StoreBitrate, EncoderFields
  <2> QED BY <2>1, <2>2, EncoderTypeIsNext
<1>3. CASE SetBackendBitrate
  <2>1. encBudget' \in [controls : 0 .. MaxControls, faults : 0 .. MaxEncFaults]
    BY <1>3, EncFaultTyped DEF SetBackendBitrate
  <2>2. backendRate' \in [config : Bitrates, requested : Bitrates, actual : Bitrates]
    BY <1>0, <1>3, RateTyped DEF SetBackendBitrate, AfterRefusal
  <2>3. controlAt' \in {"idle", "keyframe"}
    BY <1>3 DEF SetBackendBitrate
  <2>4. pendingKey' \in BOOLEAN
    BY <1>3, Zenon DEF SetBackendBitrate, EncoderTypeOK
  <2>5. UNCHANGED <<nvenc, control, encRate, encForce, encodeStep, mfInput, encoded, writerAt,
                    keyRequest, recreateFailed>>
    BY <1>3 DEF SetBackendBitrate
  <2>6. EncoderFlags'
    BY <1>0, <2>4, <2>5, Zenon DEF EncoderFlags
  <2>7. EncoderFields'
    BY <1>0, <2>1, <2>2, <2>3, <2>5 DEF EncoderFields
  <2> QED BY <2>6, <2>7, EncoderTypeIsNext
<1>4. CASE TakeKeyframeRequest
  <2>1. EncoderFlags'
    BY <1>0, <1>4, Zenon DEF TakeKeyframeRequest, EncoderFlags
  <2>2. EncoderFields'
    BY <1>0, <1>4 DEF TakeKeyframeRequest, EncoderFields
  <2> QED BY <2>1, <2>2, EncoderTypeIsNext
<1>5. CASE ForceKeyframe
  <2>1. EncoderFlags'
    BY <1>0, <1>5, Zenon DEF ForceKeyframe, EncoderFlags
  <2>2. EncoderFields'
    BY <1>0, <1>5 DEF ForceKeyframe, EncoderFields
  <2> QED BY <2>1, <2>2, EncoderTypeIsNext
<1>6. CASE PendKeyframe
  <2>1. EncoderFlags'
    BY <1>0, <1>6, Zenon DEF PendKeyframe, EncoderFlags
  <2>2. EncoderFields'
    BY <1>0, <1>6 DEF PendKeyframe, EncoderFields
  <2> QED BY <2>1, <2>2, EncoderTypeIsNext
<1> QED BY <1>1, <1>2, <1>3, <1>4, <1>5, <1>6

(* What a frame leaves in the backend: a key frame that was wanted is still  *)
(* pending, was told to the transform or is held by it, or is answered.      *)
Carried == pendingKey \/ (~nvenc /\ (mfInput.forced \/ mfInput.held = "key frame"))
FrameFields ==
    /\ backendRate \in [config : Bitrates, requested : Bitrates, actual : Bitrates]
    /\ pendingKey \in BOOLEAN
    /\ mfInput \in [forced : BOOLEAN, held : {"nothing", "frame", "key frame"}]
    /\ encoded \in Seq(BOOLEAN) /\ Len(encoded) <= EncodedCapacity
    /\ keyRequest \in {"none", "owed", "sent", "lost", "untold"}
    /\ recreateFailed \in BOOLEAN
    /\ encBudget \in [controls : 0 .. MaxControls, faults : 0 .. MaxEncFaults]

(* NVENC keeps the request until a frame comes out of it, or nothing does.   *)
LEMMA NvencKeeps ==
    ASSUME EncoderTypeOK, nvenc, encodeStep.rate \in Bitrates, NvencEncode, UNCHANGED <<mfInput, recreateFailed>>
    PROVE  /\ FrameFields'
           /\ keyRequest' = "owed" => keyRequest = "owed"
           /\ keyRequest' = "owed" /\ pendingKey => pendingKey'
<1> DEFINE b == encodeStep.rate
<1> DEFINE reconfigures == b # backendRate.requested /\ AsksDriver(b)
<1> DEFINE rate == IF b = backendRate.requested THEN backendRate ELSE Reconfigured(b)
<1> DEFINE pending == pendingKey \/ reconfigures
<1> DEFINE key == encodeStep.key \/ pending
<1>0. /\ backendRate \in [config : Bitrates, requested : Bitrates, actual : Bitrates]
      /\ pendingKey \in BOOLEAN /\ encodeStep.key \in BOOLEAN /\ b \in Bitrates
  BY DEF EncoderTypeOK
<1>1. rate \in [config : Bitrates, requested : Bitrates, actual : Bitrates]
  BY <1>0, RateTyped
<1>2. pending \in BOOLEAN /\ key \in BOOLEAN /\ (pendingKey => pending /\ key)
  BY <1>0, Zenon
<1>3. \/ pendingKey' = pendingKey /\ NothingOut /\ backendRate' = backendRate /\ EncFault
      \/ pendingKey' = pendingKey /\ NothingOut /\ backendRate' = backendRate /\ EncFault
      \/ pendingKey' = pending /\ NothingOut /\ backendRate' = rate /\ EncFault
      \/ pendingKey' = FALSE /\ KeyGone(key, "owed") /\ backendRate' = rate /\ EncFault
      \/ pendingKey' = FALSE /\ Emit(key, "owed") /\ backendRate' = rate /\ UNCHANGED encBudget
  BY DEF NvencEncode, StillPending, AfterRefusal
<1> HIDE DEF b, rate, pending, key
<1>4. backendRate' \in [config : Bitrates, requested : Bitrates, actual : Bitrates]
  BY <1>0, <1>1, <1>3
<1>5. pendingKey' \in BOOLEAN
  BY <1>0, <1>2, <1>3, Zenon
<1>6. Emit(key, "owed") \/ KeyGone(key, "owed") \/ NothingOut
  BY <1>3
<1>7. /\ encoded' \in Seq(BOOLEAN) /\ Len(encoded') <= EncodedCapacity
      /\ keyRequest' \in {"none", "owed", "sent", "lost", "untold"}
      /\ keyRequest' = "owed" => keyRequest = "owed"
  BY <1>2, <1>6, EmitTyped
<1>8. encBudget' \in [controls : 0 .. MaxControls, faults : 0 .. MaxEncFaults]
  BY <1>3, EncFaultTyped
<1>9. mfInput' \in [forced : BOOLEAN, held : {"nothing", "frame", "key frame"}] /\ recreateFailed' \in BOOLEAN
  BY DEF EncoderTypeOK
<1>10. ASSUME keyRequest' = "owed", pendingKey PROVE pendingKey'
  <2>1. key = TRUE /\ pending = TRUE
    BY <1>2, <1>10, Zenon
  <2>2. ~Emit(key, "owed") /\ ~KeyGone(key, "owed")
    BY <1>10, <2>1, KeyAnswers
  <2> QED BY <1>3, <1>10, <2>1, <2>2, Zenon
<1> QED BY <1>4, <1>5, <1>7, <1>8, <1>9, <1>10 DEF FrameFields

(* The transform gives out what it holds, or keeps the frame that was forced. *)
LEMMA DrainedKeeps ==
    ASSUME EncoderTypeOK, NEW input \in [forced : BOOLEAN, held : {"nothing", "frame", "key frame"}],
           NEW forced \in BOOLEAN, NEW otherwise \in {"owed", "untold"}, Drained(input, forced, otherwise)
    PROVE  /\ mfInput' \in [forced : BOOLEAN, held : {"nothing", "frame", "key frame"}]
           /\ encoded' \in Seq(BOOLEAN) /\ Len(encoded') <= EncodedCapacity
           /\ keyRequest' \in {"none", "owed", "sent", "lost", "untold"}
           /\ keyRequest' = "owed" => keyRequest = "owed" /\ otherwise # "untold"
           /\ keyRequest' = "owed" /\ (forced \/ input.held = "key frame") => mfInput'.held = "key frame"
<1> DEFINE this == IF forced THEN "key frame" ELSE "frame"
<1> DEFINE keyHeld == input.held = "key frame"
<1> DEFINE either == forced \/ keyHeld
<1>1. keyHeld \in BOOLEAN /\ either \in BOOLEAN /\ this \in {"frame", "key frame"}
  BY Zenon
<1>2. \/ Emit(either, otherwise) /\ mfInput' = [forced |-> FALSE, held |-> "nothing"]
      \/ Emit(keyHeld, otherwise) /\ mfInput' = [forced |-> FALSE, held |-> this]
      \/ input.held = "nothing" /\ KeyGone(FALSE, otherwise) /\ mfInput' = [forced |-> FALSE, held |-> this]
  BY DEF Drained
<1>3. mfInput' \in [forced : BOOLEAN, held : {"nothing", "frame", "key frame"}]
  <2> HIDE DEF this, keyHeld, either
  <2>1. PICK h \in {"nothing", "frame", "key frame"} : mfInput' = [forced |-> FALSE, held |-> h]
    BY <1>1, <1>2
  <2>2. [forced |-> FALSE, held |-> h] \in [forced : BOOLEAN, held : {"nothing", "frame", "key frame"}]
    OBVIOUS
  <2> QED BY <2>1, <2>2
<1>4. /\ encoded' \in Seq(BOOLEAN) /\ Len(encoded') <= EncodedCapacity
      /\ keyRequest' \in {"none", "owed", "sent", "lost", "untold"}
      /\ keyRequest' = "owed" => keyRequest = "owed"
  <2> HIDE DEF this, keyHeld, either
  <2>1. FALSE \in BOOLEAN
    OBVIOUS
  <2> QED BY <1>1, <1>2, <2>1, EmitTyped
<1>6. keyRequest' = "owed" => otherwise # "untold"
  <2> HIDE DEF this, keyHeld, either
  <2> QED BY <1>2, KeyAnswers
<1>5. ASSUME keyRequest' = "owed", either PROVE mfInput'.held = "key frame"
  <2>1. ~Emit(TRUE, otherwise)
    BY <1>5, KeyAnswers
  <2>2. either = TRUE
    BY <1>5, Zenon
  <2>3. CASE Emit(keyHeld, otherwise) /\ mfInput' = [forced |-> FALSE, held |-> this]
    <3>1. keyHeld # TRUE
      BY <2>1, <2>3, Zenon
    <3>2. forced
      BY <1>5, <3>1, Zenon
    <3> QED BY <2>3, <3>2
  <2>4. CASE input.held = "nothing" /\ KeyGone(FALSE, otherwise) /\ mfInput' = [forced |-> FALSE, held |-> this]
    <3>1. forced
      BY <1>5, <2>4
    <3> QED BY <2>4, <3>1
  <2>5. ~Emit(either, otherwise)
    BY <2>1, <2>2, Zenon
  <2> HIDE DEF either, keyHeld, this
  <2> QED BY <1>2, <2>3, <2>4, <2>5
<1> QED BY <1>3, <1>4, <1>5, <1>6

(* The frame that is fed: a request stays owed when the transform was told   *)
(* of it, or holds a key frame, or when it is yet to reach the backend.      *)
LEMMA FeedKeeps ==
    ASSUME EncoderTypeOK, NEW input \in [forced : BOOLEAN, held : {"nothing", "frame", "key frame"}],
           NEW key \in BOOLEAN, MfFeed(input, key)
    PROVE  /\ pendingKey' = FALSE /\ (EncFault \/ UNCHANGED encBudget)
           /\ mfInput' \in [forced : BOOLEAN, held : {"nothing", "frame", "key frame"}]
           /\ encoded' \in Seq(BOOLEAN) /\ Len(encoded') <= EncodedCapacity
           /\ keyRequest' \in {"none", "owed", "sent", "lost", "untold"}
           /\ keyRequest' = "owed" => keyRequest = "owed"
           /\ keyRequest' = "owed" /\ (key \/ input.forced \/ input.held = "key frame") =>
                 mfInput'.forced \/ mfInput'.held = "key frame" \/ HandingOver
<1> DEFINE keyHeld == input.held = "key frame"
<1> DEFINE Fed(forced, otherwise) ==
      /\ pendingKey' = FALSE
      /\ \/ /\ EncFault
            /\ mfInput' = [input EXCEPT !.forced = forced]
            /\ KeyGone(FALSE, otherwise)
         \/ /\ EncFault
            /\ mfInput' = [forced |-> FALSE, held |-> "nothing"]
            /\ KeyGone(forced \/ keyHeld, otherwise)
         \/ /\ Drained(input, forced, otherwise)
            /\ UNCHANGED encBudget
<1>1. PICK forced \in BOOLEAN, otherwise \in {"owed", "untold"} :
         /\ Fed(forced, otherwise)
         /\ input.forced => forced
         /\ otherwise = "owed" => (key => forced \/ keyHeld \/ HandingOver)
  <2>1. PICK told \in BOOLEAN :
           Fed(told \/ input.forced,
               IF key /\ ~(told \/ input.forced) /\ input.held # "key frame" /\ ~HandingOver THEN "untold" ELSE "owed")
    BY Zenon DEF MfFeed
  <2> DEFINE f == told \/ input.forced
  <2> DEFINE o == IF key /\ ~f /\ input.held # "key frame" /\ ~HandingOver THEN "untold" ELSE "owed"
  <2>2. f \in BOOLEAN /\ (input.forced => f)
    BY Zenon
  <2>3. o \in {"owed", "untold"} /\ (o = "owed" => (key => f \/ keyHeld \/ HandingOver))
    OBVIOUS
  <2>4. Fed(f, o)
    BY <2>1, Zenon
  <2> HIDE DEF f, o, Fed
  <2> QED BY <2>2, <2>3, <2>4, Zenon
<1> DEFINE three == forced \/ keyHeld
<1>2. keyHeld \in BOOLEAN /\ three \in BOOLEAN /\ FALSE \in BOOLEAN
  BY Zenon
<1>3. \/ EncFault /\ mfInput' = [input EXCEPT !.forced = forced] /\ KeyGone(FALSE, otherwise)
      \/ EncFault /\ mfInput' = [forced |-> FALSE, held |-> "nothing"] /\ KeyGone(three, otherwise)
      \/ UNCHANGED encBudget /\ Drained(input, forced, otherwise)
  BY <1>1, Zenon
<1>4. pendingKey' = FALSE
  BY <1>1
<1>5. /\ [input EXCEPT !.forced = forced] \in [forced : BOOLEAN, held : {"nothing", "frame", "key frame"}]
      /\ [input EXCEPT !.forced = forced].forced = forced
      /\ [input EXCEPT !.forced = forced].held = input.held
      /\ [forced |-> FALSE, held |-> "nothing"] \in [forced : BOOLEAN, held : {"nothing", "frame", "key frame"}]
  OBVIOUS
<1> DEFINE rest == /\ mfInput' \in [forced : BOOLEAN, held : {"nothing", "frame", "key frame"}]
                   /\ encoded' \in Seq(BOOLEAN) /\ Len(encoded') <= EncodedCapacity
                   /\ keyRequest' \in {"none", "owed", "sent", "lost", "untold"}
                   /\ keyRequest' = "owed" => keyRequest = "owed" /\ otherwise # "untold"
<1> DEFINE carried == keyRequest' = "owed" /\ three => mfInput'.forced \/ mfInput'.held = "key frame"
<1>6. ASSUME mfInput' = [input EXCEPT !.forced = forced], KeyGone(FALSE, otherwise) PROVE rest /\ carried
  <2>1. rest
    BY <1>2, <1>5, <1>6, EmitTyped, KeyAnswers
  <2>2. mfInput'.forced = forced /\ mfInput'.held = input.held
    BY <1>5, <1>6
  <2>3. carried
    BY <2>2, Zenon
  <2> HIDE DEF rest, carried
  <2> QED BY <2>1, <2>3
<1>7. ASSUME mfInput' = [forced |-> FALSE, held |-> "nothing"], KeyGone(three, otherwise) PROVE rest /\ carried
  <2>1. rest
    <3>1. KeyGone(three, otherwise)
      BY <1>7
    <3> HIDE DEF three
    <3> QED BY <1>2, <1>5, <1>7, <3>1, EmitTyped, KeyAnswers
  <2>2. carried
    <3> SUFFICES ASSUME keyRequest' = "owed", three PROVE FALSE
      OBVIOUS
    <3>1. three = TRUE
      BY <1>2, Zenon
    <3>2. KeyGone(TRUE, otherwise)
      BY <1>7, <3>1, Zenon
    <3> QED BY <3>2, KeyAnswers
  <2> HIDE DEF rest, carried
  <2> QED BY <2>1, <2>2
<1>8. ASSUME Drained(input, forced, otherwise) PROVE rest /\ carried
  <2>1. /\ rest
        /\ keyRequest' = "owed" /\ (forced \/ input.held = "key frame") => mfInput'.held = "key frame"
    BY <1>8, DrainedKeeps
  <2>2. carried
    BY <2>1, Zenon
  <2> HIDE DEF rest, carried
  <2> QED BY <2>1, <2>2
<1>9. rest /\ carried
  <2> HIDE DEF rest, carried, three
  <2> QED BY <1>3, <1>6, <1>7, <1>8
<1>10. keyRequest' = "owed" => otherwise = "owed"
  BY <1>9
<1>11. keyRequest' = "owed" /\ (key \/ input.forced \/ keyHeld) =>
          mfInput'.forced \/ mfInput'.held = "key frame" \/ HandingOver
  <2> SUFFICES ASSUME keyRequest' = "owed", key \/ input.forced \/ keyHeld
               PROVE  mfInput'.forced \/ mfInput'.held = "key frame" \/ HandingOver
    OBVIOUS
  <2>1. three \/ HandingOver
    BY <1>1, <1>10, Zenon
  <2> QED BY <1>9, <2>1, Zenon
<1>12. EncFault \/ UNCHANGED encBudget
  BY <1>3, Zenon
<1> HIDE DEF carried
<1> QED BY <1>4, <1>9, <1>11, <1>12, Zenon DEF rest, keyHeld

(* Media Foundation keeps the request until the transform was told, or could *)
(* not be, and the transform keeps it until a key frame comes out, or is gone. *)
LEMMA MfKeeps ==
    ASSUME EncoderTypeOK, ~nvenc, encodeStep.rate \in Bitrates, MfEncode
    PROVE  /\ FrameFields'
           /\ keyRequest' = "owed" => keyRequest = "owed"
           /\ keyRequest' = "owed" /\ (pendingKey \/ mfInput.forced \/ mfInput.held = "key frame") =>
                 pendingKey' \/ mfInput'.forced \/ mfInput'.held = "key frame" \/ HandingOver
<1> DEFINE b == encodeStep.rate
<1> DEFINE recreates == b # backendRate.config
<1> DEFINE rate == Reconfigured(b)
<1> DEFINE key == encodeStep.key \/ pendingKey
<1> DEFINE one == mfInput.held = "key frame" \/ mfInput.forced
<1>0. /\ backendRate \in [config : Bitrates, requested : Bitrates, actual : Bitrates]
      /\ mfInput \in [forced : BOOLEAN, held : {"nothing", "frame", "key frame"}]
      /\ pendingKey \in BOOLEAN /\ encodeStep.key \in BOOLEAN /\ b \in Bitrates
      /\ mfInput.forced \in BOOLEAN /\ recreateFailed \in BOOLEAN
      /\ mfInput.held \in {"nothing", "frame", "key frame"}
  BY DEF EncoderTypeOK
<1>1. /\ rate \in [config : Bitrates, requested : Bitrates, actual : Bitrates]
      /\ [rate EXCEPT !.actual = backendRate.actual] \in [config : Bitrates, requested : Bitrates, actual : Bitrates]
  BY <1>0, RateTyped
<1>2. recreates \in BOOLEAN /\ key \in BOOLEAN /\ one \in BOOLEAN
  BY <1>0, Zenon
<1>4. \/ /\ EncFault /\ NothingOut /\ UNCHANGED <<backendRate, pendingKey, mfInput, recreateFailed>>
      \/ /\ EncFault /\ recreateFailed' = TRUE /\ UNCHANGED pendingKey
         /\ backendRate' = [rate EXCEPT !.actual = backendRate.actual]
         /\ KeyGone(one, "owed")
         /\ mfInput' = [forced |-> FALSE, held |-> "nothing"]
      \/ /\ backendRate' = [rate EXCEPT !.actual = IF recreates THEN b ELSE backendRate.actual]
         /\ UNCHANGED recreateFailed
         /\ \/ MfFeed(FreshTransform, TRUE)
            \/ MfFeed(mfInput, key)
  BY DEF MfEncode
<1>5. FreshTransform \in [forced : BOOLEAN, held : {"nothing", "frame", "key frame"}] /\ FreshTransform.forced = TRUE
  BY DEF FreshTransform
<1>6. [forced |-> FALSE, held |-> "nothing"] \in [forced : BOOLEAN, held : {"nothing", "frame", "key frame"}]
  OBVIOUS
<1>8. [rate EXCEPT !.actual = IF recreates THEN b ELSE backendRate.actual]
         \in [config : Bitrates, requested : Bitrates, actual : Bitrates]
  BY <1>0 DEF Reconfigured
<1>11. CASE EncFault /\ NothingOut /\ UNCHANGED <<backendRate, pendingKey, mfInput, recreateFailed>>
  <2>1. /\ encoded' \in Seq(BOOLEAN) /\ Len(encoded') <= EncodedCapacity
        /\ keyRequest' \in {"none", "owed", "sent", "lost", "untold"}
        /\ keyRequest' = "owed" => keyRequest = "owed"
    BY <1>2, <1>11, EmitTyped
  <2>2. pendingKey' \in BOOLEAN /\ recreateFailed' \in BOOLEAN
    BY <1>0, <1>11, Zenon
  <2>3. /\ backendRate' \in [config : Bitrates, requested : Bitrates, actual : Bitrates]
        /\ mfInput' \in [forced : BOOLEAN, held : {"nothing", "frame", "key frame"}]
    BY <1>0, <1>11
  <2>4. pendingKey \/ mfInput.forced \/ mfInput.held = "key frame" =>
           pendingKey' \/ mfInput'.forced \/ mfInput'.held = "key frame"
    BY <1>11, Zenon
  <2>5. encBudget' \in [controls : 0 .. MaxControls, faults : 0 .. MaxEncFaults]
    BY <1>11, EncFaultTyped
  <2> QED BY <2>1, <2>2, <2>3, <2>4, <2>5 DEF FrameFields
<1>12. CASE /\ EncFault /\ recreateFailed' = TRUE /\ UNCHANGED pendingKey
            /\ backendRate' = [rate EXCEPT !.actual = backendRate.actual]
            /\ KeyGone(one, "owed")
            /\ mfInput' = [forced |-> FALSE, held |-> "nothing"]
  <2>1. /\ encoded' \in Seq(BOOLEAN) /\ Len(encoded') <= EncodedCapacity
        /\ keyRequest' \in {"none", "owed", "sent", "lost", "untold"}
        /\ keyRequest' = "owed" => keyRequest = "owed"
    <3> HIDE DEF one
    <3> QED BY <1>2, <1>12, EmitTyped
  <2>2. pendingKey' \in BOOLEAN /\ recreateFailed' \in BOOLEAN
    BY <1>0, <1>12, Zenon
  <2>3. /\ backendRate' \in [config : Bitrates, requested : Bitrates, actual : Bitrates]
        /\ mfInput' \in [forced : BOOLEAN, held : {"nothing", "frame", "key frame"}]
    <3> HIDE DEF rate
    <3> QED BY <1>1, <1>6, <1>12
  <2>4. ASSUME keyRequest' = "owed", pendingKey \/ mfInput.forced \/ mfInput.held = "key frame" PROVE pendingKey'
    <3>1. one # TRUE
      <4>1. ~KeyGone(TRUE, "owed")
        BY <2>4, KeyAnswers
      <4> QED BY <1>12, <4>1, Zenon
    <3>2. pendingKey
      BY <2>4, <1>2, <3>1, Zenon
    <3> QED BY <1>12, <3>2, Zenon
  <2>5. encBudget' \in [controls : 0 .. MaxControls, faults : 0 .. MaxEncFaults]
    BY <1>12, EncFaultTyped
  <2> QED BY <2>1, <2>2, <2>3, <2>4, <2>5 DEF FrameFields
<1>13. CASE /\ backendRate' = [rate EXCEPT !.actual = IF recreates THEN b ELSE backendRate.actual]
            /\ UNCHANGED recreateFailed
            /\ \/ MfFeed(FreshTransform, TRUE)
               \/ MfFeed(mfInput, key)
  <2> DEFINE rest == /\ pendingKey' = FALSE /\ (EncFault \/ UNCHANGED encBudget)
                     /\ mfInput' \in [forced : BOOLEAN, held : {"nothing", "frame", "key frame"}]
                     /\ encoded' \in Seq(BOOLEAN) /\ Len(encoded') <= EncodedCapacity
                     /\ keyRequest' \in {"none", "owed", "sent", "lost", "untold"}
                     /\ keyRequest' = "owed" => keyRequest = "owed"
  <2> DEFINE outcome == mfInput'.forced \/ mfInput'.held = "key frame" \/ HandingOver
  <2>1. MfFeed(FreshTransform, TRUE) => rest /\ (keyRequest' = "owed" => outcome)
    BY <1>5, FeedKeeps
  <2>2. MfFeed(mfInput, key) =>
           rest /\ (keyRequest' = "owed" /\ (key \/ mfInput.forced \/ mfInput.held = "key frame") => outcome)
    <3> HIDE DEF key
    <3> QED BY <1>0, <1>2, FeedKeeps
  <2>3. rest
    <3> HIDE DEF rest, outcome, key
    <3> QED BY <1>13, <2>1, <2>2, Zenon
  <2>4. keyRequest' = "owed" /\ (pendingKey \/ mfInput.forced \/ mfInput.held = "key frame") => outcome
    <3>1. pendingKey => key
      OBVIOUS
    <3> HIDE DEF rest, outcome, key
    <3> QED BY <1>13, <2>1, <2>2, <3>1, Zenon
  <2>5. encBudget' \in [controls : 0 .. MaxControls, faults : 0 .. MaxEncFaults]
    BY <2>3, EncFaultTyped
  <2>6. pendingKey' \in BOOLEAN /\ recreateFailed' \in BOOLEAN
    BY <1>0, <1>13, <2>3, Zenon
  <2>7. backendRate' \in [config : Bitrates, requested : Bitrates, actual : Bitrates]
    BY <1>8, <1>13
  <2>8. FrameFields'
    BY <2>3, <2>5, <2>6, <2>7 DEF FrameFields
  <2> QED BY <2>3, <2>4, <2>8, Zenon
<1> QED BY <1>4, <1>11, <1>12, <1>13

(* The inductive invariant: a rate was loaded before a frame is encoded, and *)
(* a request that is being handed over comes with the encoder's bitrate, so  *)
(* that no backend refuses it.                                               *)
RateLoaded == encodeStep.at = "loaded" => encodeStep.rate \in Bitrates
HandedOver ==
    /\ controlAt # "bitrate" => encRate = control.bitrate
    /\ control.keyframe => encRate = control.bitrate /\ controlAt \in {"bitrate", "keyframe"}
EncoderInv == EncoderTypeOK /\ RateLoaded /\ HandedOver /\ KeyRequestCarried

(* What is handed over, and what the backend or the transform has.           *)
Handing ==
    \/ /\ control.keyframe
       /\ \/ controlAt = "bitrate" /\ control.bitrate = encRate
          \/ controlAt = "keyframe"
    \/ controlAt \in {"force", "pend"}

(* A request that is owed is handed over or carried.                         *)
LEMMA CarriedIs == KeyRequestCarried <=> (keyRequest = "owed" => Handing \/ Carried)
BY Zenon DEF KeyRequestCarried, Handing, Carried

(* The same of the next state.                                               *)
LEMMA CarriedIsNext == KeyRequestCarried' <=> (keyRequest' = "owed" => Handing' \/ Carried')
BY Zenon DEF KeyRequestCarried, Handing, Carried

(* Before and after a step of the encoding task.                             *)
LEMMA FrameSteps ==
    ASSUME EncoderInv, TakeForce \/ LoadBitrate \/ EncodeFrame \/ WriteSample
    PROVE  /\ EncoderTypeOK' /\ RateLoaded'
           /\ UNCHANGED <<nvenc, control, controlAt, encRate>>
           /\ keyRequest' = "owed" => keyRequest = "owed"
           /\ keyRequest' = "owed" /\ Carried => Carried' \/ HandingOver
<1>0. /\ EncoderTypeOK /\ EncoderFlags /\ EncoderFields /\ RateLoaded
      /\ encodeStep \in [at : {"idle", "took", "loaded"}, key : BOOLEAN, rate : Bitrates \cup {0}]
      /\ encodeStep.key \in BOOLEAN /\ encForce \in BOOLEAN
  BY EncoderTypeIs, Zenon DEF EncoderInv, EncoderTypeOK
<1>k. encodeStep.key \in BOOLEAN /\ encForce \in BOOLEAN
  BY <1>0 DEF EncoderFlags
<1>1. CASE TakeForce
  <2>1. /\ UNCHANGED <<nvenc, control, controlAt, encRate, backendRate, pendingKey, mfInput, encoded,
                       writerAt, keyRequest, recreateFailed, encBudget>>
        /\ encodeStep' = [at |-> "took", key |-> encForce, rate |-> 0] /\ encForce' = FALSE
    BY <1>1 DEF TakeForce
  <2>2. EncoderFlags'
    BY <1>0, <2>1, Zenon DEF EncoderFlags
  <2>3. encodeStep' \in [at : {"idle", "took", "loaded"}, key : BOOLEAN, rate : Bitrates \cup {0}]
        /\ encodeStep'.at # "loaded"
    BY <1>k, <2>1
  <2>4. EncoderFields'
    BY <1>0, <2>1, <2>3 DEF EncoderFields
  <2>5. Carried => Carried'
    BY <2>1, Zenon DEF Carried
  <2> QED BY <2>1, <2>2, <2>3, <2>4, <2>5, EncoderTypeIsNext DEF RateLoaded
<1>2. CASE LoadBitrate
  <2>1. /\ UNCHANGED <<nvenc, control, controlAt, encRate, encForce, backendRate, pendingKey, mfInput,
                       encoded, writerAt, keyRequest, recreateFailed, encBudget>>
        /\ encodeStep' = [encodeStep EXCEPT !.at = "loaded", !.rate = encRate]
    BY <1>2 DEF LoadBitrate
  <2>2. EncoderFlags'
    BY <1>0, <2>1, Zenon DEF EncoderFlags
  <2>3. encodeStep' \in [at : {"idle", "took", "loaded"}, key : BOOLEAN, rate : Bitrates \cup {0}]
        /\ encodeStep'.rate \in Bitrates
    BY <1>0, <2>1 DEF EncoderFields
  <2>4. EncoderFields'
    BY <1>0, <2>1, <2>3 DEF EncoderFields
  <2>5. Carried => Carried'
    BY <2>1, Zenon DEF Carried
  <2> QED BY <2>1, <2>2, <2>3, <2>4, <2>5, EncoderTypeIsNext DEF RateLoaded
<1>3. CASE EncodeFrame
  <2>1. /\ encodeStep.rate \in Bitrates /\ encodeStep' = Idle
        /\ UNCHANGED <<nvenc, control, controlAt, encRate, encForce, writerAt>>
    BY <1>0, <1>3 DEF EncodeFrame, RateLoaded
  <2>2. /\ FrameFields'
        /\ keyRequest' = "owed" => keyRequest = "owed"
        /\ keyRequest' = "owed" /\ Carried => Carried' \/ HandingOver
    <3>1. CASE nvenc
      <4>1. NvencEncode /\ UNCHANGED <<mfInput, recreateFailed>>
        BY <1>3, <3>1 DEF EncodeFrame
      <4>2. /\ FrameFields'
            /\ keyRequest' = "owed" => keyRequest = "owed"
            /\ keyRequest' = "owed" /\ pendingKey => pendingKey'
        BY <1>0, <2>1, <3>1, <4>1, NvencKeeps
      <4>3. Carried => pendingKey
        BY <3>1, Zenon DEF Carried
      <4>4. pendingKey' => Carried'
        BY Zenon DEF Carried
      <4> QED BY <4>2, <4>3, <4>4
    <3>2. CASE ~nvenc
      <4>1. MfEncode
        BY <1>3, <3>2 DEF EncodeFrame
      <4>2. /\ FrameFields'
            /\ keyRequest' = "owed" => keyRequest = "owed"
            /\ keyRequest' = "owed" /\ (pendingKey \/ mfInput.forced \/ mfInput.held = "key frame") =>
                  pendingKey' \/ mfInput'.forced \/ mfInput'.held = "key frame" \/ HandingOver
        BY <1>0, <2>1, <3>2, <4>1, MfKeeps
      <4>3. Carried => pendingKey \/ mfInput.forced \/ mfInput.held = "key frame"
        BY Zenon DEF Carried
      <4>4. nvenc' = nvenc
        BY <2>1
      <4>5. pendingKey' \/ mfInput'.forced \/ mfInput'.held = "key frame" => Carried'
        BY <3>2, <4>4, Zenon DEF Carried
      <4> QED BY <4>2, <4>3, <4>5
    <3> QED BY <3>1, <3>2
  <2>3. EncoderFlags'
    <3>1. pendingKey' \in BOOLEAN /\ recreateFailed' \in BOOLEAN
      BY <2>2, Zenon DEF FrameFields
    <3> QED BY <1>0, <2>1, <3>1, Zenon DEF EncoderFlags
  <2>4. encodeStep' \in [at : {"idle", "took", "loaded"}, key : BOOLEAN, rate : Bitrates \cup {0}]
        /\ encodeStep'.at # "loaded"
    BY <2>1 DEF Idle
  <2>5. EncoderFields'
    BY <1>0, <2>1, <2>2, <2>4 DEF EncoderFields, FrameFields
  <2> QED BY <2>1, <2>2, <2>3, <2>4, <2>5, EncoderTypeIsNext DEF RateLoaded
<1>4. CASE WriteSample
  <2>1. /\ UNCHANGED <<nvenc, control, controlAt, encRate, encForce, encodeStep, backendRate, pendingKey,
                       mfInput, keyRequest, recreateFailed>>
        /\ writerAt' \in {"running", "ended"} /\ encoded # <<>>
        /\ encoded' = Tail(encoded) \/ encoded' = <<>>
        /\ EncFault \/ UNCHANGED encBudget
    BY <1>0, <1>4 DEF WriteSample, EncoderFields
  <2>2. EncoderFlags'
    BY <1>0, <2>1, Zenon DEF EncoderFlags
  <2>3. encBudget' \in [controls : 0 .. MaxControls, faults : 0 .. MaxEncFaults]
    BY <1>0, <2>1, EncFaultTyped
  <2>4. encoded' \in Seq(BOOLEAN) /\ Len(encoded') <= EncodedCapacity
    <3>1. encoded \in Seq(BOOLEAN) /\ Len(encoded) <= EncodedCapacity /\ EncodedCapacity \in Nat
      BY <1>0, EncoderConstants DEF EncoderFields
    <3>2. Tail(encoded) \in Seq(BOOLEAN) /\ Len(Tail(encoded)) = Len(encoded) - 1 /\ Len(encoded) \in Nat
      BY <2>1, <3>1, HeadTailProperties, LenProperties
    <3>3. <<>> \in Seq(BOOLEAN) /\ Len(<<>>) = 0
      OBVIOUS
    <3>4. CASE encoded' = Tail(encoded)
      BY <3>1, <3>2, <3>4
    <3>5. CASE encoded' = <<>>
      BY <3>1, <3>3, <3>5
    <3> QED BY <2>1, <3>4, <3>5
  <2>5. EncoderFields'
    <3>1. /\ control' = control /\ controlAt' = controlAt /\ encRate' = encRate
          /\ encodeStep' = encodeStep /\ backendRate' = backendRate /\ mfInput' = mfInput
          /\ keyRequest' = keyRequest
      BY <2>1
    <3> QED BY <1>0, <2>1, <2>3, <2>4, <3>1, Zenon DEF EncoderFields
  <2>6. Carried => Carried'
    BY <2>1, Zenon DEF Carried
  <2>7. RateLoaded'
    BY <1>0, <2>1 DEF RateLoaded
  <2> QED BY <2>1, <2>2, <2>5, <2>6, <2>7, EncoderTypeIsNext
<1> QED BY <1>1, <1>2, <1>3, <1>4

(* Before and after a step of the session's task.                            *)
LEMMA ControlSteps ==
    ASSUME EncoderInv,
           \/ ReceiveControl \/ StoreBitrate \/ SetBackendBitrate
           \/ TakeKeyframeRequest \/ ForceKeyframe \/ PendKeyframe
    PROVE  HandedOver' /\ RateLoaded' /\ KeyRequestCarried'
<1>0. /\ EncoderTypeOK /\ HandedOver /\ RateLoaded /\ (keyRequest = "owed" => Handing \/ Carried)
      /\ control \in [bitrate : Bitrates, keyframe : BOOLEAN]
      /\ control.keyframe \in BOOLEAN /\ pendingKey \in BOOLEAN
  BY CarriedIs, Zenon DEF EncoderInv, EncoderTypeOK
<1>k. control.keyframe \in BOOLEAN
  BY <1>0
<1>1. RateLoaded'
  BY <1>0 DEF ReceiveControl, StoreBitrate, SetBackendBitrate, TakeKeyframeRequest, ForceKeyframe, PendKeyframe,
              RateLoaded
<1>2. CASE ReceiveControl
  <2>1. /\ controlAt = "idle" /\ controlAt' = "bitrate" /\ encRate = control.bitrate /\ ~control.keyframe
        /\ UNCHANGED <<nvenc, encRate, pendingKey, mfInput>>
    BY <1>0, <1>2 DEF ReceiveControl, HandedOver
  <2>2. CASE control' = [control EXCEPT !.keyframe = TRUE]
    <3>1. control'.keyframe = TRUE /\ control'.bitrate = encRate'
      BY <1>0, <2>1, <2>2
    <3>2. HandedOver'
      BY <2>1, <3>1 DEF HandedOver
    <3>3. Handing'
      BY <2>1, <3>1, Zenon DEF Handing
    <3> QED BY <1>1, <3>2, <3>3, CarriedIsNext
  <2>3. CASE \E b \in Bitrates : control' = [control EXCEPT !.bitrate = b] /\ UNCHANGED keyRequest
    <3>1. control'.keyframe = control.keyframe /\ keyRequest' = keyRequest
      BY <1>0, <2>3
    <3>2. HandedOver'
      BY <2>1, <3>1, Zenon DEF HandedOver
    <3>3. ~Handing
      BY <2>1 DEF Handing
    <3>4. Carried => Carried'
      BY <2>1, Zenon DEF Carried
    <3> QED BY <1>0, <1>1, <3>1, <3>2, <3>3, <3>4, CarriedIsNext
  <2> QED BY <1>2, <2>2, <2>3 DEF ReceiveControl
<1>3. CASE StoreBitrate
  <2>1. /\ controlAt = "bitrate" /\ encRate' = control.bitrate
        /\ controlAt' = IF control.bitrate = encRate THEN "keyframe" ELSE "backend"
        /\ UNCHANGED <<nvenc, control, pendingKey, mfInput, keyRequest>>
    BY <1>3 DEF StoreBitrate
  <2>2. control.keyframe => control.bitrate = encRate
    BY <1>0 DEF HandedOver
  <2>3. HandedOver'
    BY <2>1, <2>2 DEF HandedOver
  <2>4. Handing => Handing'
    BY <2>1 DEF Handing
  <2>5. Carried => Carried'
    BY <2>1, Zenon DEF Carried
  <2> QED BY <1>0, <1>1, <2>1, <2>3, <2>4, <2>5, CarriedIsNext
<1>4. CASE SetBackendBitrate
  <2>1. /\ controlAt = "backend" /\ controlAt' \in {"idle", "keyframe"}
        /\ UNCHANGED <<nvenc, control, encRate, mfInput, keyRequest>>
    BY <1>4 DEF SetBackendBitrate
  <2>2. ~control.keyframe /\ encRate = control.bitrate
    BY <1>0, <2>1 DEF HandedOver
  <2>3. HandedOver'
    BY <2>1, <2>2, Zenon DEF HandedOver
  <2>4. ~Handing
    BY <2>1, <2>2 DEF Handing
  <2>5. pendingKey => pendingKey'
    BY <1>4, Zenon DEF SetBackendBitrate
  <2>6. Carried => Carried'
    BY <2>1, <2>5, Zenon DEF Carried
  <2> QED BY <1>0, <1>1, <2>1, <2>3, <2>4, <2>6, CarriedIsNext
<1>5. CASE TakeKeyframeRequest
  <2>1. /\ controlAt = "keyframe" /\ control' = [control EXCEPT !.keyframe = FALSE]
        /\ controlAt' = IF control.keyframe THEN "force" ELSE "idle"
        /\ UNCHANGED <<nvenc, encRate, pendingKey, mfInput, keyRequest>>
    BY <1>5 DEF TakeKeyframeRequest
  <2>2. ~control'.keyframe /\ control'.bitrate = control.bitrate
    BY <1>0, <2>1
  <2>3. encRate = control.bitrate
    BY <1>0, <2>1 DEF HandedOver
  <2>4. HandedOver'
    BY <2>1, <2>2, <2>3 DEF HandedOver
  <2>5. Handing => Handing'
    BY <2>1 DEF Handing
  <2>6. Carried => Carried'
    BY <2>1, Zenon DEF Carried
  <2> QED BY <1>0, <1>1, <2>1, <2>4, <2>5, <2>6, CarriedIsNext
<1>6. CASE ForceKeyframe
  <2>1. /\ controlAt = "force" /\ controlAt' = "pend"
        /\ UNCHANGED <<control, encRate>>
    BY <1>6 DEF ForceKeyframe
  <2>2. HandedOver'
    BY <1>0, <2>1, Zenon DEF HandedOver
  <2>3. Handing'
    BY <2>1 DEF Handing
  <2> QED BY <1>1, <2>2, <2>3, CarriedIsNext
<1>7. CASE PendKeyframe
  <2>1. /\ controlAt = "pend" /\ controlAt' = "idle" /\ pendingKey' = TRUE
        /\ UNCHANGED <<control, encRate>>
    BY <1>7 DEF PendKeyframe
  <2>2. HandedOver'
    BY <1>0, <2>1, Zenon DEF HandedOver
  <2>3. Carried'
    BY <2>1, Zenon DEF Carried
  <2> QED BY <1>1, <2>2, <2>3, CarriedIsNext
<1> QED BY <1>2, <1>3, <1>4, <1>5, <1>6, <1>7

(* Every step keeps the invariant.                                           *)
LEMMA EncoderInvKept == EncoderInv /\ [EncoderNext]_encoderVars => EncoderInv'
<1> SUFFICES ASSUME EncoderInv, [EncoderNext]_encoderVars PROVE EncoderInv'
  OBVIOUS
<1>1. CASE TakeForce \/ LoadBitrate \/ EncodeFrame \/ WriteSample
  <2>1. /\ EncoderTypeOK' /\ RateLoaded'
        /\ UNCHANGED <<nvenc, control, controlAt, encRate>>
        /\ keyRequest' = "owed" => keyRequest = "owed"
        /\ keyRequest' = "owed" /\ Carried => Carried' \/ HandingOver
    BY <1>1, FrameSteps
  <2>2. HandedOver'
    BY <2>1, Zenon DEF EncoderInv, HandedOver
  <2>3. Handing => Handing'
    BY <2>1, Zenon DEF Handing
  <2>4. keyRequest = "owed" => Handing \/ Carried
    BY CarriedIs DEF EncoderInv
  <2>5. HandingOver => Handing
    BY Zenon DEF EncoderInv, HandedOver, HandingOver, Handing
  <2> QED BY <2>1, <2>2, <2>3, <2>4, <2>5, CarriedIsNext DEF EncoderInv
<1>2. CASE \/ ReceiveControl \/ StoreBitrate \/ SetBackendBitrate
           \/ TakeKeyframeRequest \/ ForceKeyframe \/ PendKeyframe
  <2>1. EncoderTypeOK'
    BY <1>2, ControlTyped DEF EncoderInv
  <2> QED BY <1>2, <2>1, ControlSteps DEF EncoderInv
<1>3. CASE UNCHANGED encoderVars
  <2>1. UNCHANGED <<nvenc, control, controlAt, encRate, encForce, encodeStep, backendRate, pendingKey,
                    mfInput, encoded, writerAt, keyRequest, recreateFailed, encBudget>>
    BY <1>3 DEF encoderVars
  <2>2. EncoderFlags'
    BY <2>1, EncoderTypeIs, Zenon DEF EncoderInv, EncoderFlags
  <2>3. EncoderFields'
    <3>1. EncoderFields
      BY EncoderTypeIs DEF EncoderInv
    <3>2. UNCHANGED <<control, controlAt, encRate, encodeStep, backendRate, mfInput, encoded, writerAt,
                      keyRequest, encBudget>>
      BY <2>1
    <3>3. /\ control' \in [bitrate : Bitrates, keyframe : BOOLEAN]
          /\ encodeStep' \in [at : {"idle", "took", "loaded"}, key : BOOLEAN, rate : Bitrates \cup {0}]
          /\ backendRate' \in [config : Bitrates, requested : Bitrates, actual : Bitrates]
          /\ mfInput' \in [forced : BOOLEAN, held : {"nothing", "frame", "key frame"}]
          /\ encBudget' \in [controls : 0 .. MaxControls, faults : 0 .. MaxEncFaults]
      BY <3>1, <3>2, Zenon DEF EncoderFields
    <3>4. encoded' \in Seq(BOOLEAN) /\ Len(encoded') <= EncodedCapacity
      BY <3>1, <3>2, Zenon DEF EncoderFields
    <3>5. /\ controlAt' \in {"idle", "bitrate", "backend", "keyframe", "force", "pend"}
          /\ encRate' \in Bitrates /\ writerAt' \in {"running", "ended"}
          /\ keyRequest' \in {"none", "owed", "sent", "lost", "untold"}
      BY <3>1, <3>2, Zenon DEF EncoderFields
    <3> QED BY <3>3, <3>4, <3>5, Zenon DEF EncoderFields
  <2>4. RateLoaded'
    BY <2>1 DEF EncoderInv, RateLoaded
  <2>5. HandedOver'
    BY <2>1, Zenon DEF EncoderInv, HandedOver
  <2>6. KeyRequestCarried'
    BY <2>1, Zenon DEF EncoderInv, KeyRequestCarried
  <2> QED BY <2>2, <2>3, <2>4, <2>5, <2>6, EncoderTypeIsNext DEF EncoderInv
<1> QED BY <1>1, <1>2, <1>3 DEF EncoderNext

(* At first the backend has a key frame to make.                             *)
LEMMA EncoderInvInit == (\E useNvenc \in BOOLEAN : EncoderInit(useNvenc)) => EncoderInv
<1> SUFFICES ASSUME NEW useNvenc \in BOOLEAN, EncoderInit(useNvenc) PROVE EncoderInv
  OBVIOUS
<1>1. EncoderFlags
  BY Zenon DEF EncoderInit, EncoderFlags
<1>2. /\ control = [bitrate |-> FirstBitrate, keyframe |-> FALSE] /\ controlAt = "idle"
      /\ encRate = FirstBitrate /\ encodeStep = Idle
      /\ backendRate = [config |-> FirstBitrate, requested |-> FirstBitrate, actual |-> FirstBitrate]
      /\ mfInput = [forced |-> TRUE, held |-> "nothing"]
      /\ encoded = <<>> /\ writerAt = "running" /\ keyRequest = "none"
      /\ encBudget = [controls |-> 0, faults |-> 0]
  BY DEF EncoderInit, FreshTransform
<1>3. EncoderFields
  <2>1. FirstBitrate \in Bitrates /\ 0 \in 0 .. MaxControls /\ 0 \in 0 .. MaxEncFaults /\ 0 <= EncodedCapacity
    BY EncoderConstants
  <2>2. <<>> \in Seq(BOOLEAN) /\ Len(<<>>) = 0
    OBVIOUS
  <2>3. encodeStep \in [at : {"idle", "took", "loaded"}, key : BOOLEAN, rate : Bitrates \cup {0}]
    BY <1>2 DEF Idle
  <2>4. encBudget \in [controls : 0 .. MaxControls, faults : 0 .. MaxEncFaults]
    BY <1>2, <2>1
  <2>5. backendRate \in [config : Bitrates, requested : Bitrates, actual : Bitrates]
    BY <1>2, <2>1
  <2>6. control \in [bitrate : Bitrates, keyframe : BOOLEAN]
    BY <1>2, <2>1
  <2>7. mfInput \in [forced : BOOLEAN, held : {"nothing", "frame", "key frame"}]
    BY <1>2
  <2> QED BY <1>2, <2>1, <2>2, <2>3, <2>4, <2>5, <2>6, <2>7 DEF EncoderFields
<1>4. RateLoaded
  BY <1>2 DEF RateLoaded, Idle
<1>5. HandedOver
  BY <1>2 DEF HandedOver
<1>6. KeyRequestCarried
  BY <1>2 DEF KeyRequestCarried
<1> QED BY <1>1, <1>3, <1>4, <1>5, <1>6, EncoderTypeIs DEF EncoderInv

(* The encoder's variables keep their types: the channel of encoded frames   *)
(* within its capacity, and the bitrates among those that were asked for.    *)
THEOREM EncoderTyped == EncoderSpec => []EncoderTypeOK
<1>1. EncoderInv => EncoderTypeOK
  BY DEF EncoderInv
<1> QED BY <1>1, EncoderInvInit, EncoderInvKept, PTL DEF EncoderSpec

(* A request for a key frame that is owed is on its way: while it is handed  *)
(* over no call that may fail comes before it, the backend's flag outlives   *)
(* the frames that fail, and the transform holds what it was told. What it   *)
(* was not told is owed no longer ("untold", request_keyframe, encode_frame). *)
THEOREM KeyRequestsCarried == EncoderSpec => []KeyRequestCarried
<1>1. EncoderInv => KeyRequestCarried
  BY DEF EncoderInv
<1> QED BY <1>1, EncoderInvInit, EncoderInvKept, PTL DEF EncoderSpec

(* What the backend was asked for, what it is configured for and what it      *)
(* uses are the same rate: always with NVENC, which is asked at once; with    *)
(* Media Foundation, which is made anew for a rate, unless that failed.       *)
RatesMatch ==
    /\ nvenc => backendRate.requested = backendRate.config /\ ~recreateFailed
    /\ ~recreateFailed => backendRate.actual = backendRate.config

(* The bitrate on its way: a frame loads the one asked for last, unless one is *)
(* just being stored; a frame that no call fails is encoded at the rate it    *)
(* loaded, but for a transform that could not be recreated; and the rate in   *)
(* use only becomes one of these two.                                         *)
BitrateOnItsWay ==
    /\ LoadBitrate /\ controlAt # "bitrate" => encodeStep'.rate = control.bitrate
    /\ EncodeFrame /\ UNCHANGED encBudget => backendRate'.actual = encodeStep.rate \/ recreateFailed'
    /\ backendRate'.actual # backendRate.actual =>
          backendRate'.actual \in {control.bitrate, encodeStep.rate}

(* A fault is seen in the budget.                                            *)
LEMMA FaultSeen == EncoderTypeOK /\ EncFault => encBudget' # encBudget
<1> SUFFICES ASSUME EncoderTypeOK, EncFault, encBudget' = encBudget PROVE FALSE
  OBVIOUS
<1>1. encBudget \in [controls : 0 .. MaxControls, faults : 0 .. MaxEncFaults] /\ MaxEncFaults \in Nat
  BY EncoderConstants, Zenon DEF EncoderTypeOK
<1>2. encBudget.faults \in Nat
  BY <1>1
<1>3. encBudget'.faults = encBudget.faults + 1
  BY <1>1 DEF EncFault
<1> QED BY <1>2, <1>3

(* What a frame does to the rates.                                           *)
LEMMA FrameRates ==
    ASSUME EncoderInv, RatesMatch, EncodeFrame
    PROVE  /\ RatesMatch'
           /\ UNCHANGED encBudget => backendRate'.actual = encodeStep.rate \/ recreateFailed'
           /\ backendRate'.actual \in {backendRate.actual, encodeStep.rate}
<1> DEFINE b == encodeStep.rate
<1>0. /\ backendRate \in [config : Bitrates, requested : Bitrates, actual : Bitrates]
      /\ EncoderTypeOK /\ nvenc' = nvenc
  BY DEF EncoderInv, EncoderTypeOK, EncodeFrame
<1>1. /\ Reconfigured(b).config = b /\ Reconfigured(b).requested = b /\ Reconfigured(b).actual = b
      /\ \A x : [Reconfigured(b) EXCEPT !.actual = x].config = b
                /\ [Reconfigured(b) EXCEPT !.actual = x].actual = x
  BY DEF Reconfigured
<1>2. CASE nvenc
  <2>1. /\ recreateFailed' = recreateFailed /\ ~recreateFailed
        /\ backendRate.requested = backendRate.config /\ backendRate.actual = backendRate.config
    BY <1>2 DEF EncodeFrame, RatesMatch
  <2>2. \/ EncFault /\ backendRate' = backendRate
        \/ backendRate' = IF b = backendRate.requested THEN backendRate ELSE Reconfigured(b)
    BY <1>2 DEF EncodeFrame, NvencEncode, AfterRefusal
  <2>3. /\ backendRate'.requested = backendRate'.config /\ backendRate'.actual = backendRate'.config
        /\ backendRate'.actual \in {backendRate.actual, b}
        /\ EncFault \/ backendRate'.actual = b
    <3> HIDE DEF b
    <3> QED BY <1>1, <2>1, <2>2
  <2>4. RatesMatch'
    BY <1>0, <2>1, <2>3, Zenon DEF RatesMatch
  <2> QED BY <1>0, <2>3, <2>4, FaultSeen
<1>3. CASE ~nvenc
  <2> DEFINE recreates == b # backendRate.config
             made == [Reconfigured(b) EXCEPT !.actual = IF recreates THEN b ELSE backendRate.actual]
             kept == [Reconfigured(b) EXCEPT !.actual = backendRate.actual]
  <2>1. \/ EncFault /\ UNCHANGED <<backendRate, recreateFailed>>
        \/ EncFault /\ backendRate' = kept /\ recreateFailed' = TRUE
        \/ backendRate' = made /\ UNCHANGED recreateFailed
    BY <1>3 DEF EncodeFrame, MfEncode
  <2>2. /\ made.config = b /\ (recreates => made.actual = b) /\ (~recreates => made.actual = backendRate.actual)
        /\ kept.actual = backendRate.actual
    BY <1>1
  <2> HIDE DEF b, made, kept
  <2>3. ~recreateFailed => backendRate.actual = backendRate.config
    BY DEF RatesMatch
  <2>4. CASE EncFault /\ UNCHANGED <<backendRate, recreateFailed>>
    <3>1. RatesMatch'
      BY <1>0, <1>3, <2>3, <2>4, Zenon DEF RatesMatch
    <3> QED BY <1>0, <2>4, <3>1, FaultSeen DEF b
  <2>5. CASE EncFault /\ backendRate' = kept /\ recreateFailed' = TRUE
    <3>1. RatesMatch'
      BY <1>0, <1>3, <2>5, Zenon DEF RatesMatch
    <3> QED BY <1>0, <2>2, <2>5, <3>1, FaultSeen DEF b
  <2>6. CASE backendRate' = made /\ UNCHANGED recreateFailed
    <3>1. ~recreateFailed => made.actual = b
      BY <2>2, <2>3
    <3>2. ~recreateFailed' => backendRate'.actual = backendRate'.config
      BY <2>2, <2>6, <3>1, Zenon
    <3>3. RatesMatch'
      BY <1>0, <1>3, <3>2, Zenon DEF RatesMatch
    <3>4. made.actual \in {backendRate.actual, b}
      BY <2>2
    <3>5. backendRate'.actual = b \/ recreateFailed'
      BY <2>6, <3>1, Zenon
    <3>6. backendRate'.actual \in {backendRate.actual, b}
      BY <2>6, <3>4, Zenon
    <3> QED BY <3>3, <3>5, <3>6 DEF b
  <2> QED BY <2>1, <2>4, <2>5, <2>6
<1> QED BY <1>2, <1>3

(* What any step does to them.                                               *)
LEMMA RateSteps ==
    ASSUME EncoderInv, RatesMatch, [EncoderNext]_encoderVars
    PROVE  RatesMatch' /\ BitrateOnItsWay
<1>0. /\ backendRate \in [config : Bitrates, requested : Bitrates, actual : Bitrates] /\ EncoderTypeOK
      /\ encodeStep \in [at : {"idle", "took", "loaded"}, key : BOOLEAN, rate : Bitrates \cup {0}]
      /\ HandedOver
  BY DEF EncoderInv, EncoderTypeOK
<1>1. CASE EncodeFrame
  <2>1. /\ RatesMatch' /\ (UNCHANGED encBudget => backendRate'.actual = encodeStep.rate \/ recreateFailed')
        /\ backendRate'.actual \in {backendRate.actual, encodeStep.rate}
    BY <1>1, FrameRates
  <2>2. ~LoadBitrate
    BY <1>1 DEF EncodeFrame, LoadBitrate
  <2> QED BY <2>1, <2>2 DEF BitrateOnItsWay
<1>2. CASE SetBackendBitrate
  <2> DEFINE b == control.bitrate
             asked == [backendRate EXCEPT !.requested = b]
  <2>1. /\ UNCHANGED <<nvenc, encodeStep, recreateFailed>>
        /\ \/ nvenc /\ backendRate' = Reconfigured(b)
           \/ backendRate' = backendRate
           \/ ~nvenc /\ backendRate' = asked
    BY <1>2 DEF SetBackendBitrate, AfterRefusal
  <2>2. /\ Reconfigured(b).config = b /\ Reconfigured(b).requested = b /\ Reconfigured(b).actual = b
        /\ asked.config = backendRate.config /\ asked.actual = backendRate.actual
    BY <1>0 DEF Reconfigured
  <2>3. ~LoadBitrate /\ ~EncodeFrame
    <3>1. encodeStep.at # "idle" => Idle # encodeStep
      BY DEF Idle
    <3>2. LoadBitrate => encodeStep'.at # encodeStep.at
      BY <1>0 DEF LoadBitrate
    <3>3. EncodeFrame => encodeStep' # encodeStep
      BY <3>1 DEF EncodeFrame
    <3> QED BY <2>1, <3>2, <3>3
  <2> HIDE DEF b, asked
  <2>4. /\ backendRate'.actual \in {backendRate.actual, b}
        /\ nvenc /\ backendRate.requested = backendRate.config => backendRate'.requested = backendRate'.config
        /\ backendRate.actual = backendRate.config => backendRate'.actual = backendRate'.config
    BY <2>1, <2>2
  <2>5. RatesMatch'
    BY <2>1, <2>4, Zenon DEF RatesMatch
  <2> QED BY <2>3, <2>4, <2>5 DEF BitrateOnItsWay, b
<1>3. CASE LoadBitrate
  <2>1. /\ UNCHANGED <<nvenc, backendRate, recreateFailed>> /\ ~EncodeFrame /\ encodeStep'.rate = encRate
    BY <1>0, <1>3 DEF LoadBitrate, EncodeFrame
  <2>2. controlAt # "bitrate" => encRate = control.bitrate
    BY <1>0 DEF HandedOver
  <2>3. RatesMatch'
    BY <2>1, Zenon DEF RatesMatch
  <2> QED BY <2>1, <2>2, <2>3 DEF BitrateOnItsWay
<1>4. CASE \/ ReceiveControl \/ StoreBitrate \/ TakeKeyframeRequest \/ ForceKeyframe \/ PendKeyframe
           \/ TakeForce \/ WriteSample \/ UNCHANGED encoderVars
  <2>1. UNCHANGED <<nvenc, backendRate, recreateFailed>>
    BY <1>4 DEF ReceiveControl, StoreBitrate, TakeKeyframeRequest, ForceKeyframe, PendKeyframe, TakeForce,
                WriteSample, encoderVars
  <2>2. \/ UNCHANGED encodeStep
        \/ encodeStep.at = "idle"
    BY <1>4 DEF ReceiveControl, StoreBitrate, TakeKeyframeRequest, ForceKeyframe, PendKeyframe, TakeForce,
                WriteSample, encoderVars
  <2>3. LoadBitrate => encodeStep'.at # encodeStep.at /\ encodeStep.at = "took"
    BY <1>0 DEF LoadBitrate
  <2>4. EncodeFrame => encodeStep'.at # encodeStep.at /\ encodeStep.at = "loaded"
    BY DEF EncodeFrame, Idle
  <2>5. ~LoadBitrate /\ ~EncodeFrame
    BY <2>2, <2>3, <2>4
  <2>6. RatesMatch'
    BY <2>1, Zenon DEF RatesMatch
  <2> QED BY <2>1, <2>5, <2>6 DEF BitrateOnItsWay
<1> QED BY <1>1, <1>2, <1>3, <1>4 DEF EncoderNext

(* A bitrate asked for over the control channel is the one the next frames    *)
(* are encoded at, whatever the encoding task still carried: the safety part  *)
(* of BitrateSettles (set_bitrate_kbps, encode_frame, recreate_if_needed).    *)
THEOREM BitratesArrive == EncoderSpec => [][BitrateOnItsWay]_encoderVars
<1>1. (\E useNvenc \in BOOLEAN : EncoderInit(useNvenc)) => RatesMatch
  BY DEF EncoderInit, RatesMatch
<1>2. EncoderInv /\ RatesMatch /\ [EncoderNext]_encoderVars => RatesMatch' /\ BitrateOnItsWay
  BY RateSteps
<1> QED BY <1>1, <1>2, EncoderInvInit, EncoderInvKept, PTL DEF EncoderSpec

-----------------------------------------------------------------------------
(* AgentSession                                                               *)

(* The runs have the types of their fields, and each comes of one request:   *)
(* there are no more of them than requests, MaxRequests at most.             *)
RunRecords == [id : RequestIds, at : {"video", "offer", "messages", "failed"},
               capture : {"none", "opening", "looping", "sending", "ended"},
               frames : 0 .. FrameCapacity]
AgentFields ==
    /\ requests \in Seq(RequestIds) /\ runs \in Seq(RunRecords)
    /\ answers \in Seq(RequestIds)
    /\ agentBudget \in [requests : 0 .. MaxRequests, faults : 0 .. MaxAgentFaults]
    /\ Len(runs) + Len(requests) <= agentBudget.requests
AgentPlaces ==
    /\ processAt \in {"connecting", "serving", "exiting", "gone"}
    /\ readerAt \in {"none", "running", "ended"} /\ writerOn \in BOOLEAN

(* What the bounds are.                                                      *)
LEMMA AgentConstants ==
    /\ FrameCapacity \in Nat \ {0} /\ MaxRequests \in Nat /\ MaxAgentFaults \in Nat
BY AgentAssumption

(* The lengths and the budget are numbers.                                   *)
LEMMA AgentNumbers ==
    ASSUME AgentFields
    PROVE  /\ Len(requests) \in Nat /\ Len(runs) \in Nat /\ DOMAIN runs = 1 .. Len(runs)
           /\ agentBudget.requests \in 0 .. MaxRequests /\ agentBudget.faults \in 0 .. MaxAgentFaults
           /\ \A r \in DOMAIN runs : runs[r] \in RunRecords
BY LenProperties, ElementOfSeq DEF AgentFields

(* A fault is counted within its bound, and no request is.                   *)
LEMMA AgentFaultTyped ==
    ASSUME AgentFields, AgentFault \/ UNCHANGED agentBudget
    PROVE  /\ agentBudget' \in [requests : 0 .. MaxRequests, faults : 0 .. MaxAgentFaults]
           /\ agentBudget'.requests = agentBudget.requests
<1>0. /\ agentBudget \in [requests : 0 .. MaxRequests, faults : 0 .. MaxAgentFaults]
      /\ agentBudget.faults \in 0 .. MaxAgentFaults /\ MaxAgentFaults \in Nat
  BY AgentConstants, AgentNumbers DEF AgentFields
<1>1. CASE AgentFault
  <2>1. agentBudget.faults + 1 \in 0 .. MaxAgentFaults
    BY <1>0, <1>1 DEF AgentFault
  <2> QED BY <1>0, <1>1, <2>1 DEF AgentFault
<1> QED BY <1>0, <1>1

(* One run changes, into another record.                                     *)
LEMMA RunChanges ==
    ASSUME AgentFields, NEW r \in DOMAIN runs, NEW run \in RunRecords, Set(r, run)
    PROVE  runs' \in Seq(RunRecords) /\ Len(runs') = Len(runs)
<1>1. runs \in Seq(RunRecords) /\ DOMAIN runs = 1 .. Len(runs)
  BY AgentNumbers DEF AgentFields
<1>2. runs' = [runs EXCEPT ![r] = run]
  BY DEF Set
<1> QED BY <1>1, <1>2, ExceptSeq

(* A step of a run, or of its thread: the run changes, an answer may go out. *)
LEMMA RunSteps ==
    ASSUME AgentFields, NEW r \in DOMAIN runs,
           StartVideo(r) \/ AcceptOffer(r) \/ HelloFails(r) \/ CaptureThread(r) \/ TakeFrame(r)
    PROVE  AgentFields' /\ UNCHANGED <<processAt, readerAt, writerOn>>
<1>0. /\ runs[r] \in RunRecords /\ runs[r].id \in RequestIds /\ runs[r].frames \in 0 .. FrameCapacity
      /\ FrameCapacity \in Nat /\ answers \in Seq(RequestIds) /\ requests \in Seq(RequestIds)
  BY AgentConstants, AgentNumbers DEF AgentFields, RunRecords
<1>1. UNCHANGED <<processAt, readerAt, writerOn, requests>> /\ (AgentFault \/ UNCHANGED agentBudget)
  BY DEF StartVideo, AcceptOffer, HelloFails, CaptureThread, OpenDuplication, CaptureFrame, SendFrame, TakeFrame
<1>2. answers' \in Seq(RequestIds)
  <2>1. answers' = answers \/ answers' = Append(answers, runs[r].id)
    BY DEF StartVideo, AcceptOffer, HelloFails, CaptureThread, OpenDuplication, CaptureFrame, SendFrame, TakeFrame
  <2> QED BY <1>0, <2>1, AppendProperties
<1>3. \E run \in RunRecords : Set(r, run)
  <2>1. CASE StartVideo(r)
    BY <1>0, <2>1 DEF StartVideo, RunRecords
  <2>2. CASE AcceptOffer(r)
    BY <1>0, <2>2 DEF AcceptOffer, RunRecords
  <2>3. CASE HelloFails(r)
    BY <1>0, <2>3 DEF HelloFails, RunRecords
  <2>4. CASE OpenDuplication(r) \/ CaptureFrame(r)
    BY <1>0, <2>4 DEF OpenDuplication, CaptureFrame, RunRecords
  <2>5. CASE SendFrame(r)
    <3>1. CASE Set(r, [runs[r] EXCEPT !.capture = "ended"])
      BY <1>0, <3>1 DEF RunRecords
    <3>2. CASE runs[r].frames < FrameCapacity /\ Set(r, [runs[r] EXCEPT !.capture = "looping", !.frames = @ + 1])
      <4>1. runs[r].frames + 1 \in 0 .. FrameCapacity
        BY <1>0, <3>2
      <4>2. [runs[r] EXCEPT !.capture = "looping", !.frames = @ + 1] \in RunRecords
        BY <1>0, <4>1 DEF RunRecords
      <4> QED BY <3>2, <4>2
    <3> QED BY <2>5, <3>1, <3>2 DEF SendFrame
  <2>6. CASE TakeFrame(r)
    BY <1>0, <2>6 DEF TakeFrame, RunRecords
  <2> QED BY <2>1, <2>2, <2>3, <2>4, <2>5, <2>6 DEF CaptureThread
<1>4. runs' \in Seq(RunRecords) /\ Len(runs') = Len(runs)
  BY <1>3, RunChanges
<1>5. requests' = requests
  BY <1>1
<1> QED BY <1>0, <1>1, <1>2, <1>4, <1>5, AgentFaultTyped DEF AgentFields

(* A step of main or of the tasks of the socket.                             *)
LEMMA MainSteps ==
    ASSUME AgentFields, AgentPlaces,
           \/ Connect \/ ReaderEnds \/ WriterEnds \/ TakeRequest \/ MainReturns \/ ProcessEnds
           \/ \E id \in RequestIds : ReadRequest(id)
    PROVE  AgentFields' /\ AgentPlaces'
<1>0. /\ requests \in Seq(RequestIds) /\ runs \in Seq(RunRecords) /\ answers \in Seq(RequestIds)
      /\ agentBudget \in [requests : 0 .. MaxRequests, faults : 0 .. MaxAgentFaults]
      /\ Len(runs) + Len(requests) <= agentBudget.requests
      /\ Len(requests) \in Nat /\ Len(runs) \in Nat /\ agentBudget.requests \in 0 .. MaxRequests
      /\ MaxRequests \in Nat /\ FrameCapacity \in Nat
  BY AgentConstants, AgentNumbers DEF AgentFields
<1>1. AgentPlaces'
  BY Zenon DEF AgentPlaces, Connect, ReaderEnds, WriterEnds, TakeRequest, MainReturns, ProcessEnds, ReadRequest
<1>2. CASE Connect \/ ReaderEnds \/ WriterEnds \/ ProcessEnds
  <2>1. UNCHANGED <<requests, runs, answers>> /\ (AgentFault \/ UNCHANGED agentBudget)
    BY <1>2 DEF Connect, ReaderEnds, WriterEnds, ProcessEnds
  <2> QED BY <1>0, <1>1, <2>1, AgentFaultTyped DEF AgentFields
<1>3. CASE TakeRequest
  <2>1. /\ requests # <<>> /\ requests' = Tail(requests) /\ runs' = Append(runs, NewRun(Head(requests)))
        /\ UNCHANGED <<answers, agentBudget>>
    BY <1>3 DEF TakeRequest
  <2>2. /\ Head(requests) \in RequestIds /\ Tail(requests) \in Seq(RequestIds)
        /\ Len(Tail(requests)) = Len(requests) - 1
    BY <1>0, <2>1, HeadTailProperties
  <2>3. NewRun(Head(requests)) \in RunRecords
    BY <1>0, <2>2 DEF NewRun, RunRecords
  <2>4. /\ Append(runs, NewRun(Head(requests))) \in Seq(RunRecords)
        /\ Len(Append(runs, NewRun(Head(requests)))) = Len(runs) + 1
    BY <1>0, <2>3, AppendProperties
  <2>5. Len(runs') + Len(requests') <= agentBudget.requests
    BY <1>0, <2>1, <2>2, <2>4
  <2> QED BY <1>0, <1>1, <2>1, <2>2, <2>4, <2>5 DEF AgentFields
<1>4. CASE MainReturns
  <2>1. requests' = <<>> /\ UNCHANGED <<runs, answers, agentBudget>>
    BY <1>4 DEF MainReturns
  <2>2. <<>> \in Seq(RequestIds) /\ Len(<<>>) = 0
    OBVIOUS
  <2> QED BY <1>0, <1>1, <2>1, <2>2 DEF AgentFields
<1>5. ASSUME NEW id \in RequestIds, ReadRequest(id) PROVE AgentFields'
  <2>1. /\ agentBudget.requests < MaxRequests /\ requests' = Append(requests, id)
        /\ agentBudget' = [agentBudget EXCEPT !.requests = @ + 1]
        /\ UNCHANGED <<runs, answers>>
    BY <1>5 DEF ReadRequest
  <2>2. Append(requests, id) \in Seq(RequestIds) /\ Len(Append(requests, id)) = Len(requests) + 1
    BY <1>0, AppendProperties
  <2>3. agentBudget.requests + 1 \in 0 .. MaxRequests
    BY <1>0, <2>1
  <2>4. /\ agentBudget' \in [requests : 0 .. MaxRequests, faults : 0 .. MaxAgentFaults]
        /\ agentBudget'.requests = agentBudget.requests + 1
    BY <1>0, <2>1, <2>3
  <2>5. Len(runs') + Len(requests') <= agentBudget'.requests
    BY <1>0, <2>1, <2>2, <2>4
  <2> QED BY <1>0, <2>1, <2>2, <2>4, <2>5 DEF AgentFields
<1> QED BY <1>1, <1>2, <1>3, <1>4, <1>5

(* The process keeps its types, however the calls of its runs fail.          *)
LEMMA AgentKept == AgentFields /\ AgentPlaces /\ [AgentNext]_agentVars => (AgentFields /\ AgentPlaces)'
<1> SUFFICES ASSUME AgentFields, AgentPlaces, [AgentNext]_agentVars PROVE (AgentFields /\ AgentPlaces)'
  OBVIOUS
<1>1. ASSUME NEW r \in DOMAIN runs,
             StartVideo(r) \/ AcceptOffer(r) \/ HelloFails(r) \/ CaptureThread(r) \/ TakeFrame(r)
      PROVE  (AgentFields /\ AgentPlaces)'
  <2>1. AgentFields' /\ UNCHANGED <<processAt, readerAt, writerOn>>
    BY <1>1, RunSteps
  <2>2. AgentPlaces'
    BY <2>1, Zenon DEF AgentPlaces
  <2> QED BY <2>1, <2>2
<1>2. CASE UNCHANGED agentVars
  <2>1. AgentPlaces'
    BY <1>2, Zenon DEF AgentPlaces, agentVars
  <2>2. AgentFields'
    BY <1>2 DEF AgentFields, agentVars
  <2> QED BY <2>1, <2>2
<1>3. CASE \/ Connect \/ ReaderEnds \/ WriterEnds \/ TakeRequest \/ MainReturns \/ ProcessEnds
           \/ \E id \in RequestIds : ReadRequest(id)
  BY <1>3, MainSteps
<1> QED BY <1>1, <1>2, <1>3 DEF AgentNext

(* So the process begins.                                                    *)
LEMMA AgentBegins == AgentInit => AgentFields /\ AgentPlaces
<1> SUFFICES ASSUME AgentInit PROVE AgentFields /\ AgentPlaces
  OBVIOUS
<1>1. <<>> \in Seq(RequestIds) /\ <<>> \in Seq(RunRecords) /\ Len(<<>>) = 0
  OBVIOUS
<1>2. /\ agentBudget \in [requests : 0 .. MaxRequests, faults : 0 .. MaxAgentFaults]
      /\ agentBudget.requests = 0
  BY AgentConstants DEF AgentInit
<1>3. AgentPlaces
  BY DEF AgentInit, AgentPlaces
<1> QED BY <1>1, <1>2, <1>3 DEF AgentInit, AgentFields

(* What the two say of the types and of the number of runs.                  *)
LEMMA AgentTypeIs == AgentFields /\ AgentPlaces => AgentTypeOK /\ DOMAIN runs \subseteq 1 .. MaxRequests
<1> SUFFICES ASSUME AgentFields, AgentPlaces PROVE AgentTypeOK /\ DOMAIN runs \subseteq 1 .. MaxRequests
  OBVIOUS
<1>1. \A r \in DOMAIN runs : runs[r] \in RunRecords
  BY AgentNumbers
<1>2. DOMAIN runs \subseteq 1 .. MaxRequests
  <2>1. /\ Len(requests) \in Nat /\ Len(runs) \in Nat /\ DOMAIN runs = 1 .. Len(runs)
        /\ agentBudget.requests \in 0 .. MaxRequests /\ MaxRequests \in Nat
        /\ Len(runs) + Len(requests) <= agentBudget.requests
    BY AgentNumbers, AgentConstants DEF AgentFields
  <2> DEFINE a == Len(runs)
  <2> DEFINE b == Len(requests)
  <2>2. a \in Nat /\ b \in Nat /\ a + b <= MaxRequests
    BY <2>1
  <2> HIDE DEF a, b
  <2>3. a <= MaxRequests
    BY <2>1, <2>2
  <2>4. Len(runs) <= MaxRequests
    BY <2>3 DEF a
  <2> QED BY <2>1, <2>4
<1> QED BY <1>1, <1>2 DEF AgentFields, AgentPlaces, AgentTypeOK, RunRecords

(* The process of the agent keeps its types, the channel of captured frames  *)
(* never holds more than its capacity; and every run is one of the first     *)
(* MaxRequests, those whose threads and tasks the fairness is about.         *)
THEOREM AgentTyped == AgentSpec => [](AgentTypeOK /\ DOMAIN runs \subseteq 1 .. MaxRequests)
BY AgentBegins, AgentTypeIs, AgentKept, PTL DEF AgentSpec

(* What a capture thread has before it, once the channel it sends to is       *)
(* closed: opening leads to looping, looping to sending, sending to its end.  *)
ThreadLeft(capture) ==
    IF capture = "opening" THEN 3 ELSE IF capture = "looping" THEN 2
    ELSE IF capture = "sending" THEN 1 ELSE 0

(* The reader that ended stays so, and requests only get fewer; a process     *)
(* that exits starts no run, and each step of a capture thread brings that    *)
(* thread closer to its end, unless a call fails (there are MaxAgentFaults);  *)
(* a process that is gone does nothing.                                       *)
WindingDown ==
    /\ readerAt = "ended" =>
          readerAt' = "ended" /\ (requests' # requests => Len(requests') < Len(requests))
    /\ processAt = "exiting" =>
          /\ processAt' \in {"exiting", "gone"} /\ DOMAIN runs' = DOMAIN runs
          /\ \A r \in DOMAIN runs :
                \/ runs'[r] = runs[r]
                \/ ThreadLeft(runs'[r].capture) < ThreadLeft(runs[r].capture)
                \/ agentBudget'.faults > agentBudget.faults
    /\ processAt = "gone" => UNCHANGED agentVars

(* A step of a capture thread while the process exits.                       *)
LEMMA ThreadSteps ==
    ASSUME AgentFields, processAt = "exiting", NEW r \in DOMAIN runs, CaptureThread(r), NEW q \in DOMAIN runs
    PROVE  /\ DOMAIN runs' = DOMAIN runs
           /\ \/ runs'[q] = runs[q]
              \/ ThreadLeft(runs'[q].capture) < ThreadLeft(runs[q].capture)
              \/ agentBudget'.faults > agentBudget.faults
<1>0. /\ runs \in Seq(RunRecords) /\ runs[r] \in RunRecords /\ DOMAIN runs = 1 .. Len(runs)
      /\ agentBudget \in [requests : 0 .. MaxRequests, faults : 0 .. MaxAgentFaults]
      /\ agentBudget.faults \in Nat
  BY AgentNumbers, AgentConstants DEF AgentFields
<1>1. AgentFault => agentBudget'.faults > agentBudget.faults
  BY <1>0 DEF AgentFault
<1>2. \E next \in {"looping", "sending", "ended", "opening"} :
         /\ runs' = [runs EXCEPT ![r] = [runs[r] EXCEPT !.capture = next]]
         /\ \/ AgentFault
            \/ runs[r].capture = "opening" /\ next = "looping"
            \/ runs[r].capture = "looping" /\ next = "sending"
            \/ runs[r].capture = "sending" /\ next = "ended"
  BY DEF CaptureThread, OpenDuplication, CaptureFrame, SendFrame, Set, Live
<1>3. PICK next \in {"looping", "sending", "ended", "opening"} :
         /\ runs' = [runs EXCEPT ![r] = [runs[r] EXCEPT !.capture = next]]
         /\ \/ AgentFault
            \/ runs[r].capture = "opening" /\ next = "looping"
            \/ runs[r].capture = "looping" /\ next = "sending"
            \/ runs[r].capture = "sending" /\ next = "ended"
  BY <1>2
<1>4. /\ DOMAIN runs' = DOMAIN runs /\ (q # r => runs'[q] = runs[q])
      /\ runs'[r].capture = next
  BY <1>0, <1>3 DEF RunRecords
<1>5. AgentFault \/ ThreadLeft(runs'[r].capture) < ThreadLeft(runs[r].capture)
  BY <1>3, <1>4 DEF ThreadLeft
<1> QED BY <1>1, <1>4, <1>5

(* There is no reader before the connection.                                 *)
ReaderComesLater == processAt = "connecting" => readerAt = "none"

(* A process never connects again.                                           *)
LEMMA ReaderStays == ReaderComesLater /\ [AgentNext]_agentVars => ReaderComesLater'
BY DEF ReaderComesLater, AgentNext, agentVars, Connect, ReaderEnds, WriterEnds, TakeRequest, MainReturns, ProcessEnds,
       ReadRequest, StartVideo, AcceptOffer, HelloFails, CaptureThread, OpenDuplication, CaptureFrame, SendFrame,
       TakeFrame, Live

(* Every step winds down.                                                    *)
LEMMA StepsWindDown ==
    ASSUME AgentFields, ReaderComesLater, [AgentNext]_agentVars
    PROVE  WindingDown
<1>0. requests \in Seq(RequestIds)
  BY DEF AgentFields
<1>1. ASSUME NEW r \in DOMAIN runs, CaptureThread(r) PROVE WindingDown
  <2>1. UNCHANGED <<processAt, readerAt, requests>> /\ processAt # "gone"
    BY <1>1 DEF CaptureThread, OpenDuplication, CaptureFrame, SendFrame
  <2>2. ASSUME processAt = "exiting"
        PROVE  /\ DOMAIN runs' = DOMAIN runs
               /\ \A q \in DOMAIN runs :
                     \/ runs'[q] = runs[q]
                     \/ ThreadLeft(runs'[q].capture) < ThreadLeft(runs[q].capture)
                     \/ agentBudget'.faults > agentBudget.faults
    BY <1>1, <2>2, ThreadSteps
  <2> QED BY <2>1, <2>2 DEF WindingDown
<1>2. ASSUME NEW r \in DOMAIN runs, StartVideo(r) \/ AcceptOffer(r) \/ HelloFails(r) \/ TakeFrame(r)
      PROVE  WindingDown
  BY <1>2 DEF StartVideo, AcceptOffer, HelloFails, TakeFrame, Live, WindingDown
<1>3. CASE TakeRequest
  <2>1. requests # <<>> /\ requests' = Tail(requests) /\ processAt = "serving" /\ readerAt' = readerAt
    BY <1>3 DEF TakeRequest, Live
  <2>2. Len(requests') < Len(requests)
    BY <1>0, <2>1, HeadTailProperties, LenProperties
  <2> QED BY <2>1, <2>2 DEF WindingDown
<1>4. CASE MainReturns
  <2>1. processAt = "serving" /\ readerAt' = "ended" /\ requests' = <<>>
    BY <1>4 DEF MainReturns, Live
  <2>2. requests # <<>> => Len(requests') < Len(requests)
    <3>1. Len(requests) \in Nat /\ (requests # <<>> => Len(requests) # 0) /\ Len(<<>>) = 0
      BY <1>0, LenProperties, EmptySeq
    <3> QED BY <2>1, <3>1
  <2> QED BY <2>1, <2>2 DEF WindingDown
<1>5. CASE Connect \/ ReaderEnds \/ WriterEnds \/ ProcessEnds \/ \E id \in RequestIds : ReadRequest(id)
  <2>1. CASE Connect
    BY <2>1 DEF Connect, WindingDown, ReaderComesLater
  <2>2. CASE ReaderEnds \/ WriterEnds \/ \E id \in RequestIds : ReadRequest(id)
    BY <2>2 DEF ReaderEnds, WriterEnds, ReadRequest, Live, WindingDown
  <2>3. CASE ProcessEnds
    BY <2>3 DEF ProcessEnds, WindingDown
  <2> QED BY <1>5, <2>1, <2>2, <2>3
<1>6. CASE UNCHANGED agentVars
  BY <1>6 DEF agentVars, WindingDown
<1> QED BY <1>1, <1>2, <1>3, <1>4, <1>5, <1>6 DEF AgentNext

(* Once it left the connection to the server, a process starts nothing more,  *)
(* and what its capture threads still do brings them to their end, but for a  *)
(* call that fails: the safety part of AgentProcessExits (run_standalone,     *)
(* capture_loop).                                                             *)
THEOREM AgentWindsDown == AgentSpec => [][WindingDown]_agentVars
<1>1. AgentInit => ReaderComesLater
  BY DEF AgentInit, ReaderComesLater
<1> QED BY <1>1, AgentBegins, AgentKept, ReaderStays, StepsWindDown, PTL DEF AgentSpec

=============================================================================
