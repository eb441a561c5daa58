---------------------------- MODULE WindowsService ----------------------------
(* The service controller of the Windows agent: one agent process per active *)
(* desktop session, kept by the session-change events of Windows and by a    *)
(* scan. The controller's own socket to the server is taken as it is.        *)
(*                                                                           *)
(* The controller enumerates the active sessions and acts on the result. A   *)
(* desktop that changes in between is the same as one that changes right     *)
(* after, so the two are one step; a spawn that fails for it is a fault.     *)
EXTENDS Naturals, Sequences, FiniteSets, SequencesExt

CONSTANTS
    Desktops,      \* desktop sessions of users (session 0 has none)
    MaxChanges,    \* bound on sessions that become active or inactive
    MaxChildExits, \* bound on agents that exit by themselves
    MaxSvcFaults,  \* bound on the kinds of Windows calls that fail, once each
    MaxStarts,     \* bound on starts of the service
    MaxArgument    \* length of the longest argument quoted

ASSUME ServiceAssumption ==
    /\ IsFiniteSet(Desktops)
    /\ {MaxChanges, MaxChildExits, MaxSvcFaults, MaxStarts, MaxArgument} \subseteq Nat

VARIABLES
    foreground, \* no service dispatcher: the controller runs in a console
    svcAt,      \* where the controller is
    svcEvents,  \* the events it has not handled
    stopAsked,  \* the service control manager (or Ctrl+C) asked it to stop
    active,     \* desktops with an active user session
    agentOf,    \* SessionAgents.agents, with what its process does
    orphans,    \* live agent processes of a desktop that no controller knows
    svcFailed,  \* the kinds of calls that have failed
    svcBudget   \* changes, exits and starts so far

serviceVars ==
    <<foreground, svcAt, svcEvents, stopAsked, active, agentOf, orphans, svcFailed, svcBudget>>

StopEvent == [up |-> FALSE, desktop |-> "stop"]
ServiceEvents == {StopEvent} \cup [up : BOOLEAN, desktop : Desktops]
Failures == {"connect", "enumerate", "spawn", "terminate", "query"}
LeavingCalls == {"enumerate", "terminate", "query"} \* those that can leave a process behind
NoAgents == [d \in Desktops |-> "none"]

ServiceTypeOK ==
    /\ foreground \in BOOLEAN
    /\ svcAt \in {"stopped", "connecting", "first scan", "loop", "ended"}
    /\ svcEvents \in Seq(ServiceEvents)
    /\ stopAsked \in BOOLEAN
    /\ active \subseteq Desktops
    /\ agentOf \in [Desktops -> {"none", "running", "exited"}]
    /\ orphans \in [Desktops -> Nat]
    /\ svcFailed \subseteq Failures
    /\ svcBudget \in [changes : 0 .. MaxChanges, exits : 0 .. MaxChildExits, starts : 0 .. MaxStarts]

ServiceInit(fg) ==
    /\ foreground = fg
    /\ svcAt = "stopped"
    /\ svcEvents = <<>>
    /\ stopAsked = FALSE
    /\ active = {}
    /\ agentOf = NoAgents
    /\ orphans = [d \in Desktops |-> 0]
    /\ svcFailed = {}
    /\ svcBudget = [changes |-> 0, exits |-> 0, starts |-> 0]

-----------------------------------------------------------------------------
(* The command line of an agent: every argument is quoted so that Windows'   *)
(* rules give it back. Characters are an ordinary one, and the three that    *)
(* the rules are about.                                                      *)

Space == " "
Quote == "\""
Slash == "\\"
Chars == {"x", Space, Quote, Slash}
Slashes(n) == [i \in 1 .. n |-> Slash]

QuoteChar(acc, ch) ==
    CASE ch = Slash -> [acc EXCEPT !.slashes = @ + 1]
      [] ch = Quote -> [out |-> acc.out \o Slashes(2 * acc.slashes + 1) \o <<Quote>>, slashes |-> 0]
      [] OTHER -> [out |-> acc.out \o Slashes(acc.slashes) \o <<ch>>, slashes |-> 0]

QuoteBody(arg) ==
    LET upTo[i \in 0 .. Len(arg)] ==
            IF i = 0 THEN [out |-> <<Quote>>, slashes |-> 0] ELSE QuoteChar(upTo[i - 1], arg[i])
    IN upTo[Len(arg)]

(* Mutant: the backslashes before the closing quote are not doubled.        *)
QuoteUndoubled(arg) ==
    LET body == QuoteBody(arg)
    IN body.out \o Slashes(body.slashes) \o <<Quote>>

quote_command_arg(arg) ==
    LET body == QuoteBody(arg)
    IN IF arg # <<>> /\ \A i \in DOMAIN arg : arg[i] \notin {Space, Quote, Slash}
       THEN arg
       ELSE body.out \o Slashes(2 * body.slashes) \o <<Quote>>

(* The two arguments that are not fixed text; the flags before them have no  *)
(* character that matters.                                                   *)
session_agent_command_line(url, token) ==
    quote_command_arg(url) \o <<Space>> \o quote_command_arg(token)

(* Windows: CommandLineToArgvW after the program's name. The parser is in a  *)
(* gap between arguments, in a word, or in a quoted part of one. The rule    *)
(* for two quotes in a row is left out: the quoting never writes them in a   *)
(* string.                                                                   *)
Within(at) == IF at = "gap" THEN "word" ELSE at

ParseChar(p, ch) ==
    LET flushed == p.cur \o Slashes(p.slashes)
        halved == p.cur \o Slashes(p.slashes \div 2)
    IN CASE ch = Slash -> [p EXCEPT !.slashes = @ + 1, !.at = Within(@)]
         [] ch = Quote ->
              IF p.slashes % 2 = 1 THEN [p EXCEPT !.cur = halved \o <<Quote>>, !.slashes = 0]
              ELSE [p EXCEPT !.cur = halved, !.slashes = 0,
                             !.at = IF @ = "quoted" THEN "word" ELSE "quoted"]
         [] ch = Space /\ p.at # "quoted" ->
              [args |-> IF p.at = "word" THEN Append(p.args, flushed) ELSE p.args,
               cur |-> <<>>, slashes |-> 0, at |-> "gap"]
         [] OTHER -> [p EXCEPT !.cur = Append(flushed, ch), !.slashes = 0, !.at = Within(@)]

ParseFrom(start, line) ==
    LET upTo[i \in 0 .. Len(line)] == IF i = 0 THEN start ELSE ParseChar(upTo[i - 1], line[i])
    IN upTo[Len(line)]

ParsedArguments(line) ==
    LET start == [args |-> <<>>, cur |-> <<>>, slashes |-> 0, at |-> "gap"]
    IN ParseFrom(start, Append(line, Space)).args

-----------------------------------------------------------------------------
(* A call fails, after those of failed: each kind at most once. The kinds    *)
(* are WTSEnumerateSessionsW, what spawn_session_agent needs,                *)
(* TerminateProcess, GetExitCodeProcess ("query"), and the connection.       *)
MayFail(call, failed) == call \notin failed /\ Cardinality(failed) < MaxSvcFaults
Fails(call, failed) == MayFail(call, failed) /\ svcFailed' = failed \cup {call}

(* One more process of d that no controller knows.                           *)
Left(left, d) == [left EXCEPT ![d] = @ + 1]

(* stop_session of each of ds: the entry goes whatever terminate achieves.   *)
(* One process may survive it: Windows refuses to terminate it, or does not  *)
(* say whether it runs, and then terminate does not try.                     *)
StopSessions(table, ds, left, failed) ==
    /\ agentOf' = [d \in Desktops |-> IF d \in ds THEN "none" ELSE table[d]]
    /\ \/ orphans' = left /\ svcFailed' = failed
       \/ \E call \in {"terminate", "query"}, d \in ds :
             /\ table[d] = "running"
             /\ Fails(call, failed) /\ orphans' = Left(left, d)

(* ensure_agent of each of ds: an entry in the table is an agent, running or *)
(* not, and a spawn that fails is only logged.                               *)
Ensured(ds, failing) ==
    [d \in Desktops |-> IF d \in ds \ failing /\ agentOf[d] = "none" THEN "running" ELSE agentOf[d]]

(* run_controller returns: the table is dropped, its processes are not.      *)
EndController(table, left) ==
    /\ svcAt' = "ended"
    /\ agentOf' = NoAgents
    /\ orphans' = [d \in Desktops |-> left[d] + IF table[d] = "running" THEN 1 ELSE 0]

(* reconcile_active_sessions on the table: agents for the active sessions,   *)
(* then none for the others; an enumeration that fails ends the controller.  *)
Reconcile(table, left, failed) ==
    LET present == [d \in Desktops |-> IF d \in active /\ table[d] = "none" THEN "running" ELSE table[d]]
    IN \/ StopSessions(present, Desktops \ active, left, failed) /\ svcAt' = "loop"
       \/ /\ Fails("spawn", failed)
          /\ \E d \in active :
                /\ table[d] = "none"
                /\ agentOf' = [e \in Desktops |->
                                 IF e = d \/ e \notin active THEN "none" ELSE present[e]]
          /\ orphans' = left
          /\ svcAt' = "loop"
       \/ Fails("enumerate", failed) /\ EndController(table, left)

(* service_dispatcher::start, or the foreground mode when it fails.         *)
StartService ==
    /\ svcAt = "stopped" /\ svcBudget.starts < MaxStarts
    /\ svcAt' = "connecting"
    /\ svcEvents' = <<>>
    /\ stopAsked' = FALSE
    /\ svcBudget' = [svcBudget EXCEPT !.starts = @ + 1]
    /\ UNCHANGED <<foreground, active, agentOf, orphans, svcFailed>>

(* The controller's connection to the server; nothing is handled before it.  *)
ConnectController ==
    /\ svcAt = "connecting"
    /\ \/ svcAt' = "first scan" /\ UNCHANGED <<agentOf, orphans, svcFailed>>
       \/ Fails("connect", svcFailed) /\ EndController(agentOf, orphans)
    /\ UNCHANGED <<foreground, svcEvents, stopAsked, active, svcBudget>>

FirstScan ==
    /\ svcAt = "first scan"
    /\ Reconcile(agentOf, orphans, svcFailed)
    /\ UNCHANGED <<foreground, svcEvents, stopAsked, active, svcBudget>>

(* Mutant: an agent that exited keeps its place in the table.               *)
ScanWithoutReaping ==
    /\ svcAt = "loop"
    /\ Reconcile(agentOf, orphans, svcFailed)
    /\ UNCHANGED <<foreground, svcEvents, stopAsked, active, svcBudget>>

(* reap_exited drops the entries of the agents that is_running denies: those *)
(* that exited, and one whose exit code Windows does not give, which runs on. *)
Reaped(misjudged) ==
    [d \in Desktops |-> IF agentOf[d] = "exited" \/ d \in misjudged THEN "none" ELSE agentOf[d]]

(* The tick of the scan: reap_exited, then the reconciliation.              *)
ScanTick ==
    /\ svcAt = "loop"
    /\ \/ Reconcile(Reaped({}), orphans, svcFailed)
       \/ /\ MayFail("query", svcFailed)
          /\ \E d \in Desktops :
                /\ agentOf[d] = "running"
                /\ Reconcile(Reaped({d}), Left(orphans, d), svcFailed \cup {"query"})
    /\ UNCHANGED <<foreground, svcEvents, stopAsked, active, svcBudget>>

(* handle_session_change.                                                   *)
HandleSessionChange ==
    /\ svcAt = "loop" /\ svcEvents # <<>> /\ Head(svcEvents) # StopEvent
    /\ svcEvents' = Tail(svcEvents)
    /\ LET d == Head(svcEvents).desktop
           up == Head(svcEvents).up
       IN \/ /\ ~up
             /\ StopSessions(agentOf, {d}, orphans, svcFailed) /\ UNCHANGED svcAt
          \/ /\ up /\ d \notin active
             /\ UNCHANGED <<agentOf, orphans, svcFailed, svcAt>>
          \/ /\ up /\ d \in active
             /\ \/ agentOf' = Ensured({d}, {}) /\ UNCHANGED svcFailed
                \/ agentOf' = Ensured({d}, {d}) /\ Fails("spawn", svcFailed)
             /\ UNCHANGED <<orphans, svcAt>>
          \/ /\ up
             /\ Fails("enumerate", svcFailed) /\ EndController(agentOf, orphans)
    /\ UNCHANGED <<foreground, stopAsked, active, svcBudget>>

StopRequested ==
    IF foreground THEN stopAsked ELSE svcEvents # <<>> /\ Head(svcEvents) = StopEvent

(* Mutant: the controller ends and leaves its agents.                       *)
StopWithoutAgents ==
    /\ svcAt = "loop" /\ StopRequested
    /\ EndController(agentOf, orphans)
    /\ UNCHANGED <<foreground, svcEvents, stopAsked, active, svcFailed, svcBudget>>

(* The stop event (or Ctrl+C) ends the loop; stop_all, then the end.        *)
StopController ==
    /\ svcAt = "loop" /\ StopRequested
    /\ StopSessions(agentOf, Desktops, orphans, svcFailed)
    /\ svcAt' = "ended"
    /\ UNCHANGED <<foreground, svcEvents, stopAsked, active, svcBudget>>

(* run_service_entry reports StopPending and Stopped, with exit code 0       *)
(* however the controller ended.                                             *)
ReportStopped ==
    /\ svcAt = "ended"
    /\ svcAt' = "stopped"
    /\ UNCHANGED <<foreground, svcEvents, stopAsked, active, agentOf, orphans, svcFailed, svcBudget>>

-----------------------------------------------------------------------------
(* Windows: the event handler queues what it accepts while the service runs. *)
Notify(event) ==
    svcEvents' = IF foreground \/ svcAt \in {"ended", "stopped"} THEN svcEvents
                 ELSE Append(svcEvents, event)

AskToStop ==
    /\ svcAt \in {"connecting", "first scan", "loop"} /\ ~stopAsked
    /\ foreground => svcAt = "loop" \* before it Ctrl+C just ends the process
    /\ stopAsked' = TRUE
    /\ Notify(StopEvent)
    /\ UNCHANGED <<foreground, svcAt, active, agentOf, orphans, svcFailed, svcBudget>>

ChangeBudget ==
    /\ svcBudget.changes < MaxChanges
    /\ svcBudget' = [svcBudget EXCEPT !.changes = @ + 1]

(* A user logs on, connects or unlocks.                                     *)
DesktopActive(d) ==
    /\ d \notin active /\ ChangeBudget
    /\ active' = active \cup {d}
    /\ Notify([up |-> TRUE, desktop |-> d])
    /\ UNCHANGED <<foreground, svcAt, stopAsked, agentOf, orphans, svcFailed>>

(* A user disconnects, which leaves the processes of the session, or logs    *)
(* off, which ends them.                                                     *)
DesktopInactive(d, logoff) ==
    /\ d \in active /\ ChangeBudget
    /\ active' = active \ {d}
    /\ Notify([up |-> FALSE, desktop |-> d])
    /\ agentOf' = [agentOf EXCEPT ![d] = IF logoff /\ @ = "running" THEN "exited" ELSE @]
    /\ orphans' = [orphans EXCEPT ![d] = IF logoff THEN 0 ELSE @]
    /\ UNCHANGED <<foreground, svcAt, stopAsked, svcFailed>>

(* An agent exits by itself (it does when its server connection ends).      *)
AgentExits(d) ==
    /\ agentOf[d] = "running" /\ svcBudget.exits < MaxChildExits
    /\ agentOf' = [agentOf EXCEPT ![d] = "exited"]
    /\ svcBudget' = [svcBudget EXCEPT !.exits = @ + 1]
    /\ UNCHANGED <<foreground, svcAt, svcEvents, stopAsked, active, orphans, svcFailed>>

ServiceNext ==
    \/ StartService \/ ConnectController \/ FirstScan \/ ScanTick
    \/ HandleSessionChange \/ StopController \/ ReportStopped \/ AskToStop
    \/ \E d \in Desktops :
          \/ DesktopActive(d) \/ AgentExits(d)
          \/ \E logoff \in BOOLEAN : DesktopInactive(d, logoff)

(* The controller runs: its connection attempt ends, the interval of the     *)
(* scan elapses, and select! does not starve the events for the scan.        *)
ServiceFairness ==
    /\ WF_serviceVars(ConnectController)
    /\ WF_serviceVars(FirstScan)
    /\ WF_serviceVars(ScanTick)
    /\ WF_serviceVars((HandleSessionChange \/ StopController))
    /\ WF_serviceVars(ReportStopped)

ServiceSpec == (\E fg \in BOOLEAN : ServiceInit(fg)) /\ [][ServiceNext]_serviceVars /\ ServiceFairness

-----------------------------------------------------------------------------
(* Of a desktop there are no more processes that no controller knows than    *)
(* calls failed that can leave one: a process that Windows would not         *)
(* terminate, one whose exit code it did not give (which counts as exited:   *)
(* the agent is neither kept nor terminated), and those of a controller that *)
(* ended because the sessions were not enumerated, beside which the next     *)
(* controller starts others. Each such failure leaves one, and nothing else  *)
(* does: not stopping, logging off, late events, spawns that fail or agents  *)
(* that exit (run_controller, SessionAgents).                                *)
AgentsAnswerToController ==
    \A d \in Desktops : orphans[d] <= Cardinality(svcFailed \cap LeavingCalls)

(* A desktop that stays active under a controller that stays up has a live   *)
(* agent again and again, whatever exits, fails to spawn once or is stopped  *)
(* by an event that came late (reap_exited, reconcile_active_sessions).      *)
DesktopKeepsAgent ==
    \A d \in Desktops :
        <>[](svcAt = "loop" /\ d \in active) => []<>(agentOf[d] = "running")

(* Whatever the server's address and the token are, the agent's process gets *)
(* the two arguments the controller was given (quote_command_arg under the   *)
(* rules of Windows).                                                        *)
AgentArgumentsSurvive ==
    svcAt = "connecting" /\ svcBudget = [changes |-> 0, exits |-> 0, starts |-> 1] =>
    \A url, token \in BoundedSeq(Chars, MaxArgument) :
        ParsedArguments(session_agent_command_line(url, token)) = <<url, token>>
=============================================================================
