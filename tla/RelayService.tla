---------------------------- MODULE RelayService ----------------------------
(***************************************************************************)
(* What the signaling relay promises, with every handler in one step.      *)
(*                                                                         *)
(* A machine has one slot.  A newly connected agent socket takes it, also  *)
(* from an older socket; a socket that had it once never has it again.  A  *)
(* session is recorded pending, becomes active at most once and only for a *)
(* machine some agent connected for, and stays ended once it has ended.    *)
(***************************************************************************)
CONSTANTS Machines, AgentSockets, Sessions, AgentMachine, SessionMachine, None

VARIABLES
    holder,   \* the socket in a machine's slot, or None
    served,   \* sockets that are past their registration, or dead
    status    \* of a session

vars == <<holder, served, status>>

Init ==
    /\ holder = [m \in Machines |-> None]
    /\ served = {}
    /\ status = [s \in Sessions |-> "none"]

\* A new socket takes its machine's slot.
Register(a) ==
    /\ a \notin served
    /\ served' = served \cup {a}
    /\ holder' = [holder EXCEPT ![AgentMachine[a]] = a]
    /\ UNCHANGED status

\* The slot is given up.
Release(m) ==
    /\ holder[m] # None
    /\ holder' = [holder EXCEPT ![m] = None]
    /\ UNCHANGED <<served, status>>

\* The server restarts: all slots are free, and open sockets are dead.
Restart ==
    /\ holder' = [m \in Machines |-> None]
    /\ served \subseteq served' /\ served' \subseteq AgentSockets
    /\ UNCHANGED status

Provision(s) ==
    /\ status[s] = "none"
    /\ status' = [status EXCEPT ![s] = "pending"]
    /\ UNCHANGED <<holder, served>>

Activate(s) ==
    /\ status[s] = "pending"
    /\ \E a \in served : AgentMachine[a] = SessionMachine[s]
    /\ status' = [status EXCEPT ![s] = "active"]
    /\ UNCHANGED <<holder, served>>

\* Recorded sessions end, several at once when their agent goes.
End(S) ==
    /\ \A s \in S : status[s] \in {"pending", "active"}
    /\ status' = [s \in Sessions |-> IF s \in S THEN "ended" ELSE status[s]]
    /\ UNCHANGED <<holder, served>>

Next ==
    \/ \E a \in AgentSockets : Register(a)
    \/ \E m \in Machines : Release(m)
    \/ Restart
    \/ \E s \in Sessions : Provision(s) \/ Activate(s)
    \/ \E S \in SUBSET Sessions : End(S)

Spec == Init /\ [][Next]_vars
=============================================================================
