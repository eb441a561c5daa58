----------------------------- MODULE MachineTokens -----------------------------
(* The registration token of one machine, in two tables: its hash in machines, *)
(* which an agent's token is compared with, and its history in machine_tokens. *)
(* A registration and a rotation are several statements outside a transaction; *)
(* requests of the owner overlap, and each statement may fail. Every request   *)
(* makes a token of its own, so a token has the name of its request.           *)
EXTENDS Naturals, FiniteSets

CONSTANTS
    Registration, \* the request that registers the machine
    Rotations,    \* rotate-token requests
    NoToken,      \* the hash of no row
    MaxDbFaults   \* bound on statements that fail

ASSUME TokensAssumption ==
    Registration \notin Rotations /\ NoToken \notin Rotations \cup {Registration} /\ MaxDbFaults \in Nat

TokenRequests == Rotations \cup {Registration}

VARIABLES
    machineRow, \* "absent", "present" or "deleted"
    tokenHash,  \* machines.registration_token_hash
    history,    \* machine_tokens: [token, revoked]
    asked,      \* by request, where its handler is
    knew,       \* by request, the tokens the owner had been given when it began
    retired,    \* the tokens given before a rotation or a deletion that succeeded
    dbFaults    \* statements that failed

tokenVars == <<machineRow, tokenHash, history, asked, knew, retired, dbFaults>>

Given == {r \in TokenRequests : asked[r] = "answered"}

TokensTypeOK ==
    /\ machineRow \in {"absent", "present", "deleted"}
    /\ tokenHash \in TokenRequests \cup {NoToken}
    /\ history \subseteq [token : TokenRequests, revoked : BOOLEAN]
    /\ asked \in [TokenRequests -> {"away", "owned", "revoked", "updated", "answered", "failed"}]
    /\ knew \in [TokenRequests -> SUBSET TokenRequests]
    /\ retired \subseteq TokenRequests
    /\ dbFaults \in 0 .. MaxDbFaults

TokensInit ==
    /\ machineRow = "absent" /\ tokenHash = NoToken /\ history = {}
    /\ asked = [r \in TokenRequests |-> "away"]
    /\ knew = [r \in TokenRequests |-> {}]
    /\ retired = {} /\ dbFaults = 0

(* Request r goes on from one statement to the next.                         *)
Steps(r, from, to) == asked[r] = from /\ asked' = [asked EXCEPT ![r] = to]

(* A handler whose statement failed returns at once.                         *)
StatementFails(r) ==
    /\ asked[r] \in {"owned", "revoked", "updated"} /\ dbFaults < MaxDbFaults
    /\ asked' = [asked EXCEPT ![r] = "failed"]
    /\ dbFaults' = dbFaults + 1
    /\ UNCHANGED <<machineRow, tokenHash, history, knew, retired>>

(* register_machine, of a requester who may add to the organization he named *)
(* (read before, written nowhere): the row with the hash, then the history's. *)
InsertMachine ==
    /\ Steps(Registration, "away", "updated")
    /\ machineRow' = "present" /\ tokenHash' = Registration
    /\ UNCHANGED <<history, knew, retired, dbFaults>>

(* The insertion of both handlers, after which they answer with the token. A *)
(* row of a deleted machine is refused by its foreign key.                   *)
InsertHistory(r) ==
    /\ \/ /\ machineRow = "present" /\ Steps(r, "updated", "answered")
          /\ history' = history \cup {[token |-> r, revoked |-> FALSE]}
          /\ retired' = retired \cup knew[r]
       \/ /\ machineRow = "deleted" /\ Steps(r, "updated", "failed")
          /\ UNCHANGED <<history, retired>>
    /\ UNCHANGED <<machineRow, tokenHash, knew, dbFaults>>

(* rotate_token verifies the ownership; a machine that is gone is not found. *)
VerifyOwnership(r) ==
    /\ r \in Rotations
    /\ \/ machineRow = "present" /\ Steps(r, "away", "owned")
       \/ machineRow = "deleted" /\ Steps(r, "away", "failed")
    /\ knew' = [knew EXCEPT ![r] = Given]
    /\ UNCHANGED <<machineRow, tokenHash, history, retired, dbFaults>>

RevokeOld(r) ==
    /\ Steps(r, "owned", "revoked")
    /\ history' = {[row EXCEPT !.revoked = TRUE] : row \in history}
    /\ UNCHANGED <<machineRow, tokenHash, knew, retired, dbFaults>>

(* Mutant: the new hash is not written to the machine's row.                 *)
UpdateForgotten(r) ==
    /\ Steps(r, "revoked", "updated")
    /\ UNCHANGED <<machineRow, tokenHash, history, knew, retired, dbFaults>>

(* The update of a row that is gone changes nothing and is no error.         *)
UpdateMachine(r) ==
    /\ Steps(r, "revoked", "updated")
    /\ tokenHash' = IF machineRow = "present" THEN r ELSE tokenHash
    /\ UNCHANGED <<machineRow, history, knew, retired, dbFaults>>

(* delete_machine: one statement; the rows that refer to the machine go too. *)
DeleteMachine ==
    /\ machineRow = "present"
    /\ machineRow' = "deleted" /\ tokenHash' = NoToken /\ history' = {}
    /\ retired' = retired \cup Given
    /\ UNCHANGED <<asked, knew, dbFaults>>

TokensNext ==
    \/ InsertMachine \/ DeleteMachine
    \/ \E r \in TokenRequests :
          StatementFails(r) \/ InsertHistory(r) \/ VerifyOwnership(r) \/ RevokeOld(r) \/ UpdateMachine(r)

TokensSpec == TokensInit /\ [][TokensNext]_tokenVars

-----------------------------------------------------------------------------
(* validate_agent_token: the machine's row decides, not the history.         *)
Validates(t) == machineRow = "present" /\ tokenHash = t

(* A token given to the owner before a rotation, or a deletion, which then   *)
(* succeeded is never accepted again, although rotations overlap and fail    *)
(* half-way (rotate_token, validate_agent_token). When no handler is running *)
(* and no statement failed, the token the machine accepts is one the owner   *)
(* was given, and the history has it as not revoked: the two tables, written *)
(* by separate statements, agree.                                            *)
TokensRotate ==
    /\ \A t \in retired : ~Validates(t)
    /\ (/\ machineRow = "present" /\ dbFaults = 0
        /\ \A r \in TokenRequests : asked[r] \in {"away", "answered", "failed"})
          => /\ tokenHash \in Given
             /\ [token |-> tokenHash, revoked |-> FALSE] \in history
=============================================================================
