----------------------------- MODULE Organizations -----------------------------
(* One organization: who is in it and as what, and who is invited. Invitations *)
(* are handled in several statements outside a transaction, several requests   *)
(* at a time, while sign-ins write the same rows from what the identity        *)
(* provider says.                                                              *)
EXTENDS Naturals, FiniteSets

CONSTANTS
    Users,         \* people, with or without an account yet
    MixedCase,     \* those whose address the provider gives with capitals
    ProviderRoles, \* the roles the provider gives its members
    MaxInvitations, \* bound on invite_member requests
    MaxSignIns,    \* bound on sign-ins
    MaxOrgFaults   \* bound on statements that fail

ASSUME OrganizationsAssumption ==
    /\ MixedCase \subseteq Users /\ ProviderRoles \subseteq {"member", "admin", "owner"}
    /\ {MaxInvitations, MaxSignIns, MaxOrgFaults} \subseteq Nat

Invitations == 1 .. MaxInvitations
Nobody == "nobody"
NoRole == "none"
Roles == {"member", "admin", "owner"}

VARIABLES
    provided,    \* whether the organization is the provider's
    creator,     \* who created it here, or Nobody
    exists,      \* whether the organization's row exists
    accounts,    \* users with a row
    roles,       \* organization_members
    invites,     \* organization_invites: a role waiting, or NoRole
    invitations, \* by request, its handler
    signIn,      \* the callback being handled
    deeds,       \* [made |-> an owner asked for another owner, or the provider said so,
                 \*  acted |-> an owner asked for another role of who created the organization]
    orgBudget    \* [signIns, faults |-> so far]

orgVars == <<provided, creator, exists, accounts, roles, invites, invitations, signIn,
             deeds, orgBudget>>

NoInvitation == [at |-> "away", actor |-> Nobody, actorRole |-> NoRole, target |-> Nobody, role |-> NoRole]
Answered == [NoInvitation EXCEPT !.at = "done"]
NoSignIn == [at |-> "away", user |-> Nobody, role |-> NoRole]

OrganizationsTypeOK ==
    /\ provided \in BOOLEAN /\ exists \in BOOLEAN /\ creator \in Users \cup {Nobody}
    /\ accounts \subseteq Users
    /\ roles \in [Users -> Roles \cup {NoRole}] /\ invites \in [Users -> Roles \cup {NoRole}]
    /\ invitations \in [Invitations ->
          [at : {"away", "allowed", "known", "unknown", "granting", "granted", "done"},
           actor : Users \cup {Nobody}, actorRole : Roles \cup {NoRole},
           target : Users \cup {Nobody}, role : Roles \cup {NoRole}]]
    /\ signIn \in [at : {"away", "user", "organization", "membership", "invites"},
                   user : Users \cup {Nobody}, role : Roles \cup {NoRole}]
    /\ deeds \in [made : BOOLEAN, acted : BOOLEAN]
    /\ orgBudget \in [signIns : 0 .. MaxSignIns, faults : 0 .. MaxOrgFaults]

OrganizationsInit(fromProvider) ==
    /\ provided = fromProvider /\ creator = Nobody /\ exists = FALSE
    /\ accounts = {} /\ roles = [u \in Users |-> NoRole] /\ invites = [u \in Users |-> NoRole]
    /\ invitations = [i \in Invitations |-> NoInvitation] /\ signIn = NoSignIn
    /\ deeds = [made |-> FALSE, acted |-> FALSE]
    /\ orgBudget = [signIns |-> 0, faults |-> 0]

OrgFault ==
    /\ orgBudget.faults < MaxOrgFaults
    /\ orgBudget' = [orgBudget EXCEPT !.faults = @ + 1]

IsAdmin(u) == roles[u] \in {"admin", "owner"}

-----------------------------------------------------------------------------
(* create_organization: the row and its owner's membership in a transaction; *)
(* a slug that is taken is a bad request.                                    *)
CreateOrganization(u) ==
    /\ ~provided /\ ~exists /\ u \in accounts
    /\ exists' = TRUE /\ creator' = u
    /\ roles' = [roles EXCEPT ![u] = "owner"]
    /\ UNCHANGED <<provided, accounts, invites, invitations, signIn, deeds, orgBudget>>

(* Mutant: an admin may grant any role.                                      *)
AdminsGrantAll(actorRole, role) == actorRole \in {"owner", "admin"}

(* ensure_can_grant_role.                                                    *)
CanGrant(actorRole, role) ==
    \/ actorRole = "owner"
    \/ actorRole = "admin" /\ role # "owner"

(* invite_member: require_org_admin, and the checks of the role it grants.   *)
Allow(i, actor, target, role) ==
    /\ invitations[i].at = "away" /\ \A j \in 1 .. i - 1 : invitations[j].at # "away"
    /\ IsAdmin(actor) /\ CanGrant(roles[actor], role)
    /\ invitations' = [invitations EXCEPT ![i] =
          [at |-> "allowed", actor |-> actor, actorRole |-> roles[actor], target |-> target, role |-> role]]
    /\ deeds' = [made |-> deeds.made \/ (roles[actor] = "owner" /\ role = "owner"),
                 acted |-> deeds.acted \/ (roles[actor] = "owner" /\ target = creator)]
    /\ UNCHANGED <<provided, creator, exists, accounts, roles, invites, signIn, orgBudget>>

Goes(i, from, to) ==
    /\ invitations[i].at = from
    /\ invitations' = [invitations EXCEPT ![i] = IF to = "done" THEN Answered ELSE [@ EXCEPT !.at = to]]

(* The account is looked up by the lower-cased address, and accounts keep    *)
(* the address as the provider gave it.                                      *)
LookUpAccount(i) ==
    LET target == invitations[i].target
    IN /\ Goes(i, "allowed", IF target \in accounts \ MixedCase THEN "known" ELSE "unknown")
       /\ UNCHANGED <<provided, creator, exists, accounts, roles, invites, signIn, deeds, orgBudget>>

(* Mutant: the present role of the invited user is not asked for.            *)
ReadNoRole(i) ==
    /\ Goes(i, "known", "granting")
    /\ UNCHANGED <<provided, creator, exists, accounts, roles, invites, signIn, deeds, orgBudget>>

(* Only an owner changes what an owner is.                                   *)
ReadPresentRole(i) ==
    /\ invitations[i].at = "known"
    /\ IF invitations[i].actorRole # "owner" /\ roles[invitations[i].target] = "owner"
       THEN Goes(i, "known", "done") ELSE Goes(i, "known", "granting")
    /\ UNCHANGED <<provided, creator, exists, accounts, roles, invites, signIn, deeds, orgBudget>>

UpsertMember(i) ==
    /\ Goes(i, "granting", "granted")
    /\ roles' = [roles EXCEPT ![invitations[i].target] = invitations[i].role]
    /\ UNCHANGED <<provided, creator, exists, accounts, invites, signIn, deeds, orgBudget>>

MarkAccepted(i) ==
    /\ Goes(i, "granted", "done")
    /\ invites' = [invites EXCEPT ![invitations[i].target] = NoRole]
    /\ UNCHANGED <<provided, creator, exists, accounts, roles, signIn, deeds, orgBudget>>

UpsertInvite(i) ==
    /\ Goes(i, "unknown", "done")
    /\ invites' = [invites EXCEPT ![invitations[i].target] = invitations[i].role]
    /\ UNCHANGED <<provided, creator, exists, accounts, roles, signIn, deeds, orgBudget>>

InviteFails(i) ==
    /\ invitations[i].at \notin {"away", "done"} /\ OrgFault
    /\ invitations' = [invitations EXCEPT ![i] = Answered]
    /\ UNCHANGED <<provided, creator, exists, accounts, roles, invites, signIn, deeds>>

-----------------------------------------------------------------------------
(* workos_callback, from the profile on. A failure leaves what was written.  *)

BeginSignIn(u, role) ==
    /\ signIn.at = "away" /\ orgBudget.signIns < MaxSignIns
    /\ role = NoRole \/ provided
    /\ signIn' = [at |-> "user", user |-> u, role |-> role]
    /\ orgBudget' = [orgBudget EXCEPT !.signIns = @ + 1]
    /\ UNCHANGED <<provided, creator, exists, accounts, roles, invites, invitations, deeds>>

SignInGoes(from, to) ==
    /\ signIn.at = from
    /\ signIn' = IF to = "away" THEN NoSignIn ELSE [signIn EXCEPT !.at = to]

UpsertUser ==
    /\ signIn.at = "user"
    /\ SignInGoes("user", IF signIn.role = NoRole THEN "invites" ELSE "organization")
    /\ accounts' = accounts \cup {signIn.user}
    /\ UNCHANGED <<provided, creator, exists, roles, invites, invitations, deeds, orgBudget>>

UpsertOrganization ==
    /\ SignInGoes("organization", "membership")
    /\ exists' = TRUE
    /\ UNCHANGED <<provided, creator, accounts, roles, invites, invitations, deeds, orgBudget>>

(* The provider's role replaces the present one.                             *)
UpsertMembership ==
    /\ SignInGoes("membership", "invites")
    /\ roles' = [roles EXCEPT ![signIn.user] = signIn.role]
    /\ deeds' = [deeds EXCEPT !.made = @ \/ signIn.role = "owner"]
    /\ UNCHANGED <<provided, creator, exists, accounts, invites, invitations, orgBudget>>

(* accept_pending_invites: one statement, which compares addresses without   *)
(* their case; the invited role replaces the present one.                    *)
AcceptPendingInvites ==
    LET u == signIn.user
    IN /\ SignInGoes("invites", "away")
       /\ roles' = IF invites[u] = NoRole THEN roles ELSE [roles EXCEPT ![u] = invites[u]]
       /\ invites' = [invites EXCEPT ![u] = NoRole]
       /\ UNCHANGED <<provided, creator, exists, accounts, invitations, deeds, orgBudget>>

SignInFails ==
    /\ signIn.at # "away" /\ OrgFault
    /\ signIn' = NoSignIn
    /\ UNCHANGED <<provided, creator, exists, accounts, roles, invites, invitations, deeds>>

OrganizationsNext ==
    \/ \E u \in Users :
          CreateOrganization(u) \/ \E role \in ProviderRoles \cup {NoRole} : BeginSignIn(u, role)
    \/ \E i \in Invitations :
          \/ \E actor, target \in Users, role \in Roles : Allow(i, actor, target, role)
          \/ LookUpAccount(i) \/ ReadPresentRole(i) \/ UpsertMember(i) \/ MarkAccepted(i)
          \/ UpsertInvite(i) \/ InviteFails(i)
    \/ UpsertUser \/ UpsertOrganization \/ UpsertMembership \/ AcceptPendingInvites \/ SignInFails

OrganizationsSpec == (\E fromProvider \in BOOLEAN : OrganizationsInit(fromProvider)) /\ [][OrganizationsNext]_orgVars

-----------------------------------------------------------------------------
(* However the requests of admins and members interleave with each other and *)
(* with sign-ins, and wherever they fail: as long as no owner asked for a    *)
(* second owner, and the provider named none, nobody but who created the     *)
(* organization owns it; and as long as no owner gave him another role he    *)
(* owns it still, unless his address has capitals, when an invitation for it *)
(* is not recognized as his (invite_member, ensure_can_grant_role,           *)
(* accept_pending_invites).                                                  *)
OwnersComeFromOwners ==
    LET owners == {u \in Users : roles[u] = "owner"}
    IN /\ deeds.made \/ owners \subseteq {creator}
       /\ deeds.acted \/ creator \in owners \cup MixedCase \cup {Nobody}
=============================================================================
