-------------------------------- MODULE Billing --------------------------------
(* The plan of one organization: its checkouts, and the payment service's      *)
(* events, which come late, more than once and in any order. Every statement   *)
(* of a handler is a step; the payment service itself is external.             *)
EXTENDS Integers, Sequences, FiniteSets

CONSTANTS
    Ages,            \* how long ago, by the server's clock, a delivery was signed
    Tolerance,       \* WEBHOOK_TOLERANCE_SECS
    MaxSubscriptions, \* bound on checkouts that were paid
    MaxDeliveries,   \* bound on deliveries of events
    MaxMembers       \* bound on members

ASSUME BillingAssumption ==
    /\ Ages \subseteq Int /\ Tolerance \in Nat
    /\ {MaxSubscriptions, MaxDeliveries, MaxMembers} \subseteq Nat

VARIABLES
    plan,         \* organizations.plan
    subscription, \* stripe_subscription_id: the number of a paid checkout, or 0
    customers,    \* which rows have a stripe_customer_id
    seats,        \* seat_count
    members,      \* how many the organization has
    buyerIsAdmin, \* whether the buyer is an owner or admin of it now
    checkout,     \* the checkout being handled
    events,       \* the payment service's events, in the order things happened
    handling,     \* the completed checkout a webhook handler read the role for, or 0
    told,         \* events that were answered with success
    applied,      \* the latest event written to the organization
    excused,      \* something happened that the handlers do not cope with
    deliveries    \* deliveries so far

billingVars == <<plan, subscription, customers, seats, members, buyerIsAdmin, checkout, events,
                 handling, told, applied, excused, deliveries>>

Subscriptions == 1 .. MaxSubscriptions
EventNumbers == 0 .. 2 * MaxSubscriptions
NoCheckout == [at |-> "away", org |-> FALSE, quantity |-> 0]

BillingTypeOK ==
    /\ plan \in {"free", "team"} /\ subscription \in Subscriptions \cup {0}
    /\ customers \subseteq {"user", "organization"}
    /\ {seats, members} \subseteq 0 .. MaxMembers + 1 /\ buyerIsAdmin \in BOOLEAN
    /\ checkout \in [at : {"away", "allowed", "counted", "ready"}, org : BOOLEAN, quantity : 0 .. MaxMembers + 1]
    /\ events \in Seq([kind : {"completed", "deleted"}, org : BOOLEAN, sub : Subscriptions])
    /\ {handling, applied} \subseteq EventNumbers /\ told \subseteq DOMAIN events
    /\ excused \in BOOLEAN /\ deliveries \in 0 .. MaxDeliveries

BillingInit ==
    /\ plan = "free" /\ subscription = 0 /\ customers = {} /\ seats = 1
    /\ members = 0 /\ buyerIsAdmin = FALSE /\ checkout = NoCheckout
    /\ events = <<>> /\ handling = 0 /\ told = {} /\ applied = 0 /\ excused = FALSE /\ deliveries = 0

Paid == {events[e].sub : e \in DOMAIN events}
Ended == {events[e].sub : e \in {d \in DOMAIN events : events[d].kind = "deleted"}}
OfOrganization == {events[e].sub : e \in {d \in DOMAIN events : events[d].org}}
LiveSubscriptions == (Paid \ Ended) \cap OfOrganization

(* People join, leave and change their roles (Organizations).                *)
MembersChange ==
    /\ \E n \in 0 .. MaxMembers : members' = n /\ buyerIsAdmin' \in {FALSE, n > 0}
    /\ UNCHANGED <<plan, subscription, customers, seats, checkout, events, handling, told, applied, excused, deliveries>>

-----------------------------------------------------------------------------
(* create_checkout and CheckoutTarget::load.                                 *)

LoadTarget(org) ==
    /\ checkout.at = "away" /\ org => buyerIsAdmin
    /\ checkout' = IF org THEN [at |-> "allowed", org |-> TRUE, quantity |-> 0]
                          ELSE [at |-> "ready", org |-> FALSE, quantity |-> 1]
    /\ UNCHANGED <<plan, subscription, customers, seats, members, buyerIsAdmin, events, handling, told, applied, excused, deliveries>>

CountMembers ==
    /\ checkout.at = "allowed"
    /\ checkout' = [checkout EXCEPT !.at = "counted", !.quantity = IF members = 0 THEN 1 ELSE members]
    /\ UNCHANGED <<plan, subscription, customers, seats, members, buyerIsAdmin, events, handling, told, applied, excused, deliveries>>

(* The row says so already when the payment service then refuses.            *)
UpdateSeatCount ==
    /\ checkout.at = "counted"
    /\ seats' = checkout.quantity
    /\ checkout' = [checkout EXCEPT !.at = "ready"]
    /\ UNCHANGED <<plan, subscription, customers, members, buyerIsAdmin, events, handling, told, applied, excused, deliveries>>

(* The session is refused or never paid; or it is, and there is an event. A  *)
(* second subscription of the organization is not prevented.                 *)
PostCheckout ==
    /\ checkout.at = "ready"
    /\ checkout' = NoCheckout
    /\ \/ UNCHANGED <<events, excused>>
       \/ \E sub \in Subscriptions \ Paid :
             /\ sub = Cardinality(Paid) + 1
             /\ events' = Append(events, [kind |-> "completed", org |-> checkout.org, sub |-> sub])
             /\ excused' = (excused \/ (checkout.org /\ LiveSubscriptions # {}))
    /\ UNCHANGED <<plan, subscription, customers, seats, members, buyerIsAdmin, handling, told, applied, deliveries>>

CheckoutFails ==
    /\ checkout.at \in {"allowed", "counted"}
    /\ checkout' = NoCheckout
    /\ UNCHANGED <<plan, subscription, customers, seats, members, buyerIsAdmin, events, handling, told, applied, excused, deliveries>>

(* A subscription ends at the payment service.                               *)
SubscriptionEnds ==
    /\ \E sub \in Paid \ Ended : events' = Append(events,
          [kind |-> "deleted", org |-> sub \in OfOrganization, sub |-> sub])
    /\ UNCHANGED <<plan, subscription, customers, seats, members, buyerIsAdmin, checkout, handling, told, applied, excused, deliveries>>

-----------------------------------------------------------------------------
(* stripe_webhook.                                                           *)

(* verify_signature: a header names a time and any number of signatures,     *)
(* each made with some secret over some time and body; one of them must be   *)
(* ours over what came. The time may be off in either direction.             *)
SignedHeaders == [timed : BOOLEAN, age : Ages, signatures : SUBSET {"ours", "other secret", "other body"}]
Verified(header) ==
    /\ header.timed /\ header.age \in -Tolerance .. Tolerance
    /\ "ours" \in header.signatures

Delivered ==
    /\ deliveries < MaxDeliveries
    /\ \E header \in SignedHeaders : Verified(header)
    /\ deliveries' = deliveries + 1

(* A completed checkout: for an organization the buyer's role is read first, *)
(* and a buyer who is no admin any more is ignored with success.             *)
DeliverCompleted(e) ==
    /\ events[e].kind = "completed" /\ handling = 0 /\ Delivered
    /\ \/ /\ ~events[e].org
          /\ customers' = customers \cup {"user"} /\ told' = told \cup {e}
          /\ UNCHANGED <<handling, excused>>
       \/ /\ events[e].org /\ buyerIsAdmin
          /\ handling' = e /\ UNCHANGED <<customers, told, excused>>
       \/ /\ events[e].org /\ ~buyerIsAdmin
          /\ told' = told \cup {e} /\ excused' = TRUE /\ UNCHANGED <<customers, handling>>
    /\ UNCHANGED <<plan, subscription, seats, members, buyerIsAdmin, checkout, events, applied>>

(* Its event number, and whether a later one was written before it.          *)
Writes(e) ==
    /\ applied' = IF e > applied THEN e ELSE applied
    /\ excused' = (excused \/ e < applied)
    /\ told' = told \cup {e}

WriteTeam ==
    /\ handling # 0
    /\ plan' = "team" /\ subscription' = events[handling].sub
    /\ customers' = customers \cup {"organization"}
    /\ Writes(handling) /\ handling' = 0
    /\ UNCHANGED <<seats, members, buyerIsAdmin, checkout, events, deliveries>>

(* The write fails: the service is told so, and delivers the event again.    *)
WriteFails ==
    /\ handling # 0 /\ handling' = 0
    /\ UNCHANGED <<plan, subscription, customers, seats, members, buyerIsAdmin, checkout, events, told, applied, excused, deliveries>>

(* Mutant: the subscription is removed and the plan stays.                   *)
KeepPlan(e) ==
    /\ events[e].kind = "deleted" /\ Delivered
    /\ IF events[e].org
       THEN subscription' = 0 /\ Writes(e)
       ELSE told' = told \cup {e} /\ UNCHANGED <<subscription, applied, excused>>
    /\ UNCHANGED <<plan, customers, seats, members, buyerIsAdmin, checkout, events, handling>>

(* A deleted subscription, whichever it was.                                 *)
DeliverDeleted(e) ==
    /\ events[e].kind = "deleted" /\ Delivered
    /\ IF events[e].org
       THEN plan' = "free" /\ subscription' = 0 /\ Writes(e)
       ELSE told' = told \cup {e} /\ UNCHANGED <<plan, subscription, applied, excused>>
    /\ UNCHANGED <<customers, seats, members, buyerIsAdmin, checkout, events, handling>>

BillingNext ==
    \/ MembersChange \/ CountMembers \/ UpdateSeatCount \/ PostCheckout \/ CheckoutFails
    \/ SubscriptionEnds \/ WriteTeam \/ WriteFails
    \/ \E org \in BOOLEAN : LoadTarget(org)
    \/ \E e \in DOMAIN events : DeliverCompleted(e) \/ DeliverDeleted(e)

BillingSpec == BillingInit /\ [][BillingNext]_billingVars

-----------------------------------------------------------------------------
(* Once every event was taken, some more than once, some after failures and  *)
(* with other handlers in between: the organization is on the team plan just *)
(* when its subscription lives, and names it. That is, unless an event was   *)
(* written after a later one, two subscriptions lived at once, or a buyer    *)
(* was no admin any more, with which the handlers do not cope                *)
(* (stripe_webhook).                                                         *)
PlanFollowsSubscription ==
    (told = DOMAIN events /\ handling = 0 /\ ~excused) =>
        IF LiveSubscriptions = {} THEN plan = "free" /\ subscription = 0
        ELSE plan = "team" /\ subscription \in LiveSubscriptions
=============================================================================
