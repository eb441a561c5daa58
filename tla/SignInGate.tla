------------------------------ MODULE SignInGate ------------------------------
(* What stands before a sign-in: the fixed-window limiter of the public        *)
(* authentication routes, the key it counts a request under, and the loopback  *)
(* redirect that a login carries through the provider in its signed state.     *)
EXTENDS Naturals, FiniteSets

CONSTANTS
    Addresses,   \* values of forwarding headers
    UserAgents,  \* values of the user agent header
    MaxAttempts, \* max_requests of the limiter
    Window,      \* its window
    StateTtl,    \* STATE_TTL_SECS, in the clock's units
    Leeway       \* what the JWT library grants past exp

ASSUME GateAssumption ==
    /\ {"absent", "empty"} \cap (Addresses \cup UserAgents) = {}
    /\ {MaxAttempts, Window, StateTtl} \subseteq Nat \ {0} /\ Leeway \in Nat

Header == Addresses \cup {"absent", "empty"}
AgentHeader == UserAgents \cup {"absent", "empty"}
Anonymous == <<"anonymous">>
LimiterKeys == {Anonymous} \cup ({"address"} \X Addresses) \cup ({"ua"} \X (AgentHeader \ {"absent"}))

(* auth_rate_limit. The second header is read only when the first is absent: *)
(* when that is empty the user agent decides, be it empty itself.            *)
KeyOf(forwarded, realIp, agent) ==
    LET address == IF forwarded = "absent" THEN realIp ELSE forwarded
    IN CASE address \in Addresses -> <<"address", address>>
         [] address \notin Addresses /\ agent # "absent" -> <<"ua", agent>>
         [] OTHER -> Anonymous

(* is_loopback_redirect, over the parts of a URI it looks at: what is before *)
(* the authority, and the authority without its port.                        *)
Authorities == {"127.0.0.1", "[::1]", "localhost", "user@127.0.0.1", "elsewhere"}
Redirects == [scheme : {"http://", "https://"}, authority : Authorities]
IsLoopbackRedirect(uri) == uri.scheme = "http://" /\ uri.authority \in {"127.0.0.1", "[::1]"}

VARIABLES
    bucket,   \* by key, [count, left |-> until reset_at]; left is 0 when there is none
    accepted, \* by key, the requests that passed less than a window ago, each
              \* with its age and its place among those of its bucket
    pending,  \* by age, the targets of the signed states issued then
    sentTo    \* where the token of the last callback went

gateVars == <<bucket, accepted, pending, sentTo>>

NoBucket == [count |-> 0, left |-> 0]

GateTypeOK ==
    /\ bucket \in [LimiterKeys -> [count : 0 .. MaxAttempts, left : 0 .. Window]]
    /\ accepted \in [LimiterKeys -> SUBSET [age : 0 .. Window - 1, nth : 1 .. MaxAttempts]]
    /\ pending \in [0 .. StateTtl + Leeway -> SUBSET {uri.authority : uri \in Redirects}]
    /\ sentTo \in Authorities \cup {"nobody", "caller"}

GateInit ==
    /\ bucket = [k \in LimiterKeys |-> NoBucket]
    /\ accepted = [k \in LimiterKeys |-> {}]
    /\ pending = [a \in 0 .. StateTtl + Leeway |-> {}]
    /\ sentTo = "nobody"

(* Mutant: a bucket expires one unit before its window is over.              *)
GateTickEarly ==
    /\ bucket' = [k \in LimiterKeys |->
          IF bucket[k].left <= 2 THEN NoBucket ELSE [bucket[k] EXCEPT !.left = @ - 1]]
    /\ accepted' = [k \in LimiterKeys |->
          {[age |-> a.age + 1, nth |-> a.nth] : a \in {b \in accepted[k] : b.age + 1 < Window}}]
    /\ pending' = [a \in 0 .. StateTtl + Leeway |-> IF a = 0 THEN {} ELSE pending[a - 1]]
    /\ UNCHANGED sentTo

(* Time passes. The expired buckets, which check() removes before it looks,  *)
(* are removed here.                                                         *)
GateTick ==
    /\ bucket' = [k \in LimiterKeys |->
          IF bucket[k].left <= 1 THEN NoBucket ELSE [bucket[k] EXCEPT !.left = @ - 1]]
    /\ accepted' = [k \in LimiterKeys |->
          {[age |-> a.age + 1, nth |-> a.nth] : a \in {b \in accepted[k] : b.age + 1 < Window}}]
    /\ pending' = [a \in 0 .. StateTtl + Leeway |-> IF a = 0 THEN {} ELSE pending[a - 1]]
    /\ UNCHANGED sentTo

(* Mutant: a request is refused only when the limit was passed.              *)
CheckTooLate(k) ==
    /\ bucket[k].count <= MaxAttempts
    /\ bucket' = [bucket EXCEPT ![k] =
          [count |-> @.count + 1, left |-> IF @.left = 0 THEN Window ELSE @.left]]
    /\ accepted' = [accepted EXCEPT ![k] = @ \cup {[age |-> 0, nth |-> bucket[k].count + 1]}]

(* RateLimiter::check, when it lets the request pass.                        *)
Check(k) ==
    /\ bucket[k].count < MaxAttempts
    /\ bucket' = [bucket EXCEPT ![k] =
          [count |-> @.count + 1, left |-> IF @.left = 0 THEN Window ELSE @.left]]
    /\ accepted' = [accepted EXCEPT ![k] = @ \cup {[age |-> 0, nth |-> bucket[k].count + 1]}]

(* login_init signs the target into a state; any other target is refused.    *)
LoginInit(k, uri) ==
    /\ Check(k)
    /\ pending' = IF IsLoopbackRedirect(uri) THEN [pending EXCEPT ![0] = @ \cup {uri.authority}] ELSE pending
    /\ UNCHANGED sentTo

(* The end of workos_callback: a state that is ours and has not expired      *)
(* names where the token goes; without a state the caller gets it; with a    *)
(* bad one, or when the exchange before failed, nobody does.                 *)
FinishCallback(k) ==
    /\ Check(k)
    /\ \/ \E age \in DOMAIN pending : sentTo' \in pending[age]
       \/ sentTo' \in {"caller", "nobody"}
    /\ UNCHANGED pending

GateNext ==
    \/ GateTick
    \/ \E k \in {KeyOf(forwarded, realIp, agent) : forwarded, realIp \in Header, agent \in AgentHeader} :
          FinishCallback(k) \/ \E uri \in Redirects : LoginInit(k, uri)

GateSpec == GateInit /\ [][GateNext]_gateVars

-----------------------------------------------------------------------------
(* The windows do not slide: what passes at the end of one bucket and at the *)
(* start of the next may come close together. But never do as many as twice  *)
(* max_requests of one key pass within less than a window: the first of a    *)
(* bucket is a window old when the next bucket opens (RateLimiter::check).   *)
BurstBounded == \A k \in LimiterKeys : Cardinality(accepted[k]) < 2 * MaxAttempts
=============================================================================
