------------------------------ MODULE ClientApp ------------------------------
(***************************************************************************)
(* The desktop client: apps/client/src/app.rs, the sign-in task of auth.rs *)
(* and the session establishment of signaling.rs.                          *)
(*                                                                         *)
(* The UI thread draws frames.  A frame polls the sign-in result, then the *)
(* connect result, then draws the screen and handles a click on it.        *)
(* Signing in, connecting and closing run in background tasks, each with   *)
(* the sending half of a channel whose receiving half is in App; giving up *)
(* drops the receiver and lets the task go on.                             *)
(*                                                                         *)
(* A session token stands for the user it signs in.  An attempt is one     *)
(* connect task, and the ClientSession it makes.                           *)
(***************************************************************************)
CONSTANTS
    Tokens,
    Logins,      \* places for sign-in tasks: how many there are at a time
    Attempts,    \* places for connect tasks and their sessions
    None

ASSUME ClientAssumption == None \notin Tokens \cup Logins \cup Attempts

VARIABLES
    screen,      \* App.state
    token,       \* App.auth_token
    shown,       \* whose user and machines App has
    authRx,      \* App.auth_rx: the task whose result is awaited
    connectRx,   \* App.connect_rx
    active,      \* App.active_session
    linkAuth,    \* App.use_deep_link_auth
    ui,          \* what the UI thread does next
    stored,      \* the token in the OS keychain
    login,       \* each sign-in task: its stage, and its token
    attempt,     \* stage of each connect task and its session
    signaling,   \* attempts whose signaling task runs and has a WebSocket
    loggedOut    \* auxiliary: logged out, and no sign-in begun since

appVars == <<screen, token, shown, authRx, connectRx, active, linkAuth>>
sessionVars == <<attempt, signaling>>
vars == <<appVars, ui, stored, login, sessionVars, loggedOut>>

-----------------------------------------------------------------------------
Screens == {"Login", "Authenticating", "Dashboard", "Connecting",
            "Connected", "Error"}

\* A login accepts the browser's connection, reads its request and fetches
\* the user and the machines; a resumed token or a deep link only fetches.
\* The result stays in the channel for as long as App has the receiver.
Running == {"accepting", "reading", "fetching"}
Result == {"succeeded", "failed", "dead"}
LoginTask == [at : Running \cup Result \cup {"unused"}, token : Tokens \cup {None}]
NoLogin == [at |-> "unused", token |-> None]

\* "broken" is a session on the screen whose connection to the host has
\* failed, "stranded" what is left of an attempt whose channel did not open.
Establishing == {"requesting", "offering", "awaiting", "opening"}
AttemptStage == Establishing \cup
    {"unused", "delivered", "failed", "dead", "adopted", "broken", "closing",
     "stranded"}

TypeApp ==
    /\ screen \in Screens
    /\ token \in Tokens \cup {None}
    /\ shown \in Tokens \cup {None}
    /\ authRx \in Logins \cup {None}
    /\ connectRx \in Attempts \cup {None}
    /\ active \in Attempts \cup {None}
    /\ linkAuth \in BOOLEAN
    /\ ui \in {"starting", "arguments", "poll_auth", "poll_connect", "draw"}
    /\ stored \in Tokens \cup {None}
    /\ loggedOut \in BOOLEAN

TypeTasks ==
    /\ login \in [Logins -> LoginTask]
    /\ \A f \in Logins :
          login[f].at \in {"fetching", "succeeded"} => login[f].token \in Tokens
    /\ attempt \in [Attempts -> AttemptStage]
    /\ signaling \in SUBSET Attempts

\* Every variable keeps its type, and a sign-in that fetches has a token.
TypeOK == TypeApp /\ TypeTasks

Init ==
    /\ screen = "Login" /\ token = None /\ shown = None
    /\ authRx = None /\ connectRx = None /\ active = None
    /\ linkAuth = FALSE /\ ui = "starting"
    /\ stored \in Tokens \cup {None}
    /\ login = [f \in Logins |-> NoLogin]
    /\ attempt = [a \in Attempts |-> "unused"]
    /\ signaling = {}
    /\ loggedOut = FALSE

-----------------------------------------------------------------------------
(* Parts that several operations share.                                    *)

\* Without its receiver a sign-in task's result is gone.
LoginUnawaited ==
    [f \in Logins |-> IF f = authRx /\ login[f].at \in Result THEN NoLogin
                                                              ELSE login[f]]

\* Spawn a sign-in task; an earlier receiver is dropped.
SpawnLogin(f, stage, t) ==
    /\ login[f] = NoLogin
    /\ login' = [LoginUnawaited EXCEPT ![f] = [at |-> stage, token |-> t]]
    /\ authRx' = f

AttemptBecomes(a, stage) == attempt' = [attempt EXCEPT ![a] = stage]

\* What is left of an attempt that failed: its signaling task, if it got so
\* far as to spawn one.
Remains(a) == IF a \in signaling THEN "stranded" ELSE "unused"

\* Without the receiver a connect task's result is gone, and a ClientSession
\* that is dropped aborts its signaling task.
Unawaited(a) ==
    IF a # connectRx THEN attempt[a]
    ELSE CASE attempt[a] = "delivered" -> "unused"
           [] attempt[a] \in {"failed", "dead"} -> Remains(a)
           [] OTHER -> attempt[a]

AbortUnread ==
    signaling' = {a \in signaling : ~(a = connectRx /\ attempt[a] = "delivered")}

\* The connect receiver is dropped, and a task spawned to close the session.
TeardownSession ==
    /\ connectRx' = None
    /\ active' = None
    /\ attempt' = [a \in Attempts |-> IF a = active THEN "closing" ELSE Unawaited(a)]
    /\ AbortUnread

-----------------------------------------------------------------------------
(* Starting, and the event loop.                                           *)

\* App::new resumes the stored token, unless the keychain cannot be read.
AppNew ==
    /\ ui = "starting"
    /\ ui' = "arguments"
    /\ linkAuth' \in BOOLEAN
    /\ \/ /\ stored # None
          /\ \E f \in Logins : SpawnLogin(f, "fetching", stored)
          /\ token' = stored
          /\ screen' = "Authenticating"
       \/ UNCHANGED <<screen, token, authRx, login>>
    /\ UNCHANGED <<shown, connectRx, active, stored, sessionVars, loggedOut>>

\* A remotekvm://auth?token= argument signs in.
HandleDeepLink ==
    /\ ui = "arguments"
    /\ TeardownSession
    /\ \E t \in Tokens, f \in Logins :
          token' = t /\ SpawnLogin(f, "fetching", t)
    /\ screen' = "Authenticating"
    /\ loggedOut' = FALSE
    /\ UNCHANGED <<shown, linkAuth, ui, stored>>

\* A deep link that does not parse, or that carries an error.
HandleBadDeepLink ==
    /\ ui = "arguments"
    /\ screen' = "Error"
    /\ UNCHANGED <<token, shown, authRx, connectRx, active, linkAuth, ui,
                   stored, login, sessionVars, loggedOut>>

RunEventLoop ==
    /\ ui = "arguments"
    /\ ui' = "poll_auth"
    /\ UNCHANGED <<appVars, stored, login, sessionVars, loggedOut>>

\* The window is closed between two frames and the client started again: the
\* tasks die with the process and only the keychain is left.
Relaunch ==
    /\ ui = "poll_auth"
    /\ screen' = "Login" /\ token' = None /\ shown' = None
    /\ authRx' = None /\ connectRx' = None /\ active' = None
    /\ linkAuth' = FALSE /\ ui' = "starting"
    /\ login' = [f \in Logins |-> NoLogin]
    /\ attempt' = [a \in Attempts |-> "unused"] /\ signaling' = {}
    /\ UNCHANGED <<stored, loggedOut>>

-----------------------------------------------------------------------------
(* A frame: poll_auth and poll_connect.                                    *)

PollAuthNothing ==
    /\ authRx # None => login[authRx].at \in Running
    /\ UNCHANGED <<screen, token, shown, authRx, stored, login>>

\* Mutant: a token that App already has is kept.
PollAuthSuccessKeepsToken ==
    /\ authRx # None
    /\ login[authRx].at = "succeeded"
    /\ stored' \in {login[authRx].token, stored}
    /\ token' = IF token = None THEN login[authRx].token ELSE token
    /\ shown' = login[authRx].token
    /\ screen' = "Dashboard"
    /\ authRx' = None
    /\ login' = LoginUnawaited

\* The token is saved for the next launch, which may fail.
PollAuthSuccess ==
    /\ authRx # None
    /\ login[authRx].at = "succeeded"
    /\ stored' \in {login[authRx].token, stored}
    /\ token' = login[authRx].token
    /\ shown' = login[authRx].token
    /\ screen' = "Dashboard"
    /\ authRx' = None
    /\ login' = LoginUnawaited

PollAuthFailure ==
    /\ authRx # None
    /\ login[authRx].at \in {"failed", "dead"}
    /\ token' = IF login[authRx].at = "failed" THEN None ELSE token
    /\ screen' = "Error"
    /\ authRx' = None
    /\ login' = LoginUnawaited
    /\ UNCHANGED <<shown, stored>>

PollAuth ==
    /\ ui = "poll_auth"
    /\ ui' = "poll_connect"
    /\ PollAuthNothing \/ PollAuthSuccess \/ PollAuthFailure
    /\ UNCHANGED <<connectRx, active, linkAuth, sessionVars, loggedOut>>

PollConnectNothing ==
    /\ connectRx # None => attempt[connectRx] \in Establishing
    /\ UNCHANGED <<screen, connectRx, active, attempt>>

PollConnectSuccess ==
    /\ connectRx # None
    /\ attempt[connectRx] = "delivered"
    /\ AttemptBecomes(connectRx, "adopted")
    /\ active' = connectRx
    /\ screen' = "Connected"
    /\ connectRx' = None

PollConnectFailure ==
    /\ connectRx # None
    /\ attempt[connectRx] \in {"failed", "dead"}
    /\ AttemptBecomes(connectRx, Remains(connectRx))
    /\ screen' = "Dashboard"
    /\ connectRx' = None
    /\ UNCHANGED active

PollConnect ==
    /\ ui = "poll_connect"
    /\ ui' = "draw"
    /\ PollConnectNothing \/ PollConnectSuccess \/ PollConnectFailure
    /\ UNCHANGED <<token, shown, authRx, linkAuth, stored, login, signaling,
                   loggedOut>>

-----------------------------------------------------------------------------
(* A frame: drawing the screen, and the click it finds.                    *)

NoClick == UNCHANGED <<appVars, stored, login, sessionVars, loggedOut>>

\* start_auth with a deep link: the answer will be an argument of another
\* process, and App awaits nothing new.
StartLinkAuth ==
    /\ screen = "Login" /\ linkAuth
    /\ screen' = "Authenticating"
    /\ loggedOut' = FALSE
    /\ UNCHANGED <<token, shown, authRx, connectRx, active, linkAuth, stored,
                   login, sessionVars>>

\* start_auth over loopback.  When the listener or the browser cannot be
\* opened the click changes nothing, which is NoClick.
StartLoopbackAuth ==
    /\ screen = "Login" /\ ~linkAuth
    /\ \E f \in Logins : SpawnLogin(f, "accepting", None)
    /\ screen' = "Authenticating"
    /\ loggedOut' = FALSE
    /\ UNCHANGED <<token, shown, connectRx, active, linkAuth, stored,
                   sessionVars>>

CancelSignIn ==
    /\ screen = "Authenticating"
    /\ authRx' = None
    /\ login' = LoginUnawaited
    /\ screen' = "Login"
    /\ UNCHANGED <<token, shown, connectRx, active, linkAuth, stored,
                   sessionVars, loggedOut>>

\* Mutant: the token stays in the keychain.
LogoutKeepsToken ==
    /\ screen = "Dashboard"
    /\ loggedOut' = TRUE
    /\ TeardownSession
    /\ token' = None /\ shown' = None
    /\ authRx' = None /\ login' = LoginUnawaited
    /\ screen' = "Login"
    /\ UNCHANGED <<linkAuth, stored>>

\* The keychain may refuse to delete the token.
Logout ==
    /\ screen = "Dashboard"
    /\ \/ stored' = None /\ loggedOut' = TRUE
       \/ UNCHANGED <<stored, loggedOut>>
    /\ TeardownSession
    /\ token' = None /\ shown' = None
    /\ authRx' = None /\ login' = LoginUnawaited
    /\ screen' = "Login"
    /\ UNCHANGED linkAuth

ConnectTo(a) ==
    /\ screen = "Dashboard"
    /\ attempt[a] = "unused"
    /\ IF token = None
         THEN screen' = "Error" /\ UNCHANGED <<attempt, connectRx>>
         ELSE /\ AttemptBecomes(a, "requesting")
              /\ connectRx' = a
              /\ screen' = "Connecting"
    /\ UNCHANGED <<token, shown, authRx, active, linkAuth, stored, login,
                   signaling, loggedOut>>

\* Mutant: the receiver is kept.
CancelConnectKeepsReceiver ==
    /\ screen = "Connecting"
    /\ screen' = "Dashboard"
    /\ UNCHANGED <<token, shown, authRx, connectRx, active, linkAuth, stored,
                   login, sessionVars, loggedOut>>

\* The task is not stopped: it goes on to connect to the host.
CancelConnect ==
    /\ screen = "Connecting"
    /\ connectRx' = None
    /\ attempt' = [a \in Attempts |-> Unawaited(a)]
    /\ AbortUnread
    /\ screen' = "Dashboard"
    /\ UNCHANGED <<token, shown, authRx, active, linkAuth, stored, login,
                   loggedOut>>

Disconnect ==
    /\ screen = "Connected"
    /\ TeardownSession
    /\ screen' = "Dashboard"
    /\ UNCHANGED <<token, shown, authRx, linkAuth, stored, login, loggedOut>>

BackToLogin ==
    /\ screen = "Error"
    /\ screen' = "Login"
    /\ UNCHANGED <<token, shown, authRx, connectRx, active, linkAuth, stored,
                   login, sessionVars, loggedOut>>

Click ==
    \/ NoClick
    \/ StartLinkAuth \/ StartLoopbackAuth \/ CancelSignIn \/ BackToLogin
    \/ Logout \/ Disconnect
    \/ (\E a \in Attempts : ConnectTo(a)) \/ CancelConnect

Draw ==
    /\ ui = "draw"
    /\ ui' = "poll_auth"
    /\ Click

UiThread == RunEventLoop \/ PollAuth \/ PollConnect \/ Draw

-----------------------------------------------------------------------------
(* The sign-in task.                                                       *)

LoginBecomes(f, stage, t) ==
    /\ login' = [login EXCEPT ![f] = [at |-> stage, token |-> t]]
    /\ UNCHANGED <<appVars, ui, stored, sessionVars, loggedOut>>

\* The task sends its result and ends; without a receiver nobody gets it.
LoginEnds(f, result) ==
    /\ login' = [login EXCEPT ![f] =
                    IF authRx = f THEN [login[f] EXCEPT !.at = result] ELSE NoLogin]
    /\ UNCHANGED <<appVars, ui, stored, sessionVars, loggedOut>>

AcceptCallback(f) ==
    login[f].at = "accepting" /\ LoginBecomes(f, "reading", None)

LoginTimeout(f) == login[f].at = "accepting" /\ LoginEnds(f, "failed")

\* The request carries a token, or an error, or ends early.
ReadCallback(f) ==
    /\ login[f].at = "reading"
    /\ \/ \E t \in Tokens : LoginBecomes(f, "fetching", t)
       \/ LoginEnds(f, "failed")

\* GET /me and GET /machines.
FetchSession(f) ==
    /\ login[f].at = "fetching"
    /\ LoginEnds(f, "succeeded") \/ LoginEnds(f, "failed")

\* A panic drops the sender with nothing sent.
LoginDies(f) == login[f].at \in Running /\ LoginEnds(f, "dead")

LoginNext(f) ==
    \/ AcceptCallback(f) \/ LoginTimeout(f)
    \/ ReadCallback(f) \/ FetchSession(f) \/ LoginDies(f)

-----------------------------------------------------------------------------
(* The connect task: connect_and_establish, establish_session.             *)

AttemptReaches(a, stage) ==
    /\ AttemptBecomes(a, stage)
    /\ UNCHANGED <<appVars, ui, stored, login, signaling, loggedOut>>

AttemptEnds(a, result) ==
    AttemptReaches(a, IF connectRx = a THEN result ELSE Remains(a))

\* POST /machines/{id}/connect and the WebSocket.
RequestSession(a) == attempt[a] = "requesting" /\ AttemptReaches(a, "offering")

\* The peer connection, the hello, the offer and the connect_request.
SendOffer(a) == attempt[a] = "offering" /\ AttemptReaches(a, "awaiting")

\* The answer is applied and the signaling task takes the WebSocket over.
ApplyAnswer(a) ==
    /\ attempt[a] = "awaiting"
    /\ AttemptBecomes(a, "opening")
    /\ signaling' = signaling \cup {a}
    /\ UNCHANGED <<appVars, ui, stored, login, loggedOut>>

\* Mutant: the answer is awaited without a timeout.
AnswerAwaited(a) == FALSE

AnswerTimeout(a) == attempt[a] = "awaiting" /\ AttemptEnds(a, "failed")

\* Any of the awaits before the answer fails; the WebSocket goes with it.
EstablishFails(a) ==
    /\ attempt[a] \in {"requesting", "offering", "awaiting"}
    /\ AttemptEnds(a, "failed")

\* Mutant: dropping a ClientSession leaves its signaling task alone.
ChannelOpensWithoutDrop(a) ==
    /\ attempt[a] = "opening"
    /\ AttemptBecomes(a, IF connectRx = a THEN "delivered" ELSE "unused")
    /\ UNCHANGED <<appVars, ui, stored, login, signaling, loggedOut>>

\* The control channel opens: the session goes to App, or is dropped when
\* nobody waits for it.
ChannelOpens(a) ==
    /\ attempt[a] = "opening"
    /\ AttemptBecomes(a, IF connectRx = a THEN "delivered" ELSE "unused")
    /\ signaling' = IF connectRx = a THEN signaling ELSE signaling \ {a}
    /\ UNCHANGED <<appVars, ui, stored, login, loggedOut>>

\* Mutant: the channel is awaited without a timeout.
OpenAwaited(a) == FALSE

\* There is no ClientSession yet to abort the signaling task: it goes on.
OpenTimeout(a) == attempt[a] = "opening" /\ AttemptEnds(a, "failed")

AttemptDies(a) == attempt[a] \in Establishing /\ AttemptEnds(a, "dead")

ConnectTask(a) ==
    \/ RequestSession(a) \/ SendOffer(a) \/ EstablishFails(a)
    \/ ApplyAnswer(a) \/ AnswerTimeout(a)
    \/ ChannelOpens(a) \/ OpenTimeout(a) \/ AttemptDies(a)

-----------------------------------------------------------------------------
(* What runs once a session is established.                                *)

\* The server closes the WebSocket, or reading or writing it fails.
SignalingEnds(a) ==
    /\ a \in signaling
    /\ signaling' = signaling \ {a}
    /\ AttemptBecomes(a, IF attempt[a] = "stranded" THEN "unused" ELSE attempt[a])
    /\ UNCHANGED <<appVars, ui, stored, login, loggedOut>>

\* The connection to the host fails; its state handler only logs it.
ConnectionFails(a) == attempt[a] = "adopted" /\ AttemptReaches(a, "broken")

\* ClientSession::close, in the task teardown_session spawned.
CloseSession(a) ==
    /\ attempt[a] = "closing"
    /\ AttemptBecomes(a, "unused")
    /\ signaling' = signaling \ {a}
    /\ UNCHANGED <<appVars, ui, stored, login, loggedOut>>

SessionNext(a) ==
    ConnectTask(a) \/ SignalingEnds(a) \/ ConnectionFails(a) \/ CloseSession(a)

-----------------------------------------------------------------------------
Next ==
    \/ AppNew \/ HandleDeepLink \/ HandleBadDeepLink \/ Relaunch
    \/ UiThread
    \/ \E f \in Logins : LoginNext(f)
    \/ \E a \in Attempts : SessionNext(a)

Spec == Init /\ [][Next]_vars

\* Frames are drawn, timers fire and spawned closes run.  Nothing says that
\* the browser, the server or the host answers, or that the user clicks.
Fairness ==
    /\ WF_vars(UiThread)
    /\ \A f \in Logins : WF_vars(LoginTimeout(f))
    /\ \A a \in Attempts :
          /\ WF_vars(AnswerTimeout(a))
          /\ WF_vars(OpenTimeout(a))
          /\ WF_vars(CloseSession(a))

FairSpec == Spec /\ Fairness

-----------------------------------------------------------------------------
(* Properties.                                                             *)

\* A connect result is awaited exactly on the connecting screen, a session is
\* held exactly on the connected one, and past the sign-in no sign-in result
\* is awaited: no late result moves the user to another screen, and no new
\* session replaces one that is still open.
ScreensConsistent ==
    /\ screen \in {"Dashboard", "Connecting", "Connected"} => authRx = None
    /\ (screen = "Connecting") <=> (connectRx # None)
    /\ (screen = "Connected") <=> (active # None)

\* The machines on the dashboard are those of the user whose token connects
\* to them, whichever sign-ins were resumed, given up and started again.
MachinesAreTheTokens ==
    screen \in {"Dashboard", "Connecting", "Connected"} =>
        token # None /\ shown = token

\* A signaling task belongs to an attempt that is under way, to the session
\* on the screen, or to one that waits to be read or to be closed, unless the
\* attempt ended before its channel opened; and a session that was on the
\* screen is closed when it leaves it.
SessionsAreOwned ==
    \A a \in Attempts :
        /\ a \in signaling => attempt[a] # "unused"
        /\ attempt[a] \in {"delivered", "failed", "dead"} => a = connectRx
        /\ attempt[a] \in {"adopted", "broken"} => a = active

\* After a logout that could delete the token nothing signs the user in
\* again, neither a task still running nor a relaunch, until they ask for it.
LogoutHolds ==
    loggedOut =>
        /\ token = None /\ stored = None
        /\ authRx = None /\ connectRx = None /\ active = None
        /\ screen \in {"Login", "Error"}

\* Once the offer is sent the connecting screen does not last: the host
\* answers, or its time runs out, and the answer's channel opens or does not.
ConnectingEnds ==
    \A a \in Attempts :
        (connectRx = a /\ attempt[a] = "awaiting") ~> connectRx # a

\* An attempt that was given up after its offer ends by itself and frees what
\* it holds, except for a signaling task whose control channel never opened.
GivenUpAttemptEnds ==
    \A a \in Attempts :
        (connectRx # a /\ attempt[a] = "awaiting") ~>
            attempt[a] \in {"unused", "stranded"}

\* docs/client/architecture.md:71: a connection error of a connected session
\* leads back to the dashboard.
ConnectionErrorReturns ==
    \A a \in Attempts :
        attempt[a] = "broken" ~> active # a

\* auth.rs:79: waiting for the login callback ends with the token or an
\* error, or the timeout elapses first.
LoginGivesUp ==
    \A f \in Logins :
        login[f].at = "accepting" ~> login[f].at \notin {"accepting", "reading"}
=============================================================================
