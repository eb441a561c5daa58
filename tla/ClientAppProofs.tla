--------------------------- MODULE ClientAppProofs ---------------------------
(***************************************************************************)
(* Proofs about ClientApp.  No task touches App: only the UI thread does,  *)
(* so the invariants about screens need one case per step of that thread,  *)
(* and those about sessions one more per step of a task.                   *)
(***************************************************************************)
EXTENDS ClientApp, Naturals, TLAPS

-----------------------------------------------------------------------------
\* What background tasks leave alone.
LEMMA TasksLeaveApp ==
    ASSUME \/ \E f \in Logins : LoginNext(f)
           \/ \E a \in Attempts : SessionNext(a)
    PROVE  UNCHANGED <<appVars, ui, stored, loggedOut>>
<1>1. ASSUME NEW f \in Logins, LoginNext(f)
      PROVE  UNCHANGED <<appVars, ui, stored, loggedOut>>
  BY <1>1 DEF LoginNext, AcceptCallback, LoginTimeout, ReadCallback, FetchSession,
              LoginDies, LoginBecomes, LoginEnds
<1>2. ASSUME NEW a \in Attempts, SessionNext(a)
      PROVE  UNCHANGED <<appVars, ui, stored, loggedOut>>
  BY <1>2 DEF SessionNext, ConnectTask, RequestSession, SendOffer, EstablishFails,
              ApplyAnswer, AnswerTimeout, ChannelOpens, OpenTimeout, AttemptDies,
              SignalingEnds, ConnectionFails, CloseSession, AttemptReaches, AttemptEnds
<1> QED
  BY <1>1, <1>2


\* A login task leaves the sessions alone, a connect task the logins.
LEMMA LoginLeavesSessions ==
    ASSUME NEW f \in Logins, LoginNext(f)
    PROVE  UNCHANGED sessionVars
BY DEF LoginNext, AcceptCallback, LoginTimeout, ReadCallback, FetchSession,
       LoginDies, LoginBecomes, LoginEnds

\* A session attempt moves no login.
LEMMA SessionLeavesLogins ==
    ASSUME NEW a \in Attempts, SessionNext(a)
    PROVE  UNCHANGED login
BY DEF SessionNext, ConnectTask, RequestSession, SendOffer, EstablishFails,
       ApplyAnswer, AnswerTimeout, ChannelOpens, OpenTimeout, AttemptDies,
       SignalingEnds, ConnectionFails, CloseSession, AttemptReaches, AttemptEnds

-----------------------------------------------------------------------------
(* Types.                                                                  *)

TypeLogins ==
    /\ login \in [Logins -> LoginTask]
    /\ \A f \in Logins :
          login[f].at \in {"fetching", "succeeded"} => login[f].token \in Tokens

TypeAttempts ==
    /\ attempt \in [Attempts -> AttemptStage]
    /\ signaling \in SUBSET Attempts

\* A sign-in task that loses its receiver, and one that is spawned.
LEMMA UnawaitedType ==
    ASSUME TypeOK, login' = LoginUnawaited
    PROVE  TypeLogins'
<1>1. NoLogin \in LoginTask
  BY DEF NoLogin, LoginTask
<1>2. login \in [Logins -> LoginTask]
  BY DEF TypeOK, TypeTasks
<1>3. \A f \in Logins : login'[f] \in {NoLogin, login[f]}
  BY <1>2 DEF LoginUnawaited
<1>4. login' \in [Logins -> LoginTask]
  BY <1>1, <1>2 DEF LoginUnawaited
<1> QED
  BY <1>3, <1>4 DEF TypeLogins, TypeOK, TypeTasks, NoLogin

\* A sign-in that starts takes a login of the right type.
LEMMA SpawnType ==
    ASSUME TypeOK, NEW f \in Logins, NEW t \in Tokens \cup {None},
           NEW stage \in {"accepting", "fetching"}, SpawnLogin(f, stage, t),
           stage = "fetching" => t \in Tokens
    PROVE  TypeLogins' /\ authRx' \in Logins
<1>1. NoLogin \in LoginTask /\ [at |-> stage, token |-> t] \in LoginTask
  BY DEF NoLogin, LoginTask, Running
<1>2. login \in [Logins -> LoginTask]
  BY DEF TypeOK, TypeTasks
<1>3. LoginUnawaited \in [Logins -> LoginTask]
  BY <1>1, <1>2 DEF LoginUnawaited
<1>4. login' \in [Logins -> LoginTask]
  BY <1>1, <1>3 DEF SpawnLogin
<1>5. \A g \in Logins : login'[g] \in {NoLogin, login[g], [at |-> stage, token |-> t]}
  BY <1>2, <1>3 DEF SpawnLogin, LoginUnawaited
<1> QED
  BY <1>4, <1>5 DEF TypeLogins, TypeOK, TypeTasks, NoLogin, SpawnLogin

\* What stays of the attempts after a teardown keeps its type.
LEMMA TeardownType ==
    ASSUME TypeOK, TeardownSession
    PROVE  TypeAttempts'
BY DEF TeardownSession, TypeAttempts, TypeOK, TypeTasks, Unawaited, Remains,
       AbortUnread, AttemptStage

\* The first state has its types.
LEMMA TypeInit == Init => TypeOK
<1> SUFFICES ASSUME Init PROVE TypeOK
  OBVIOUS
<1>1. TypeApp
  BY DEF Init, TypeApp, Screens
<1>2. TypeTasks
  <2>1. NoLogin \in LoginTask
    BY DEF NoLogin, LoginTask
  <2>2. \A f \in Logins : login[f] = NoLogin
    BY DEF Init
  <2>3. login \in [Logins -> LoginTask]
    BY <2>1 DEF Init
  <2>4. attempt \in [Attempts -> AttemptStage] /\ signaling \in SUBSET Attempts
    BY DEF Init, AttemptStage
  <2> QED
    BY <2>2, <2>3, <2>4 DEF TypeTasks, NoLogin
<1> QED
  BY <1>1, <1>2 DEF TypeOK

\* No step takes a variable out of its type.
LEMMA TypeStep ==
    ASSUME TypeOK, [Next]_vars
    PROVE  TypeOK'
<1> USE DEF TypeOK
<1>1. TypeApp'
  <2>1. CASE AppNew
    BY <2>1 DEF AppNew, SpawnLogin, TypeApp, Screens
  <2>2. CASE HandleDeepLink
    BY <2>2 DEF HandleDeepLink, TeardownSession, SpawnLogin, TypeApp, Screens
  <2>3. CASE HandleBadDeepLink
    BY <2>3 DEF HandleBadDeepLink, TypeApp, Screens
  <2>4. CASE Relaunch
    BY <2>4 DEF Relaunch, TypeApp, Screens
  <2>5. CASE RunEventLoop
    BY <2>5 DEF RunEventLoop, TypeApp, appVars
  <2>6. CASE PollAuth
    <3>1. CASE PollAuthNothing
      BY <2>6, <3>1 DEF PollAuth, PollAuthNothing, TypeApp
    <3>2. CASE PollAuthSuccess
      BY <2>6, <3>2 DEF PollAuth, PollAuthSuccess, TypeApp, TypeTasks, Screens
    <3>3. CASE PollAuthFailure
      BY <2>6, <3>3 DEF PollAuth, PollAuthFailure, TypeApp, Screens
    <3> QED
      BY <2>6, <3>1, <3>2, <3>3 DEF PollAuth
  <2>7. CASE PollConnect
    BY <2>7 DEF PollConnect, PollConnectNothing, PollConnectSuccess,
                PollConnectFailure, TypeApp, Screens
  <2>8. CASE Draw
    BY <2>8 DEF Draw, Click, NoClick, StartLinkAuth, StartLoopbackAuth, SpawnLogin,
                CancelSignIn, BackToLogin, Logout, Disconnect, ConnectTo,
                CancelConnect, TeardownSession, TypeApp, Screens, appVars
  <2>9. CASE \/ \E f \in Logins : LoginNext(f)
             \/ \E a \in Attempts : SessionNext(a)
    BY <2>9, TasksLeaveApp DEF TypeApp, appVars
  <2>10. CASE UNCHANGED vars
    BY <2>10 DEF vars, appVars, TypeApp
  <2> QED
    BY <2>1, <2>2, <2>3, <2>4, <2>5, <2>6, <2>7, <2>8, <2>9, <2>10 DEF Next, UiThread
<1>2. TypeLogins'
  <2>1. CASE AppNew
    <3>1. CASE stored # None /\ \E f \in Logins : SpawnLogin(f, "fetching", stored)
      BY <3>1, SpawnType DEF TypeApp
    <3>2. CASE UNCHANGED login
      BY <3>2 DEF TypeLogins, TypeTasks
    <3> QED
      BY <2>1, <3>1, <3>2 DEF AppNew
  <2>2. CASE HandleDeepLink
    BY <2>2, SpawnType DEF HandleDeepLink
  <2>3. CASE Relaunch
    BY <2>3 DEF Relaunch, TypeLogins, NoLogin, LoginTask
  <2>4. CASE PollAuth
    <3>1. CASE PollAuthNothing
      BY <3>1 DEF PollAuthNothing, TypeLogins, TypeTasks
    <3>2. CASE PollAuthSuccess \/ PollAuthFailure
      BY <3>2, UnawaitedType DEF PollAuthSuccess, PollAuthFailure
    <3> QED
      BY <2>4, <3>1, <3>2 DEF PollAuth
  <2>5. CASE Draw
    <3>1. CASE StartLoopbackAuth
      BY <3>1, SpawnType DEF StartLoopbackAuth
    <3>2. CASE CancelSignIn \/ Logout
      BY <3>2, UnawaitedType DEF CancelSignIn, Logout
    <3>3. CASE UNCHANGED login
      BY <3>3 DEF TypeLogins, TypeTasks
    <3> QED
      BY <2>5, <3>1, <3>2, <3>3 DEF Draw, Click, NoClick, StartLinkAuth, BackToLogin,
         Disconnect, ConnectTo, CancelConnect
  <2>6. ASSUME NEW f \in Logins, LoginNext(f)
        PROVE  TypeLogins'
    <3>0. NoLogin \in LoginTask
      BY DEF NoLogin, LoginTask
    <3>1. ASSUME NEW t \in Tokens \cup {None}, NEW stage \in {"reading", "fetching"},
                 LoginBecomes(f, stage, t), stage = "fetching" => t \in Tokens
          PROVE  TypeLogins'
      BY <3>1 DEF LoginBecomes, TypeLogins, TypeTasks, LoginTask, Running
    <3>2. ASSUME NEW result \in Result, LoginEnds(f, result),
                 result = "succeeded" => login[f].token \in Tokens
          PROVE  TypeLogins'
      <4>1. [login[f] EXCEPT !.at = result] = [at |-> result, token |-> login[f].token]
        BY DEF TypeTasks, LoginTask
      <4>2. [login[f] EXCEPT !.at = result] \in LoginTask
        BY <4>1 DEF TypeTasks, LoginTask
      <4>3. login' \in [Logins -> LoginTask]
        BY <3>0, <3>2, <4>2 DEF LoginEnds, TypeTasks
      <4>4. login'[f] \in {[at |-> result, token |-> login[f].token], NoLogin}
        BY <3>2, <4>1 DEF LoginEnds, TypeTasks
      <4>5. \A g \in Logins \ {f} : login'[g] = login[g]
        BY <3>2 DEF LoginEnds, TypeTasks
      <4>6. login'[f].at \in {"fetching", "succeeded"} => login'[f].token \in Tokens
        BY <3>2, <4>4 DEF NoLogin, Result
      <4>7. \A g \in Logins : login'[g].at \in {"fetching", "succeeded"}
                                => login'[g].token \in Tokens
        BY <4>5, <4>6 DEF TypeTasks
      <4> QED
        BY <4>3, <4>7 DEF TypeLogins
    <3>3. CASE AcceptCallback(f)
      BY <3>1, <3>3 DEF AcceptCallback
    <3>4. CASE LoginTimeout(f)
      BY <3>2, <3>4 DEF LoginTimeout, Result
    <3>5. CASE ReadCallback(f)
      BY <3>1, <3>2, <3>5 DEF ReadCallback, Result
    <3>6. CASE FetchSession(f)
      BY <3>2, <3>6 DEF FetchSession, Result, TypeTasks
    <3>7. CASE LoginDies(f)
      BY <3>2, <3>7 DEF LoginDies, Result
    <3> QED
      BY <2>6, <3>3, <3>4, <3>5, <3>6, <3>7 DEF LoginNext
  <2>7. CASE UNCHANGED login
    BY <2>7 DEF TypeLogins, TypeTasks
  <2> QED
    BY <2>1, <2>2, <2>3, <2>4, <2>5, <2>6, <2>7, SessionLeavesLogins
       DEF Next, UiThread, HandleBadDeepLink, RunEventLoop, PollConnect, vars
<1>3. TypeAttempts'
  <2>1. CASE HandleDeepLink
    BY <2>1, TeardownType DEF HandleDeepLink
  <2>2. CASE Relaunch
    BY <2>2 DEF Relaunch, TypeAttempts, AttemptStage
  <2>3. CASE PollConnect
    BY <2>3 DEF PollConnect, PollConnectNothing, PollConnectSuccess,
                PollConnectFailure, AttemptBecomes, Remains, TypeAttempts, TypeTasks,
                AttemptStage
  <2>4. CASE Draw
    <3>1. CASE Logout \/ Disconnect
      BY <3>1, TeardownType DEF Logout, Disconnect
    <3>2. ASSUME NEW a \in Attempts, ConnectTo(a)
          PROVE  TypeAttempts'
      BY <3>2 DEF ConnectTo, AttemptBecomes, TypeAttempts, TypeTasks, AttemptStage,
                  Establishing
    <3>3. CASE CancelConnect
      BY <3>3 DEF CancelConnect, AbortUnread, Unawaited, Remains, TypeAttempts,
                  TypeTasks, AttemptStage
    <3>4. CASE UNCHANGED sessionVars
      BY <3>4 DEF sessionVars, TypeAttempts, TypeTasks
    <3> QED
      BY <2>4, <3>1, <3>2, <3>3, <3>4 DEF Draw, Click, NoClick, StartLinkAuth,
         StartLoopbackAuth, CancelSignIn, BackToLogin
  <2>5. ASSUME NEW a \in Attempts, SessionNext(a)
        PROVE  TypeAttempts'
    <3>1. CASE ConnectTask(a)
      BY <3>1 DEF ConnectTask, RequestSession, SendOffer, EstablishFails,
         ApplyAnswer, AnswerTimeout, ChannelOpens, OpenTimeout, AttemptDies,
         AttemptReaches, AttemptEnds, AttemptBecomes, Remains, TypeAttempts,
         TypeTasks, AttemptStage, Establishing
    <3>2. CASE SignalingEnds(a) \/ ConnectionFails(a) \/ CloseSession(a)
      BY <3>2 DEF SignalingEnds, ConnectionFails, CloseSession, AttemptReaches,
         AttemptBecomes, TypeAttempts, TypeTasks, AttemptStage
    <3> QED
      BY <2>5, <3>1, <3>2 DEF SessionNext
  <2>6. CASE UNCHANGED sessionVars
    BY <2>6 DEF sessionVars, TypeAttempts, TypeTasks
  <2> QED
    BY <2>1, <2>2, <2>3, <2>4, <2>5, <2>6, LoginLeavesSessions
       DEF Next, UiThread, AppNew, HandleBadDeepLink, RunEventLoop, PollAuth, vars
<1> QED
  BY <1>1, <1>2, <1>3 DEF TypeTasks, TypeLogins, TypeAttempts

\* Every variable of the client keeps its type, and a sign-in that fetches has
\* a token, however many sign-ins and connects run at a time.
THEOREM TypeCorrect == Spec => []TypeOK
<1>1. Init => TypeOK
  BY TypeInit
<1>2. TypeOK /\ [Next]_vars => TypeOK'
  BY TypeStep
<1> QED
  BY <1>1, <1>2, PTL DEF Spec
-----------------------------------------------------------------------------
(* The screens.                                                            *)

\* What a process has before its event loop runs.  ScreensConsistent is not
\* inductive without it: a deep link that is refused shows the error screen
\* and tears nothing down, which is right because nothing is there yet.
Launching ==
    /\ ui \in {"starting", "arguments"} => connectRx = None /\ active = None
    /\ ui = "starting" => screen = "Login" /\ token = None /\ authRx = None

ScreenInv == ScreensConsistent /\ Launching

\* An identifier of a task is not None.
LEMMA NotNone == \A x \in Tokens \cup Logins \cup Attempts : x # None
BY ClientAssumption

\* Every step leaves the screen in agreement with what is awaited.
LEMMA ScreenStep ==
    ASSUME TypeOK, ScreenInv, [Next]_vars
    PROVE  ScreenInv'
<1> USE DEF ScreenInv, ScreensConsistent, Launching
<1>1. CASE AppNew
  BY <1>1, NotNone DEF AppNew, SpawnLogin
<1>2. CASE HandleDeepLink
  BY <1>2 DEF HandleDeepLink, TeardownSession
<1>3. CASE HandleBadDeepLink
  BY <1>3 DEF HandleBadDeepLink
<1>4. CASE Relaunch
  BY <1>4 DEF Relaunch
<1>5. CASE RunEventLoop
  BY <1>5 DEF RunEventLoop, appVars
<1>6. CASE PollAuth
  BY <1>6 DEF PollAuth, PollAuthNothing, PollAuthSuccess, PollAuthFailure
<1>7. CASE PollConnect
  BY <1>7, NotNone DEF PollConnect, PollConnectNothing, PollConnectSuccess,
     PollConnectFailure, TypeOK, TypeApp
<1>8. CASE Draw
  <2>1. ASSUME NEW a \in Attempts, ConnectTo(a)
        PROVE  ScreensConsistent'
    BY <2>1, NotNone DEF ConnectTo
  <2>2. CASE ~ \E a \in Attempts : ConnectTo(a)
    BY <1>8, <2>2 DEF Draw, Click, NoClick, StartLinkAuth, StartLoopbackAuth,
       CancelSignIn, BackToLogin, Logout, Disconnect, CancelConnect,
       TeardownSession, appVars
  <2> QED
    BY <1>8, <2>1, <2>2 DEF Draw
<1>9. CASE \/ \E f \in Logins : LoginNext(f)
           \/ \E a \in Attempts : SessionNext(a)
  BY <1>9, TasksLeaveApp DEF appVars
<1>10. CASE UNCHANGED vars
  BY <1>10 DEF vars, appVars
<1> QED
  BY <1>1, <1>2, <1>3, <1>4, <1>5, <1>6, <1>7, <1>8, <1>9, <1>10 DEF Next, UiThread

\* The client begins so.
LEMMA ScreenInit == Init => ScreenInv
BY DEF Init, ScreenInv, ScreensConsistent, Launching

\* A connect result is awaited exactly on the connecting screen and a session
\* held exactly on the connected one: no late result moves the user, and no
\* session replaces one that is open.
THEOREM ScreensMatch == Spec => []ScreensConsistent
<1>1. Init => TypeOK /\ ScreenInv
  BY TypeInit, ScreenInit
<1>2. TypeOK /\ ScreenInv /\ [Next]_vars => (TypeOK /\ ScreenInv)'
  BY TypeStep, ScreenStep
<1>3. ScreenInv => ScreensConsistent
  BY DEF ScreenInv
<1> QED
  BY <1>1, <1>2, <1>3, PTL DEF Spec

-----------------------------------------------------------------------------
(* The token.                                                              *)

\* The screens past the sign-in are entered with the token that the data was
\* fetched with, and it cannot change there: no sign-in is awaited.
LEMMA TokenStep ==
    ASSUME TypeOK, ScreenInv, MachinesAreTheTokens, [Next]_vars
    PROVE  MachinesAreTheTokens'
<1> USE DEF MachinesAreTheTokens
<1>1. CASE AppNew \/ HandleDeepLink \/ HandleBadDeepLink \/ Relaunch \/ RunEventLoop
  BY <1>1 DEF AppNew, HandleDeepLink, HandleBadDeepLink, Relaunch, RunEventLoop,
     appVars, ScreenInv, Launching
<1>2. CASE PollAuth
  <2>1. CASE PollAuthSuccess
    <3>1. login[authRx].token \in Tokens
      BY <2>1 DEF PollAuthSuccess, TypeOK, TypeApp, TypeTasks
    <3> QED
      BY <2>1, <3>1, NotNone DEF PollAuthSuccess
  <2> QED
    BY <1>2, <2>1 DEF PollAuth, PollAuthNothing, PollAuthFailure
<1>3. CASE PollConnect
  BY <1>3 DEF PollConnect, PollConnectNothing, PollConnectSuccess,
     PollConnectFailure, ScreenInv, ScreensConsistent
<1>4. CASE Draw
  BY <1>4 DEF Draw, Click, NoClick, StartLinkAuth, StartLoopbackAuth, CancelSignIn,
     BackToLogin, Logout, Disconnect, ConnectTo, CancelConnect, appVars
<1>5. CASE \/ \E f \in Logins : LoginNext(f)
           \/ \E a \in Attempts : SessionNext(a)
  BY <1>5, TasksLeaveApp DEF appVars
<1>6. CASE UNCHANGED vars
  BY <1>6 DEF vars, appVars
<1> QED
  BY <1>1, <1>2, <1>3, <1>4, <1>5, <1>6 DEF Next, UiThread

\* The machines on the dashboard are those of the user whose token connects
\* to them; in particular connect_to always finds a token.
THEOREM TokenOfMachines == Spec => []MachinesAreTheTokens
<1>1. Init => TypeOK /\ ScreenInv /\ MachinesAreTheTokens
  BY TypeInit, ScreenInit DEF Init, MachinesAreTheTokens
<1>2. TypeOK /\ ScreenInv /\ MachinesAreTheTokens /\ [Next]_vars
      => (TypeOK /\ ScreenInv /\ MachinesAreTheTokens)'
  BY TypeStep, ScreenStep, TokenStep
<1> QED
  BY <1>1, <1>2, PTL DEF Spec

\* No step brings a token or a session back after a logout.
LEMMA LogoutStep ==
    ASSUME TypeOK, ScreenInv, LogoutHolds, [Next]_vars
    PROVE  LogoutHolds'
<1> USE DEF LogoutHolds
<1>1. CASE AppNew \/ HandleDeepLink \/ HandleBadDeepLink \/ Relaunch \/ RunEventLoop
  BY <1>1 DEF AppNew, HandleDeepLink, HandleBadDeepLink, Relaunch, RunEventLoop,
     appVars
<1>2. CASE PollAuth \/ PollConnect
  BY <1>2 DEF PollAuth, PollAuthNothing, PollAuthSuccess, PollAuthFailure,
     PollConnect, PollConnectNothing, PollConnectSuccess, PollConnectFailure
<1>3. CASE Draw
  BY <1>3 DEF Draw, Click, NoClick, StartLinkAuth, StartLoopbackAuth, CancelSignIn,
     BackToLogin, Logout, Disconnect, ConnectTo, CancelConnect, TeardownSession,
     appVars
<1>4. CASE \/ \E f \in Logins : LoginNext(f)
           \/ \E a \in Attempts : SessionNext(a)
  BY <1>4, TasksLeaveApp DEF appVars
<1>5. CASE UNCHANGED vars
  BY <1>5 DEF vars, appVars
<1> QED
  BY <1>1, <1>2, <1>3, <1>4, <1>5 DEF Next, UiThread

\* After a logout that could delete the token nothing signs the user in again,
\* across relaunches, until they ask for it.
THEOREM LoggedOut == Spec => []LogoutHolds
<1>1. Init => TypeOK /\ ScreenInv /\ LogoutHolds
  BY TypeInit, ScreenInit DEF Init, LogoutHolds
<1>2. TypeOK /\ ScreenInv /\ LogoutHolds /\ [Next]_vars
      => (TypeOK /\ ScreenInv /\ LogoutHolds)'
  BY TypeStep, ScreenStep, LogoutStep
<1> QED
  BY <1>1, <1>2, PTL DEF Spec
-----------------------------------------------------------------------------
(* The sessions.                                                           *)

\* What App awaits has not been consumed, and what it holds is open.
InPlace ==
    /\ connectRx # None =>
          attempt[connectRx] \in Establishing \cup {"delivered", "failed", "dead"}
    /\ active # None => attempt[active] \in {"adopted", "broken"}

OwnerInv == SessionsAreOwned /\ InPlace

\* teardown_session closes what is on the screen and drops what is not read.
LEMMA TeardownOwners ==
    ASSUME TypeOK, OwnerInv, TeardownSession
    PROVE  OwnerInv'
<1>1. \A a \in Attempts :
         attempt'[a] = IF a = active THEN "closing" ELSE Unawaited(a)
  BY DEF TeardownSession
<1>2. InPlace'
  BY DEF TeardownSession, InPlace
<1>3. ASSUME NEW a \in Attempts, a \in signaling'
      PROVE  attempt'[a] # "unused"
  BY <1>1, <1>3 DEF OwnerInv, SessionsAreOwned, TeardownSession, AbortUnread,
     Unawaited, Remains
<1>4. ASSUME NEW a \in Attempts
      PROVE  attempt'[a] \notin {"delivered", "failed", "dead", "adopted", "broken"}
  BY <1>1 DEF OwnerInv, SessionsAreOwned, Unawaited, Remains
<1> QED
  BY <1>2, <1>3, <1>4 DEF OwnerInv, SessionsAreOwned

\* A click gives a session that it ends no other owner.
LEMMA OwnerClick ==
    ASSUME TypeOK, ScreenInv, OwnerInv, Click
    PROVE  OwnerInv'
<1>1. CASE Logout \/ Disconnect
  BY <1>1, TeardownOwners DEF Logout, Disconnect
<1>2. ASSUME NEW a \in Attempts, ConnectTo(a)
      PROVE  OwnerInv'
  <2>1. connectRx = None /\ active = None
    BY <1>2 DEF ConnectTo, ScreenInv, ScreensConsistent
  <2>2. CASE token = None
    BY <1>2, <2>2 DEF ConnectTo, OwnerInv, SessionsAreOwned, InPlace
  <2>3. CASE token # None
    <3>1. attempt' = [attempt EXCEPT ![a] = "requesting"] /\ connectRx' = a
      BY <1>2, <2>3 DEF ConnectTo, AttemptBecomes
    <3>2. signaling' = signaling /\ active' = None
      BY <1>2, <2>1 DEF ConnectTo
    <3>3. attempt[a] = "unused"
      BY <1>2 DEF ConnectTo
    <3>4. attempt'[a] = "requesting"
      BY <3>1 DEF TypeOK, TypeTasks
    <3>5. \A x \in Attempts : x # a => attempt'[x] = attempt[x]
      BY <3>1 DEF TypeOK, TypeTasks
    <3>6. \A x \in Attempts : attempt[x] \notin
             {"delivered", "failed", "dead", "adopted", "broken"}
      BY <2>1, NotNone DEF OwnerInv, SessionsAreOwned
    <3>7. SessionsAreOwned'
      BY <3>2, <3>3, <3>4, <3>5, <3>6 DEF OwnerInv, SessionsAreOwned
    <3>8. InPlace'
      BY <3>1, <3>2, <3>4 DEF InPlace, Establishing
    <3> QED
      BY <3>7, <3>8 DEF OwnerInv
  <2> QED
    BY <2>2, <2>3
<1>3. CASE CancelConnect
  <2>1. active = None /\ active' = None /\ connectRx' = None
    BY <1>3 DEF CancelConnect, ScreenInv, ScreensConsistent
  <2>2. \A a \in Attempts : attempt'[a] = Unawaited(a)
    BY <1>3 DEF CancelConnect
  <2>3. ASSUME NEW a \in Attempts, a \in signaling'
        PROVE  attempt'[a] # "unused"
    BY <1>3, <2>2, <2>3 DEF CancelConnect, OwnerInv, SessionsAreOwned, AbortUnread,
       Unawaited, Remains
  <2>4. ASSUME NEW a \in Attempts
        PROVE  attempt'[a] \notin {"delivered", "failed", "dead", "adopted", "broken"}
    BY <2>1, <2>2, NotNone DEF OwnerInv, SessionsAreOwned, Unawaited, Remains
  <2> QED
    BY <2>1, <2>3, <2>4 DEF OwnerInv, SessionsAreOwned, InPlace
<1>4. CASE UNCHANGED <<sessionVars, connectRx, active>>
  BY <1>4 DEF OwnerInv, SessionsAreOwned, InPlace, sessionVars
<1> QED
  BY <1>1, <1>2, <1>3, <1>4 DEF Click, NoClick, StartLinkAuth, StartLoopbackAuth,
     CancelSignIn, BackToLogin, appVars

\* PollConnect adopts a session or leaves it to its attempt.
LEMMA OwnerPoll ==
    ASSUME TypeOK, ScreenInv, OwnerInv, PollConnect
    PROVE  OwnerInv'
<1> USE DEF OwnerInv, SessionsAreOwned, InPlace
<1>1. CASE PollConnectNothing
  BY <1>1 DEF PollConnect, PollConnectNothing
<1>2. CASE PollConnectSuccess
  <2>1. active = None /\ connectRx \in Attempts
    BY <1>2 DEF PollConnectSuccess, ScreenInv, ScreensConsistent, TypeOK, TypeApp
  <2>2. attempt' = [attempt EXCEPT ![connectRx] = "adopted"]
    BY <1>2 DEF PollConnectSuccess, AttemptBecomes
  <2> QED
    BY <1>2, <2>1, <2>2, NotNone DEF PollConnect, PollConnectSuccess, TypeOK, TypeTasks
<1>3. CASE PollConnectFailure
  <2>1. active = None /\ connectRx \in Attempts
    BY <1>3 DEF PollConnectFailure, ScreenInv, ScreensConsistent, TypeOK, TypeApp
  <2>2. attempt' = [attempt EXCEPT ![connectRx] = Remains(connectRx)]
    BY <1>3 DEF PollConnectFailure, AttemptBecomes
  <2> QED
    BY <1>3, <2>1, <2>2, NotNone
       DEF PollConnect, PollConnectFailure, Remains, TypeOK, TypeTasks
<1> QED
  BY <1>1, <1>2, <1>3 DEF PollConnect

\* A connect task that ends leaves its result with App or nothing behind.
LEMMA OwnerTask ==
    ASSUME TypeOK, OwnerInv, NEW a \in Attempts, SessionNext(a)
    PROVE  OwnerInv'
<1>1. UNCHANGED <<connectRx, active>>
  BY TasksLeaveApp DEF appVars
<1>2. attempt \in [Attempts -> AttemptStage]
  BY DEF TypeOK, TypeTasks
<1>3. ASSUME NEW stage \in AttemptStage, AttemptBecomes(a, stage),
             stage = "unused" => a \notin signaling',
             signaling' \subseteq signaling \cup {a},
             stage \in {"delivered", "failed", "dead"} => a = connectRx,
             stage \in {"adopted", "broken"} => a = active,
             a = connectRx =>
                stage \in Establishing \cup {"delivered", "failed", "dead"},
             a = active => stage \in {"adopted", "broken"}
      PROVE  OwnerInv'
  <2>1. attempt'[a] = stage
    BY <1>2, <1>3 DEF AttemptBecomes
  <2>2. \A x \in Attempts : x # a => attempt'[x] = attempt[x]
    BY <1>2, <1>3 DEF AttemptBecomes
  <2>3. SessionsAreOwned'
    BY <1>1, <1>3, <2>1, <2>2 DEF OwnerInv, SessionsAreOwned
  <2>4. InPlace'
    BY <1>1, <1>3, <2>1, <2>2 DEF OwnerInv, InPlace, TypeOK, TypeApp
  <2> QED
    BY <2>3, <2>4 DEF OwnerInv
<1>4. attempt[a] \in Establishing => a # active
  BY NotNone DEF OwnerInv, InPlace, Establishing
<1>5. ASSUME attempt[a] \in Establishing, NEW result \in {"failed", "dead"},
             AttemptEnds(a, result)
      PROVE  OwnerInv'
  BY <1>3, <1>4, <1>5 DEF AttemptEnds, AttemptReaches, Remains, AttemptStage
<1>6. CASE RequestSession(a) \/ SendOffer(a)
  <2>1. PICK stage \in {"offering", "awaiting"} : AttemptReaches(a, stage)
    BY <1>6 DEF RequestSession, SendOffer
  <2>2. attempt[a] \in Establishing /\ stage \in Establishing
    BY <1>6 DEF RequestSession, SendOffer, Establishing
  <2> QED
    BY <1>3, <1>4, <2>1, <2>2 DEF AttemptReaches, AttemptStage, Establishing
<1>7. CASE EstablishFails(a) \/ AnswerTimeout(a) \/ OpenTimeout(a) \/ AttemptDies(a)
  BY <1>5, <1>7 DEF EstablishFails, AnswerTimeout, OpenTimeout, AttemptDies, Establishing
<1>8. CASE ApplyAnswer(a)
  BY <1>3, <1>4, <1>8 DEF ApplyAnswer, AttemptStage, Establishing
<1>9. CASE ChannelOpens(a)
  BY <1>3, <1>4, <1>9 DEF ChannelOpens, AttemptStage, Establishing
<1>10. CASE SignalingEnds(a)
  <2>1. CASE attempt[a] = "stranded"
    BY <1>3, <1>10, <2>1, NotNone
       DEF SignalingEnds, AttemptStage, OwnerInv, InPlace, Establishing
  <2>2. CASE attempt[a] # "stranded"
    <3>1. attempt' = attempt /\ signaling' \subseteq signaling
      BY <1>2, <1>10, <2>2 DEF SignalingEnds, AttemptBecomes
    <3> QED
      BY <1>1, <3>1 DEF OwnerInv, SessionsAreOwned, InPlace
  <2> QED
    BY <2>1, <2>2
<1>11. CASE ConnectionFails(a)
  <2>1. a = active /\ a # connectRx
    BY <1>11, NotNone
       DEF ConnectionFails, OwnerInv, SessionsAreOwned, InPlace, Establishing
  <2> QED
    BY <1>3, <1>11, <2>1 DEF ConnectionFails, AttemptReaches, AttemptStage
<1>12. CASE CloseSession(a)
  <2>1. a # active /\ a # connectRx
    BY <1>12, NotNone DEF CloseSession, OwnerInv, InPlace, Establishing
  <2> QED
    BY <1>3, <1>12, <2>1 DEF CloseSession, AttemptStage
<1> QED
  BY <1>6, <1>7, <1>8, <1>9, <1>10, <1>11, <1>12 DEF SessionNext, ConnectTask

\* Every step leaves each session with one owner.
LEMMA OwnerStep ==
    ASSUME TypeOK, ScreenInv, OwnerInv, [Next]_vars
    PROVE  OwnerInv'
<1>1. CASE HandleDeepLink
  BY <1>1, TeardownOwners DEF HandleDeepLink
<1>2. CASE Relaunch
  BY <1>2 DEF Relaunch, OwnerInv, SessionsAreOwned, InPlace
<1>3. CASE PollConnect
  BY <1>3, OwnerPoll
<1>4. CASE Draw
  BY <1>4, OwnerClick DEF Draw
<1>5. CASE \E a \in Attempts : SessionNext(a)
  BY <1>5, OwnerTask
<1>6. CASE UNCHANGED <<sessionVars, connectRx, active>>
  BY <1>6 DEF OwnerInv, SessionsAreOwned, InPlace, sessionVars
<1>7. ASSUME NEW f \in Logins, LoginNext(f)
      PROVE  UNCHANGED <<sessionVars, connectRx, active>>
  BY <1>7, TasksLeaveApp, LoginLeavesSessions DEF appVars
<1> QED
  BY <1>1, <1>2, <1>3, <1>4, <1>5, <1>6, <1>7 DEF Next, UiThread, AppNew,
     HandleBadDeepLink, RunEventLoop, PollAuth, vars, appVars

\* Nothing an attempt opened is forgotten: a signaling task belongs to an
\* attempt under way, to the session on the screen or to one being closed,
\* unless its control channel never opened.
THEOREM Ownership == Spec => []SessionsAreOwned
<1>1. Init => TypeOK /\ ScreenInv /\ OwnerInv
  BY TypeInit, ScreenInit DEF Init, OwnerInv, SessionsAreOwned, InPlace
<1>2. TypeOK /\ ScreenInv /\ OwnerInv /\ [Next]_vars
      => (TypeOK /\ ScreenInv /\ OwnerInv)'
  BY TypeStep, ScreenStep, OwnerStep
<1>3. OwnerInv => SessionsAreOwned
  BY DEF OwnerInv
<1> QED
  BY <1>1, <1>2, <1>3, PTL DEF Spec

-----------------------------------------------------------------------------
(* Attempts that were given up.                                            *)

\* What an attempt goes through before its place is free again.
StagesLeft(stage) ==
    CASE stage = "requesting" -> 5
      [] stage = "offering" -> 4
      [] stage = "awaiting" -> 3
      [] stage = "opening" -> 2
      [] stage = "unused" -> 0
      [] OTHER -> 1

\* A task that App no longer awaits, or a session that it no longer holds.
GivenUp(a) == attempt[a] # "unused" /\ connectRx # a /\ active # a

\* It is not awaited and not held again, and each of its own steps takes it
\* further to its end.
StaysGivenUp(a) ==
    /\ connectRx' # a /\ active' # a
    /\ attempt'[a] = attempt[a] \/ StagesLeft(attempt'[a]) < StagesLeft(attempt[a])

\* The steps of a task that was given up.
LEMMA GivenUpTask ==
    ASSUME TypeOK, OwnerInv, NEW a \in Attempts, GivenUp(a), NEW b \in Attempts, SessionNext(b)
    PROVE  StaysGivenUp(a)
<1>1. UNCHANGED <<connectRx, active>>
  BY TasksLeaveApp DEF appVars
<1>2. attempt \in [Attempts -> AttemptStage]
  BY DEF TypeOK, TypeTasks
<1>3. attempt[a] \notin {"unused", "delivered", "failed", "dead", "adopted", "broken"}
  BY DEF GivenUp, OwnerInv, SessionsAreOwned
<1>4. CASE b # a
  <2>1. \E stage : AttemptBecomes(b, stage)
    BY DEF SessionNext, ConnectTask, RequestSession, SendOffer, EstablishFails, ApplyAnswer, AnswerTimeout,
           ChannelOpens, OpenTimeout, AttemptDies, SignalingEnds, ConnectionFails, CloseSession,
           AttemptReaches, AttemptEnds
  <2>2. attempt'[a] = attempt[a]
    BY <1>2, <1>4, <2>1 DEF AttemptBecomes
  <2> QED BY <1>1, <2>2 DEF StaysGivenUp, GivenUp
<1>5. CASE b = a
  <2>1. ASSUME NEW stage, AttemptBecomes(a, stage) PROVE attempt'[a] = stage
    BY <1>2, <2>1 DEF AttemptBecomes
  <2>2. \/ attempt[a] = "requesting" /\ attempt'[a] \in {"offering", "unused", "stranded"}
        \/ attempt[a] = "offering" /\ attempt'[a] \in {"awaiting", "unused", "stranded"}
        \/ attempt[a] = "awaiting" /\ attempt'[a] \in {"opening", "unused", "stranded"}
        \/ attempt[a] = "opening" /\ attempt'[a] \in {"unused", "stranded"}
        \/ attempt[a] \in {"stranded", "closing"} /\ attempt'[a] = "unused"
        \/ attempt'[a] = attempt[a]
    BY <1>3, <1>5, <2>1
       DEF SessionNext, ConnectTask, RequestSession, SendOffer, EstablishFails, ApplyAnswer, AnswerTimeout,
           ChannelOpens, OpenTimeout, AttemptDies, SignalingEnds, ConnectionFails, CloseSession,
           AttemptReaches, AttemptEnds, Remains, GivenUp, Establishing
  <2>3. attempt'[a] = attempt[a] \/ StagesLeft(attempt'[a]) < StagesLeft(attempt[a])
    BY <2>2 DEF StagesLeft
  <2> QED BY <1>1, <2>3 DEF StaysGivenUp, GivenUp
<1> QED BY <1>4, <1>5

\* The steps of the UI thread, and the end of the process.
LEMMA GivenUpStep ==
    ASSUME TypeOK, OwnerInv, NEW a \in Attempts, GivenUp(a), [Next]_vars
    PROVE  StaysGivenUp(a)
<1>1. attempt \in [Attempts -> AttemptStage] /\ a # None
  BY NotNone DEF TypeOK, TypeTasks
<1>2. attempt[a] \notin {"unused", "delivered", "failed", "dead", "adopted", "broken"}
  BY DEF GivenUp, OwnerInv, SessionsAreOwned
<1>3. CASE \E b \in Attempts : SessionNext(b)
  BY <1>3, GivenUpTask
<1>4. CASE UNCHANGED <<attempt, connectRx, active>>
  BY <1>4 DEF StaysGivenUp, GivenUp
<1>5. ASSUME TeardownSession PROVE StaysGivenUp(a)
  BY <1>1, <1>2, <1>5 DEF TeardownSession, Unawaited, StaysGivenUp, GivenUp
<1>6. CASE Relaunch
  <2>1. connectRx' = None /\ active' = None /\ attempt'[a] = "unused"
    BY <1>6 DEF Relaunch
  <2>2. StagesLeft("unused") < StagesLeft(attempt[a])
    BY <1>2 DEF StagesLeft
  <2> QED BY <1>1, <2>1, <2>2 DEF StaysGivenUp
<1>7. CASE PollConnect
  <2>1. ASSUME NEW b \in Attempts, b # a, NEW stage, AttemptBecomes(b, stage)
        PROVE  attempt'[a] = attempt[a]
    BY <1>1, <2>1 DEF AttemptBecomes
  <2>2. CASE PollConnectNothing
    BY <1>4, <2>2 DEF PollConnectNothing
  <2>3. connectRx # None => connectRx \in Attempts /\ connectRx # a
    BY DEF GivenUp, TypeOK, TypeApp
  <2>4. CASE PollConnectSuccess \/ PollConnectFailure
    <3>1. attempt'[a] = attempt[a]
      BY <2>1, <2>3, <2>4 DEF PollConnectSuccess, PollConnectFailure
    <3>2. connectRx' = None /\ active' \in {active, connectRx}
      BY <2>4 DEF PollConnectSuccess, PollConnectFailure
    <3>3. active' # a
      BY <2>3, <2>4, <3>2 DEF GivenUp, PollConnectSuccess, PollConnectFailure
    <3> QED BY <1>1, <3>1, <3>2, <3>3 DEF StaysGivenUp
  <2> QED BY <1>7, <2>2, <2>4 DEF PollConnect
<1>8. CASE Draw
  <2>1. CASE \E b \in Attempts : ConnectTo(b)
    <3>1. PICK b \in Attempts : ConnectTo(b)
      BY <2>1
    <3>2. b # a /\ active' = active
      BY <1>2, <3>1 DEF ConnectTo
    <3>3. \/ UNCHANGED <<attempt, connectRx>>
          \/ attempt' = [attempt EXCEPT ![b] = "requesting"] /\ connectRx' = b
      BY <3>1 DEF ConnectTo, AttemptBecomes
    <3>4. attempt'[a] = attempt[a] /\ connectRx' # a
      BY <1>1, <3>2, <3>3 DEF GivenUp
    <3> QED BY <3>2, <3>4 DEF StaysGivenUp, GivenUp
  <2>2. CASE CancelConnect
    <3>1. connectRx' = None /\ active' = active /\ attempt'[a] = Unawaited(a)
      BY <2>2 DEF CancelConnect
    <3>2. Unawaited(a) = attempt[a]
      BY DEF Unawaited, GivenUp
    <3> QED BY <1>1, <3>1, <3>2 DEF StaysGivenUp, GivenUp
  <2>3. CASE Logout \/ Disconnect
    BY <1>5, <2>3 DEF Logout, Disconnect
  <2>4. CASE NoClick \/ StartLinkAuth \/ StartLoopbackAuth \/ CancelSignIn \/ BackToLogin
    BY <1>4, <2>4 DEF NoClick, StartLinkAuth, StartLoopbackAuth, CancelSignIn, BackToLogin, appVars, sessionVars
  <2> QED BY <1>8, <2>1, <2>2, <2>3, <2>4 DEF Draw, Click
<1>9. CASE HandleDeepLink
  BY <1>5, <1>9 DEF HandleDeepLink
<1>10. ASSUME NEW f \in Logins, LoginNext(f)
       PROVE  UNCHANGED <<attempt, connectRx, active>>
  BY <1>10, TasksLeaveApp, LoginLeavesSessions DEF appVars, sessionVars
<1>11. CASE AppNew \/ HandleBadDeepLink \/ RunEventLoop \/ PollAuth \/ UNCHANGED vars
  BY <1>4, <1>11 DEF AppNew, HandleBadDeepLink, RunEventLoop, PollAuth, vars, appVars, sessionVars
<1> QED
  BY <1>3, <1>4, <1>6, <1>7, <1>8, <1>9, <1>10, <1>11 DEF Next, UiThread

\* An attempt that was cancelled, logged out of or disconnected never returns
\* to the screen: App awaits and holds nothing of it again, and it only gets
\* closer to the point where its place is free (the safety part of
\* GivenUpAttemptEnds; a new attempt in that place is another one).
THEOREM GivenUpForGood == Spec => [][\A a \in Attempts : GivenUp(a) => StaysGivenUp(a)]_vars
<1>1. Init => TypeOK /\ ScreenInv /\ OwnerInv
  BY TypeInit, ScreenInit DEF Init, OwnerInv, SessionsAreOwned, InPlace
<1>2. TypeOK /\ ScreenInv /\ OwnerInv /\ [Next]_vars
      => (TypeOK /\ ScreenInv /\ OwnerInv)'
  BY TypeStep, ScreenStep, OwnerStep
<1>3. TypeOK /\ OwnerInv /\ [Next]_vars => \A a \in Attempts : GivenUp(a) => StaysGivenUp(a)
  BY GivenUpStep
<1> QED
  BY <1>1, <1>2, <1>3, PTL DEF Spec

\* The attempt the user waits for, as long as it is awaited, is where it was or
\* closer to a result, which is then there to be read.
AwaitedGoesOn ==
    \A a \in Attempts : connectRx = a /\ connectRx' = a =>
        \/ attempt'[a] = attempt[a]
        \/ StagesLeft(attempt'[a]) < StagesLeft(attempt[a]) /\ attempt'[a] # "unused"

\* The steps of a task that is awaited.
LEMMA AwaitedTask ==
    ASSUME TypeOK, OwnerInv, NEW a \in Attempts, connectRx = a, NEW b \in Attempts, SessionNext(b)
    PROVE  \/ attempt'[a] = attempt[a]
           \/ StagesLeft(attempt'[a]) < StagesLeft(attempt[a]) /\ attempt'[a] # "unused"
<1>1. attempt \in [Attempts -> AttemptStage] /\ a # None
  BY NotNone DEF TypeOK, TypeTasks
<1>2. attempt[a] \in Establishing \cup {"delivered", "failed", "dead"}
  BY <1>1 DEF OwnerInv, InPlace
<1>3. CASE b # a
  <2>1. \E stage : AttemptBecomes(b, stage)
    BY DEF SessionNext, ConnectTask, RequestSession, SendOffer, EstablishFails, ApplyAnswer, AnswerTimeout,
           ChannelOpens, OpenTimeout, AttemptDies, SignalingEnds, ConnectionFails, CloseSession,
           AttemptReaches, AttemptEnds
  <2> QED BY <1>1, <1>3, <2>1 DEF AttemptBecomes
<1>4. CASE b = a
  <2>1. ASSUME NEW stage, AttemptBecomes(a, stage) PROVE attempt'[a] = stage
    BY <1>1, <2>1 DEF AttemptBecomes
  <2>2. \/ attempt[a] = "requesting" /\ attempt'[a] \in {"offering", "failed", "dead"}
        \/ attempt[a] = "offering" /\ attempt'[a] \in {"awaiting", "failed", "dead"}
        \/ attempt[a] = "awaiting" /\ attempt'[a] \in {"opening", "failed", "dead"}
        \/ attempt[a] = "opening" /\ attempt'[a] \in {"delivered", "failed", "dead"}
        \/ attempt'[a] = attempt[a]
    BY <1>2, <1>4, <2>1
       DEF SessionNext, ConnectTask, RequestSession, SendOffer, EstablishFails, ApplyAnswer, AnswerTimeout,
           ChannelOpens, OpenTimeout, AttemptDies, SignalingEnds, ConnectionFails, CloseSession,
           AttemptReaches, AttemptEnds, Establishing
  <2> QED BY <2>2 DEF StagesLeft
<1> QED BY <1>3, <1>4

\* The steps of the UI thread, which reads the result, gives up, or waits.
LEMMA AwaitedStep ==
    ASSUME TypeOK, OwnerInv, [Next]_vars
    PROVE  AwaitedGoesOn
<1> SUFFICES ASSUME NEW a \in Attempts, connectRx = a, connectRx' = a
             PROVE  \/ attempt'[a] = attempt[a]
                    \/ StagesLeft(attempt'[a]) < StagesLeft(attempt[a]) /\ attempt'[a] # "unused"
  BY DEF AwaitedGoesOn
<1>1. a # None /\ attempt[a] # "unused"
  BY NotNone DEF OwnerInv, InPlace, Establishing
<1>2. CASE \E b \in Attempts : SessionNext(b)
  BY <1>2, AwaitedTask
<1>3. CASE UNCHANGED attempt
  BY <1>3
<1>4. ~TeardownSession /\ ~Relaunch
  BY <1>1 DEF TeardownSession, Relaunch
<1>5. PollConnect => UNCHANGED attempt
  BY <1>1 DEF PollConnect, PollConnectNothing, PollConnectSuccess, PollConnectFailure
<1>6. ASSUME NEW b \in Attempts, ConnectTo(b)
      PROVE  UNCHANGED attempt
  BY <1>1, <1>6 DEF ConnectTo
<1>7. Draw => UNCHANGED attempt
  <2>1. ~CancelConnect /\ ~Logout /\ ~Disconnect
    BY <1>1, <1>4 DEF CancelConnect, Logout, Disconnect
  <2>2. NoClick \/ StartLinkAuth \/ StartLoopbackAuth \/ CancelSignIn \/ BackToLogin => UNCHANGED attempt
    BY DEF NoClick, StartLinkAuth, StartLoopbackAuth, CancelSignIn, BackToLogin, appVars, sessionVars
  <2> QED BY <1>6, <2>1, <2>2 DEF Draw, Click
<1>8. ~HandleDeepLink
  BY <1>4 DEF HandleDeepLink
<1>9. ASSUME NEW f \in Logins, LoginNext(f)
      PROVE  UNCHANGED attempt
  BY <1>9, LoginLeavesSessions DEF sessionVars
<1>10. AppNew \/ HandleBadDeepLink \/ RunEventLoop \/ PollAuth \/ UNCHANGED vars => UNCHANGED attempt
  BY DEF AppNew, HandleBadDeepLink, RunEventLoop, PollAuth, vars, appVars, sessionVars
<1> QED
  BY <1>2, <1>3, <1>4, <1>5, <1>7, <1>8, <1>9, <1>10 DEF Next, UiThread

\* What shows the connecting screen leads to a result, step by step, whatever
\* other attempts and sign-ins still run: no step takes the awaited attempt back
\* or away (the safety part of ConnectingEnds).
THEOREM AwaitedAttempt == Spec => [][AwaitedGoesOn]_vars
<1>1. Init => TypeOK /\ ScreenInv /\ OwnerInv
  BY TypeInit, ScreenInit DEF Init, OwnerInv, SessionsAreOwned, InPlace
<1>2. TypeOK /\ ScreenInv /\ OwnerInv /\ [Next]_vars
      => (TypeOK /\ ScreenInv /\ OwnerInv)'
  BY TypeStep, ScreenStep, OwnerStep
<1>3. TypeOK /\ OwnerInv /\ [Next]_vars => AwaitedGoesOn
  BY AwaitedStep
<1> QED
  BY <1>1, <1>2, <1>3, PTL DEF Spec

=============================================================================
