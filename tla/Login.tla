------------------------------- MODULE Login -------------------------------
(***************************************************************************)
(* The login command: the webview runtime (src/crates/xodus-cli/src/       *)
(* webview.rs), an event loop with at most one session, and its handler    *)
(* LoginHandler (commands/login.rs), which exchanges the token a page      *)
(* posts and opens a second session if the exchange asks for approval.     *)
(* Pages, the window system and the servers are external: a page may load  *)
(* post.srf and post its token more than once, and an event that is queued *)
(* outlives its session.                                                   *)
(***************************************************************************)
EXTENDS TokenStore

CONSTANTS
  MaxSessions, \* bound: sessions a login opens
  MaxLoads,    \* bound: times a session's page loads post.srf
  MaxLogins    \* bound: runs of the command

ASSUME LoginAssumption == MaxSessions \in Nat \ {0} /\ MaxLoads \in Nat /\ MaxLogins \in Nat

VARIABLES
  loop,            \* "off", "running", "exited", or "saving" the issued tokens
  next_session_id,
  active_session,  \* and its webview; 0: none
  window,          \* whether the window was created
  events,          \* the queue of CustomEvents
  page,            \* the page of the active session
  finish,          \* LoginHandler.finish
  result,          \* "none", "nothing" for Complete(None), "issued"
  error,
  logins           \* runs of the command so far

runtimeVars == <<next_session_id, active_session, window, events, page, finish, result, error>>
loginVars   == <<loop, runtimeVars, logins>>

\* The times a page loaded post.srf, and scripts for its ServerData that are
\* still to run in it.
NewPage == [loads |-> 0, asked |-> 0]

\* RuntimeState::new
Fresh ==
  /\ active_session' = 0 /\ window' = FALSE /\ page' = NewPage
  /\ finish' = FALSE /\ result' = "none" /\ error' = FALSE

LoginInit ==
  /\ loop = "off" /\ logins = 0 /\ next_session_id = 1 /\ events = <<>>
  /\ active_session = 0 /\ window = FALSE /\ page = NewPage
  /\ finish = FALSE /\ result = "none" /\ error = FALSE

\* run_sessions: bootstrap opens the first session by an event.
RunSessions ==
  /\ loop = "off" /\ logins < MaxLogins
  /\ loop' = "running" /\ logins' = logins + 1
  /\ events' = <<[kind |-> "open", id |-> 1, user |-> NoUser]>>
  /\ next_session_id' = 2
  /\ Fresh
  /\ UNCHANGED storeVars
-----------------------------------------------------------------------------
Post(kind, u) ==
  events' = Append(events, [kind |-> kind, id |-> active_session, user |-> u])

PageLives == loop = "running" /\ active_session # 0

\* The page has loaded post.srf.
PageFinished ==
  /\ PageLives /\ page.loads < MaxLoads
  /\ page' = [page EXCEPT !.loads = @ + 1]
  /\ Post("finish", NoUser)
  /\ UNCHANGED <<loop, next_session_id, active_session, window, finish, result, error, logins, storeVars>>

\* The page posts the ServerData it was asked for: a DAProperty of the account
\* that signed in.
PagePostsToken ==
  /\ PageLives /\ page.asked > 0
  /\ page' = [page EXCEPT !.asked = @ - 1]
  /\ \E u \in Users : Post("token", u)
  /\ UNCHANGED <<loop, next_session_id, active_session, window, finish, result, error, logins, storeVars>>

\* Other ServerData is taken for a message to the host and ignored; so are here
\* the messages that ask the host for its context, which are only answered.
PagePostsOther ==
  /\ PageLives /\ page.asked > 0
  /\ page' = [page EXCEPT !.asked = @ - 1]
  /\ UNCHANGED <<loop, next_session_id, active_session, window, events, finish, result, error, logins, storeVars>>
-----------------------------------------------------------------------------
\* The loop ends once there is an error or a result.
Step == loop' = IF error' \/ result' # "none" THEN "exited" ELSE "running"

\* create_session replaces the session there is.
CreateSession(id) ==
  /\ window' = TRUE
  /\ active_session' = id
  /\ page' = NewPage
  /\ error' = error

\* The window cannot be built.
CreateSessionFails ==
  /\ ~window
  /\ error' = TRUE
  /\ UNCHANGED <<window, active_session, page>>

\* The next event of the queue, which is taken off.
Take(kind) ==
  /\ loop = "running" /\ events # <<>> /\ Head(events).kind = kind
  /\ events' = Tail(events)

HandleOpen ==
  /\ Take("open")
  /\ CreateSession(Head(events).id) \/ CreateSessionFails
  /\ UNCHANGED <<next_session_id, finish, result, logins, storeVars>>
  /\ Step

\* The script is evaluated only in the webview of the event's session.
HandleFinish ==
  /\ Take("finish")
  /\ page' = IF active_session = Head(events).id THEN [page EXCEPT !.asked = @ + 1] ELSE page
  /\ UNCHANGED <<next_session_id, active_session, window, finish, result, error, logins, storeVars>>
  /\ Step

\* remove_session: another session stays.
RemoveSession(id) ==
  /\ active_session' = IF active_session = id THEN 0 ELSE active_session
  /\ page' = IF active_session = id THEN NewPage ELSE page

\* on_token: the exchange fails.
TokenNotExchanged ==
  /\ Take("token")
  /\ error' = TRUE
  /\ UNCHANGED <<next_session_id, active_session, window, page, finish, result, logins, storeVars>>
  /\ Step

\* on_token: a fault with an address to approve at.  The session is closed,
\* whether or not it is the active one, and another one opened in its place.
TokenNeedsApproval ==
  /\ Take("token") /\ next_session_id <= MaxSessions
  /\ finish' = TRUE
  /\ next_session_id' = next_session_id + 1
  /\ CreateSession(next_session_id)
  /\ UNCHANGED <<result, logins, storeVars>>
  /\ Step

\* on_token: another fault.
TokenRefused ==
  /\ Take("token")
  /\ RemoveSession(Head(events).id)
  /\ result' = "nothing"
  /\ UNCHANGED <<next_session_id, window, finish, error, logins, storeVars>>
  /\ Step

\* Variant: the second exchange asks for the added scope only.
ScopesAdded(second) == IF second THEN <<"sts">> ELSE <<"service">>

\* What an exchange asks for, and its response holds.
Scopes(second) == IF second THEN <<"service", "sts">> ELSE <<"service">>

\* on_token: tokens are issued, and the user is saved.
TokenIssued ==
  /\ Take("token")
  /\ RemoveSession(Head(events).id)
  /\ result' = "issued"
  /\ SaveUser(Head(events).user)
  /\ saving' = [saving EXCEPT !["login"].acct = Head(events).user,
                              !["login"].todo = Scopes(finish)]
  /\ UNCHANGED <<next_session_id, window, finish, error, logins, user_tokens>>
  /\ Step

\* Variant: the handler does not answer on_closed, whose default goes on.
CloseRequestedContinues ==
  /\ PageLives /\ window
  /\ RemoveSession(active_session)
  /\ UNCHANGED <<next_session_id, window, events, finish, result, error, logins, storeVars>>
  /\ Step

\* The user closes the window; nothing happens if there is no session.
CloseRequested ==
  /\ PageLives /\ window
  /\ RemoveSession(active_session)
  /\ result' = "nothing"
  /\ UNCHANGED <<next_session_id, window, events, finish, error, logins, storeVars>>
  /\ Step
-----------------------------------------------------------------------------
\* The command ends.
Off == loop' = "off" /\ Fresh /\ next_session_id' = 1 /\ events' = <<>> /\ UNCHANGED logins

\* run: an error panics; without tokens there is nothing to save.
NotLoggedIn ==
  /\ loop = "exited" /\ result # "issued"
  /\ Off
  /\ UNCHANGED storeVars

\* run: the tokens are saved one after another.
LoggedIn ==
  /\ loop = "exited" /\ result = "issued"
  /\ loop' = "saving"
  /\ UNCHANGED <<runtimeVars, logins, storeVars>>

LoginGets ==
  /\ loop = "saving" /\ GetStore("login")
  /\ UNCHANGED loginVars

LoginSets ==
  /\ loop = "saving" /\ SetStore("login")
  /\ UNCHANGED <<loginVars, user_info, torn>>

\* A login whose first session brought the tokens has no STS token.
LoginDone ==
  /\ loop = "saving" /\ saving["login"].todo = <<>>
  /\ torn' = (torn \ {"unfinished"}) \cup (IF next_session_id = 2 THEN {"no_sts"} ELSE {})
  /\ Forget("login")
  /\ Off
  /\ UNCHANGED <<user_tokens, user_info>>

\* The command is interrupted, or a call of the keychain fails and it panics.
LoginCutShort ==
  /\ loop # "off"
  /\ Forget("login")
  /\ Off
  /\ UNCHANGED <<user_tokens, user_info, torn>>

LoginNext ==
  \/ RunSessions
  \/ PageFinished \/ PagePostsToken \/ PagePostsOther
  \/ HandleOpen \/ HandleFinish
  \/ TokenNotExchanged \/ TokenNeedsApproval \/ TokenRefused \/ TokenIssued
  \/ CloseRequested
  \/ NotLoggedIn \/ LoggedIn \/ LoginGets \/ LoginSets \/ LoginDone \/ LoginCutShort
-----------------------------------------------------------------------------
Events == [kind : {"open", "finish", "token"}, id : 1..MaxSessions, user : Users \cup {NoUser}]

LoginTypeOK ==
  /\ loop \in {"off", "running", "exited", "saving"} /\ logins \in 0..MaxLogins
  /\ next_session_id \in 1..(MaxSessions + 1) /\ active_session \in 0..MaxSessions
  /\ window \in BOOLEAN /\ finish \in BOOLEAN /\ error \in BOOLEAN
  /\ result \in {"none", "nothing", "issued"}
  /\ events \in Seq(Events)
  /\ \A i \in DOMAIN events : events[i].kind = "token" => events[i].user \in Users
  /\ page \in [loads : 0..MaxLoads, asked : 0..MaxLoads]

\* While its loop runs, a login has a window open or is about to open its first
\* one, and never waits for events with none to come; the session in it is the
\* newest, whichever sessions the tokens came from that opened and closed them.
WindowOfNewest ==
  loop = "running" =>
    IF active_session = 0 THEN next_session_id = 2 /\ \E i \in DOMAIN events : events[i].kind = "open"
                          ELSE window /\ active_session = next_session_id - 1
=============================================================================
