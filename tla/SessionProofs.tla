--------------------------- MODULE SessionProofs ---------------------------
(***************************************************************************)
(* Proofs about Session for all accounts, connections, services and        *)
(* bounds: the socket of a running service stands, a login has the window  *)
(* of its newest session, what is stored is of one user, all variables     *)
(* keep their types, and the service keeps its contract with its clients.  *)
(***************************************************************************)
EXTENDS Session, FiniteSets, FiniteSetTheorems, FunctionTheorems, SequenceTheorems, TLAPS

ServiceStates == {"off", "serving", "closing", "leaving"}

\* SocketStanding is inductive once the states of services are known.
SocketInv == service \in [Services -> ServiceStates] /\ SocketStanding

LEMMA SocketInit == Init => SocketInv
BY DEF Init, ServiceInit, SocketInv, SocketStanding, ServiceStates

\* What leaves the processes and the file alone, as all steps of a login and of
\* the tasks do.
LEMMA SocketStays ==
  ASSUME SocketInv, UNCHANGED <<service, socket_file, left>>
  PROVE  SocketInv'
BY DEF SocketInv, SocketStanding

LEMMA TasksKeepSocket ==
  ASSUME NEW c \in Conns,
         \/ Connect(c) \/ ClientLeaves(c) \/ Task(c)
         \/ \E r \in Requests : Send(c, r)
  PROVE  UNCHANGED <<service, socket_file, left>>
BY DEF Connect, ClientLeaves, Send, Task, CheckCancelled, ReadEnd, ReadOther, ReadRequest, GetSts,
       ExchangeDevice, DeviceFault, ExchangeFails, ExchangeFault, ExchangeUser, RequestGets,
       RequestSets, Saved, SavedOnly, Answer, Goto, EndTask, serviceVars

LEMMA SocketStep == SocketInv /\ [Next]_vars => SocketInv'
<1> SUFFICES ASSUME SocketInv, [Next]_vars PROVE SocketInv'
  OBVIOUS
<1> USE DEF SocketInv, SocketStanding, ServiceStates
<1>1. CASE LoginNext /\ UNCHANGED serviceVars
  BY <1>1, SocketStays DEF serviceVars
<1>2. ASSUME NEW s \in Services, Bind(s) PROVE SocketInv'
  BY <1>2 DEF Bind
<1>3. ASSUME NEW s \in Services, Interrupt(s) PROVE SocketInv'
  BY <1>3 DEF Interrupt
<1>4. ASSUME NEW s \in Services, RemoveSocket(s) PROVE SocketInv'
  BY <1>4 DEF RemoveSocket
<1>5. ASSUME NEW s \in Services, Leave(s) PROVE SocketInv'
  BY <1>5 DEF Leave
<1>6. ASSUME NEW s \in Services, Crash(s) PROVE SocketInv'
  BY <1>6 DEF Crash
<1>7. CASE RemoveLeftover
  BY <1>7 DEF RemoveLeftover
<1>8. ASSUME NEW c \in Conns,
             \/ Connect(c) \/ ClientLeaves(c) \/ Task(c)
             \/ \E r \in Requests : Send(c, r)
      PROVE  SocketInv'
  BY <1>8, TasksKeepSocket, SocketStays
<1>9. CASE UNCHANGED vars
  BY <1>9, SocketStays DEF vars, serviceVars
<1>10. QED
  BY <1>1, <1>2, <1>3, <1>4, <1>5, <1>6, <1>7, <1>8, <1>9 DEF Next, ServiceNext

\* The socket of a running service stays, however many services are started,
\* interrupted and killed, and the next can bind unless one was killed.
THEOREM SocketCorrect == Spec => []SocketStanding
<1>1. SocketInv => SocketStanding
  BY DEF SocketInv
<1>2. QED
  BY SocketInit, SocketStep, <1>1, PTL DEF Spec
-----------------------------------------------------------------------------
\* What pages post.
Posted == [kind : {"finish"}, id : Nat, user : {NoUser}] \cup [kind : {"token"}, id : Nat, user : Users]

\* What a login's loop knows: nothing was posted before the first session is
\* open, and only the first session is opened by an event.
LoopInv ==
  /\ next_session_id \in Nat
  /\ loop = "running" =>
       /\ result = "none" /\ ~error
       /\ next_session_id >= 2
       /\ IF active_session = 0
          THEN next_session_id = 2 /\ events = <<[kind |-> "open", id |-> 1, user |-> NoUser]>>
          ELSE /\ window /\ active_session = next_session_id - 1
               /\ events \in Seq(Posted)

LEMMA LoopInit == Init => LoopInv
BY DEF Init, LoginInit, LoopInv

\* The first session is opened in place of none, with nothing else to come.
LEMMA OpensFirst ==
  ASSUME LoopInv, HandleOpen
  PROVE  active_session = 0 /\ events' = <<>> /\ Head(events).id = 1
<1>1. CASE active_session = 0
  BY <1>1 DEF LoopInv, HandleOpen, Take
<1>2. CASE active_session # 0
  <2>1. events # <<>> /\ Head(events) \in Posted
    BY <1>2 DEF LoopInv, HandleOpen, Take
  <2>2. QED
    BY <2>1 DEF HandleOpen, Take, Posted
<1>3. QED
  BY <1>1, <1>2

LEMMA LoopStep == LoopInv /\ [Next]_vars => LoopInv'
<1> SUFFICES ASSUME LoopInv, [Next]_vars PROVE LoopInv'
  OBVIOUS
<1> USE DEF LoopInv
<1>1. CASE RunSessions
  BY <1>1 DEF RunSessions, Fresh
<1>2. CASE PageFinished
  <2>1. Append(events, [kind |-> "finish", id |-> active_session, user |-> NoUser]) \in Seq(Posted)
    BY <1>2 DEF PageFinished, PageLives, Posted
  <2>2. QED
    BY <1>2, <2>1 DEF PageFinished, PageLives, Post
<1>3. CASE PagePostsToken
  <2>1. PICK u \in Users : Post("token", u)
    BY <1>3 DEF PagePostsToken
  <2>2. Append(events, [kind |-> "token", id |-> active_session, user |-> u]) \in Seq(Posted)
    BY <1>3 DEF PagePostsToken, PageLives, Posted
  <2>3. QED
    BY <1>3, <2>1, <2>2 DEF PagePostsToken, PageLives, Post
<1>4. CASE PagePostsOther
  BY <1>4 DEF PagePostsOther, PageLives
<1>5. ASSUME NEW k \in {"finish", "token"}, Take(k)
      PROVE  active_session # 0 /\ events' \in Seq(Posted)
  BY <1>5 DEF Take
<1>6. CASE HandleOpen
  <2>1. active_session = 0 /\ events' = <<>> /\ Head(events).id = 1
    BY <1>6, OpensFirst
  <2>2. events' \in Seq(Posted)
    BY <2>1
  <2>3. QED
    BY <1>6, <2>1, <2>2 DEF HandleOpen, Take, CreateSession, CreateSessionFails, Step
<1>7. CASE HandleFinish
  BY <1>7, <1>5 DEF HandleFinish, Take, Step
<1>8. CASE TokenNotExchanged
  BY <1>8 DEF TokenNotExchanged, Step
<1>9. CASE TokenNeedsApproval
  BY <1>9, <1>5 DEF TokenNeedsApproval, Take, CreateSession, Step
<1>10. CASE TokenRefused
  BY <1>10 DEF TokenRefused, Step
<1>11. CASE TokenIssued
  BY <1>11 DEF TokenIssued, Step
<1>12. CASE CloseRequested
  BY <1>12 DEF CloseRequested, Step
<1>13. CASE NotLoggedIn \/ LoginDone \/ LoginCutShort
  BY <1>13 DEF NotLoggedIn, LoginDone, LoginCutShort, Off
<1>14. CASE LoggedIn
  BY <1>14 DEF LoggedIn, runtimeVars
<1>15. CASE LoginGets \/ LoginSets
  BY <1>15 DEF LoginGets, LoginSets, loginVars, runtimeVars
<1>16. CASE (ServiceNext /\ UNCHANGED loginVars) \/ UNCHANGED vars
  BY <1>16 DEF vars, loginVars, runtimeVars
<1>17. QED
  BY <1>1, <1>2, <1>3, <1>4, <1>6, <1>7, <1>8, <1>9, <1>10, <1>11, <1>12, <1>13, <1>14, <1>15, <1>16
     DEF Next, LoginNext

\* A login that runs has the window of its newest session open or is about to
\* open its first one: it never waits for nothing, whatever was posted by which
\* session.
THEOREM WindowCorrect == Spec => []WindowOfNewest
<1>1. LoopInv => WindowOfNewest
  BY DEF LoopInv, WindowOfNewest
<1>2. QED
  BY LoopInit, LoopStep, <1>1, PTL DEF Spec
-----------------------------------------------------------------------------
Tokens == [Addresses -> Users \cup {NoUser}]
Saver  == [acct : Users \cup {NoUser}, todo : Seq(Addresses), reading : BOOLEAN, buf : Tokens]

\* What the store and the savers may hold: who reads the store has a token to
\* save, and a user whose it is.
StoreForm ==
  /\ user_tokens \in Tokens /\ user_info \in Users \cup {NoUser}
  /\ saving \in [Savers -> Saver]
  /\ \A w \in Savers : /\ saving[w].reading => saving[w].todo # <<>>
                       /\ saving[w].todo # <<>> => saving[w].acct # NoUser

\* The tokens at the addresses of a login are of one user.
OfOne(tokens, u) == \A a \in LoginAddresses : tokens[a] \in {NoUser, u}

\* The login has issued tokens that are not all saved.
Issued == loop \in {"exited", "saving"} /\ result = "issued"

\* If nobody else has written since a login saved its user, the tokens it has no
\* more to save are its user's.
MineSaved ==
  LET login == saving["login"]
  IN  /\ login.reading => login.buf = user_tokens
      /\ next_session_id # 2 =>
           \/ login.todo = <<"service", "sts">>
           \/ login.todo = <<"sts">> /\ user_tokens["service"] = login.acct
           \/ login.todo = <<>> /\ OfOne(user_tokens, login.acct)

\* A login that has tokens to save has saved its user, and every request that
\* has read a token is overtaken by it.
IssuedInv ==
  /\ saving["login"].acct # NoUser <=> Issued
  /\ Issued => /\ "unfinished" \in torn /\ user_info = saving["login"].acct
               /\ Reading \subseteq overtaken
               /\ torn = {"unfinished"} => MineSaved

\* While the entries are of one user, so is what a request that is not
\* overtaken has read.
AgreeInv ==
  torn = {} =>
    /\ OfOne(user_tokens, user_info)
    /\ \A c \in Conns \ overtaken : saving[c].acct # NoUser =>
         saving[c].acct = user_info /\ (saving[c].reading => OfOne(saving[c].buf, user_info))

\* The handler asks for the second scope exactly in a later session, and a
\* command that saves has tokens.
FinishInv ==
  /\ loop \in {"running", "exited", "saving"} => (finish <=> next_session_id # 2)
  /\ loop = "saving" => result = "issued"

Steps == {"check", "magic", "get_sts", "device", "user", "save", "save_only", "answer", "nothing"}
Connection == [owner : Services \cup {NoService}, wire : Seq(Requests), eof : BOOLEAN, step : Steps,
               size : AnswerSizes \cup {0}, sent : Nat, answered : Nat, astray : BOOLEAN]

\* The request a task is working on is neither on the wire nor answered.
Idle == {"check", "magic"}

Counted(r) ==
  /\ r.answered + Len(r.wire) + (IF r.step \in Idle THEN 0 ELSE 1) <= r.sent
  /\ r.sent <= MaxRequests

\* A task between reading the token and saving another one has it.
Holding == {"device", "user", "save", "save_only"}

TaskInv ==
  /\ conn \in [Conns -> Connection]
  /\ \A c \in Conns : Counted(conn[c]) /\ (conn[c].step \in Holding => saving[c].acct # NoUser)

IInv == LoopInv /\ FinishInv /\ StoreForm /\ TaskInv /\ IssuedInv /\ AgreeInv
-----------------------------------------------------------------------------
\* What a step of the service does to the store.
ForgetOnly(w) == Forget(w) /\ UNCHANGED <<user_tokens, user_info, torn>>

BeginWith(c) ==
  /\ user_tokens["sts"] # NoUser /\ Begin(c, user_tokens["sts"])
  /\ UNCHANGED <<user_tokens, user_info, torn>>

TokenReceived(c, a) ==
  /\ saving[c].acct # NoUser
  /\ saving' = [saving EXCEPT ![c].todo = <<a>>]
  /\ UNCHANGED <<user_tokens, user_info, overtaken, torn>>

SetByRequest(c) ==
  /\ SetStore(c) /\ UNCHANGED user_info
  /\ torn' = IF c \in overtaken THEN torn \cup {"overtaken"} ELSE torn

ServiceEffect ==
  \/ UNCHANGED storeVars
  \/ \E s \in Services : DropTasks(s)
  \/ \E c \in Conns : ForgetOnly(c) \/ BeginWith(c) \/ GetStore(c) \/ SetByRequest(c)
  \/ \E c \in Conns, a \in Addresses : TokenReceived(c, a)

LEMMA ServiceEffects ==
  ASSUME TaskInv, ServiceNext
  PROVE  ServiceEffect
<1>1. ASSUME NEW s \in Services, Bind(s) \/ Interrupt(s) \/ RemoveSocket(s)
      PROVE  UNCHANGED storeVars
  BY <1>1 DEF Bind, Interrupt, RemoveSocket
<1>2. ASSUME NEW s \in Services, Leave(s) \/ Crash(s)
      PROVE  DropTasks(s)
  BY <1>2 DEF Leave, Crash
<1>3. CASE RemoveLeftover
  BY <1>3 DEF RemoveLeftover, ServiceEffect
<1>4. ASSUME NEW c \in Conns, Connect(c) \/ ClientLeaves(c) \/ \E r \in Requests : Send(c, r)
      PROVE  UNCHANGED storeVars
  BY <1>4 DEF Connect, ClientLeaves, Send
<1>5. ASSUME NEW c \in Conns, ReadRequest(c) \/ ExchangeDevice(c) \/ Answer(c)
      PROVE  UNCHANGED storeVars
  BY <1>5 DEF ReadRequest, ExchangeDevice, Answer
<1>6. ASSUME NEW c \in Conns, EndTask(c)
      PROVE  ForgetOnly(c)
  BY <1>6 DEF EndTask, ForgetOnly
<1>7. ASSUME NEW c \in Conns, \/ ReadEnd(c) \/ ReadOther(c) \/ DeviceFault(c) \/ ExchangeFault(c)
                              \/ SavedOnly(c)
      PROVE  ForgetOnly(c)
  BY <1>7, <1>6 DEF ReadEnd, ReadOther, DeviceFault, ExchangeFault, SavedOnly
<1>8. ASSUME NEW c \in Conns, CheckCancelled(c)
      PROVE  UNCHANGED storeVars \/ ForgetOnly(c)
  BY <1>8, <1>6 DEF CheckCancelled
<1>9. ASSUME NEW c \in Conns, ExchangeFails(c) \/ Saved(c)
      PROVE  ForgetOnly(c)
  BY <1>9 DEF ExchangeFails, Saved, ForgetOnly, Forget
<1>10. ASSUME NEW c \in Conns, GetSts(c)
       PROVE  UNCHANGED storeVars \/ BeginWith(c)
  BY <1>10 DEF GetSts, BeginWith
<1>11. ASSUME NEW c \in Conns, ExchangeUser(c)
       PROVE  \E a \in Addresses : TokenReceived(c, a)
  BY <1>11 DEF ExchangeUser, TokenReceived, TaskInv, At, Holding, Addresses, LoginAddresses
<1>12. ASSUME NEW c \in Conns, RequestGets(c)
       PROVE  GetStore(c)
  BY <1>12 DEF RequestGets
<1>13. ASSUME NEW c \in Conns, RequestSets(c)
       PROVE  SetByRequest(c)
  BY <1>13 DEF RequestSets, SetByRequest
<1>14. ASSUME NEW c \in Conns, Task(c)
       PROVE  ServiceEffect
  BY <1>14, <1>5, <1>7, <1>8, <1>9, <1>10, <1>11, <1>12, <1>13 DEF Task, ServiceEffect
<1>15. QED
  BY <1>1, <1>2, <1>3, <1>4, <1>14 DEF ServiceNext, ServiceEffect

\* What a step of a login does to the store; when it does nothing, it neither
\* issues nor forgets tokens.
LoginQuiet ==
  UNCHANGED storeVars /\ (Issued' <=> Issued) /\ (Issued => next_session_id' = next_session_id)

LEMMA LoginEffects ==
  ASSUME LoopInv, LoginNext
  PROVE  LoginQuiet \/ TokenIssued \/ LoginGets \/ LoginSets \/ LoginDone \/ LoginCutShort
<1> USE DEF LoginQuiet, Issued
<1>1. CASE RunSessions
  BY <1>1 DEF RunSessions
<1>2. CASE PageFinished \/ PagePostsToken \/ PagePostsOther
  BY <1>2 DEF PageFinished, PagePostsToken, PagePostsOther, PageLives
<1>3. CASE HandleOpen \/ HandleFinish \/ TokenNotExchanged \/ TokenNeedsApproval
  BY <1>3 DEF HandleOpen, HandleFinish, TokenNotExchanged, TokenNeedsApproval, Take, Step, LoopInv
<1>4. CASE TokenRefused \/ CloseRequested
  BY <1>4 DEF TokenRefused, CloseRequested, Take, PageLives
<1>5. CASE NotLoggedIn
  BY <1>5 DEF NotLoggedIn, Off
<1>6. CASE LoggedIn
  BY <1>6 DEF LoggedIn, runtimeVars
<1>7. QED
  BY <1>1, <1>2, <1>3, <1>4, <1>5, <1>6 DEF LoginNext

LEMMA FinishStep == LoopInv /\ FinishInv /\ [Next]_vars => FinishInv'
<1> SUFFICES ASSUME LoopInv, FinishInv, [Next]_vars PROVE FinishInv'
  OBVIOUS
<1> USE DEF FinishInv
<1>1. CASE RunSessions
  BY <1>1 DEF RunSessions, Fresh
<1>2. CASE PageFinished \/ PagePostsToken \/ PagePostsOther
  BY <1>2 DEF PageFinished, PagePostsToken, PagePostsOther, PageLives
<1>3. CASE HandleOpen \/ HandleFinish \/ TokenNotExchanged \/ TokenRefused \/ TokenIssued
  BY <1>3 DEF HandleOpen, HandleFinish, TokenNotExchanged, TokenRefused, TokenIssued, Take, Step
<1>4. CASE TokenNeedsApproval
  BY <1>4 DEF TokenNeedsApproval, Take, Step, LoopInv
<1>5. CASE CloseRequested
  BY <1>5 DEF CloseRequested, PageLives, Step
<1>6. CASE NotLoggedIn \/ LoginDone \/ LoginCutShort
  BY <1>6 DEF NotLoggedIn, LoginDone, LoginCutShort, Off
<1>7. CASE LoggedIn
  BY <1>7 DEF LoggedIn, runtimeVars
<1>8. CASE LoginGets \/ LoginSets
  BY <1>8 DEF LoginGets, LoginSets, loginVars, runtimeVars
<1>9. CASE (ServiceNext /\ UNCHANGED loginVars) \/ UNCHANGED vars
  BY <1>9 DEF vars, loginVars, runtimeVars
<1>10. QED
  BY <1>1, <1>2, <1>3, <1>4, <1>5, <1>6, <1>7, <1>8, <1>9 DEF Next, LoginNext
-----------------------------------------------------------------------------
LEMMA SaversExist == "login" \in Savers /\ Conns \subseteq Savers /\ "login" \notin Conns
BY StoreAssumption DEF Savers

LEMMA OneAddress == ASSUME NEW a \in Addresses PROVE <<a>> \in Seq(Addresses) /\ <<a>> # <<>>
OBVIOUS

LEMMA TwoAddresses ==
  <<"service", "sts">> \in Seq(Addresses) /\ <<"service", "sts">> # <<>>
<1>1. ASSUME NEW a \in Addresses, NEW b \in Addresses
      PROVE  <<a, b>> \in Seq(Addresses) /\ <<a, b>> # <<>>
  OBVIOUS
<1>2. QED
  BY <1>1 DEF Addresses, LoginAddresses

LEMMA NotSavingForm == NotSaving \in Saver /\ NotSaving.acct = NoUser /\ NotSaving.todo = <<>>
                       /\ ~NotSaving.reading
BY DEF NotSaving, Saver, NoTokens, Tokens

\* The form of the store is kept by each of the ways to change it.
LEMMA ForgetForm ==
  ASSUME StoreForm, NEW w \in Savers, ForgetOnly(w)
  PROVE  StoreForm'
BY NotSavingForm DEF StoreForm, ForgetOnly, Forget

LEMMA GetForm ==
  ASSUME StoreForm, NEW w \in Savers, GetStore(w)
  PROVE  StoreForm'
<1> DEFINE s == [saving[w] EXCEPT !.reading = TRUE, !.buf = user_tokens]
<1>1. s \in Saver /\ s.todo = saving[w].todo /\ s.acct = saving[w].acct
  BY DEF StoreForm, Saver
<1>2. saving' = [saving EXCEPT ![w] = s]
  BY DEF GetStore
<1> HIDE DEF s
<1>3. QED
  BY <1>1, <1>2 DEF StoreForm, GetStore

LEMMA SetForm ==
  ASSUME StoreForm, NEW w \in Savers, SetStore(w), UNCHANGED user_info
  PROVE  StoreForm'
<1> DEFINE s == [saving[w] EXCEPT !.todo = Tail(@), !.reading = FALSE, !.buf = NoTokens]
<1>1. saving[w] \in Saver /\ saving[w].todo # <<>> /\ saving[w].acct # NoUser
  BY DEF StoreForm, SetStore
<1>2. Head(saving[w].todo) \in Addresses /\ Tail(saving[w].todo) \in Seq(Addresses)
  BY <1>1 DEF Saver
<1>3. s \in Saver /\ ~s.reading /\ s.acct # NoUser
  BY <1>1, <1>2 DEF Saver, Tokens, NoTokens
<1>4. saving' = [saving EXCEPT ![w] = s]
  BY DEF SetStore
<1>5. user_tokens' \in Tokens
  BY <1>1, <1>2 DEF SetStore, Saver, Tokens
<1> HIDE DEF s
<1>6. QED
  BY <1>3, <1>4, <1>5 DEF StoreForm

LEMMA FormStep ==
  ASSUME LoopInv, StoreForm, TaskInv, IssuedInv, [Next]_vars
  PROVE  StoreForm'
<1>1. CASE UNCHANGED storeVars
  BY <1>1 DEF StoreForm, storeVars
<1>2. ASSUME NEW s \in Services, DropTasks(s) PROVE StoreForm'
  BY <1>2, NotSavingForm DEF DropTasks, StoreForm
<1>3. ASSUME NEW c \in Conns, BeginWith(c) PROVE StoreForm'
  <2> DEFINE s == [saving[c] EXCEPT !.acct = user_tokens["sts"]]
  <2>1. s \in Saver /\ s.reading = saving[c].reading /\ s.todo = saving[c].todo /\ s.acct # NoUser
    BY <1>3, SaversExist DEF StoreForm, Saver, BeginWith, Tokens, Addresses, LoginAddresses
  <2>2. saving' = [saving EXCEPT ![c] = s]
    BY <1>3 DEF BeginWith, Begin
  <2> HIDE DEF s
  <2>3. QED
    BY <1>3, <2>1, <2>2 DEF StoreForm, BeginWith
<1>4. ASSUME NEW c \in Conns, NEW a \in Addresses, TokenReceived(c, a) PROVE StoreForm'
  <2> DEFINE s == [saving[c] EXCEPT !.todo = <<a>>]
  <2>1. s \in Saver /\ s.todo # <<>> /\ s.acct = saving[c].acct
    BY SaversExist, OneAddress DEF StoreForm, Saver
  <2>2. saving' = [saving EXCEPT ![c] = s]
    BY <1>4 DEF TokenReceived
  <2> HIDE DEF s
  <2>3. QED
    BY <1>4, <2>1, <2>2 DEF StoreForm, TokenReceived
<1>5. CASE ServiceNext
  <2>1. ASSUME NEW c \in Conns, ForgetOnly(c) \/ GetStore(c) \/ SetByRequest(c)
        PROVE  StoreForm'
    BY <2>1, ForgetForm, GetForm, SetForm, SaversExist DEF SetByRequest
  <2>2. QED
    BY <1>5, ServiceEffects, <1>1, <1>2, <1>3, <1>4, <2>1 DEF ServiceEffect
<1>6. CASE TokenIssued
  <2> DEFINE s == [saving["login"] EXCEPT !.acct = Head(events).user, !.todo = Scopes(finish)]
  <2>1. Head(events).user \in Users /\ Head(events).user # NoUser
    <3>1. loop = "running" /\ events # <<>> /\ Head(events).kind = "token"
      BY <1>6 DEF TokenIssued, Take
    <3>2. events \in Seq(Posted)
      BY <3>1 DEF LoopInv
    <3>3. QED
      BY <3>1, <3>2, StoreAssumption DEF Posted
  <2>2. Scopes(finish) \in Seq(Addresses) /\ Scopes(finish) # <<>>
    BY OneAddress, TwoAddresses DEF Scopes, Addresses, LoginAddresses
  <2>3. s \in Saver /\ s.todo # <<>> /\ s.acct # NoUser
    BY <2>1, <2>2, SaversExist DEF StoreForm, Saver
  <2>4. saving' = [saving EXCEPT !["login"] = s] /\ user_info' \in Users
    BY <1>6, <2>1 DEF TokenIssued, SaveUser
  <2> HIDE DEF s
  <2>5. QED
    BY <1>6, <2>3, <2>4 DEF StoreForm, TokenIssued
<1>7. CASE LoginGets \/ LoginSets
  BY <1>7, GetForm, SetForm, SaversExist DEF LoginGets, LoginSets
<1>8. CASE LoginDone \/ LoginCutShort
  BY <1>8, NotSavingForm, SaversExist DEF LoginDone, LoginCutShort, Forget, StoreForm
<1>9. QED
  BY <1>1, <1>5, <1>6, <1>7, <1>8, LoginEffects DEF Next, LoginQuiet, vars
-----------------------------------------------------------------------------
LEMMA ClosedForm == Closed \in Connection /\ Closed.step = "check" /\ Counted(Closed)
<1>1. Closed \in Connection
  BY DEF Closed, Connection, Steps
<1>2. Counted(Closed) /\ Closed.step = "check"
  BY ServiceAssumption DEF Closed, Counted, Idle
<1>3. QED
  BY <1>1, <1>2

\* One connection changes.
LEMMA OneTask ==
  ASSUME TaskInv, NEW c \in Conns, NEW r \in Connection, conn' = [conn EXCEPT ![c] = r],
         \A d \in Conns \ {c} : saving'[d].acct = saving[d].acct,
         Counted(r), r.step \in Holding => saving'[c].acct # NoUser
  PROVE  TaskInv'
BY DEF TaskInv

LEMMA GotoTask ==
  ASSUME TaskInv, NEW c \in Conns, NEW step \in Steps, Goto(c, step),
         \A d \in Conns \ {c} : saving'[d].acct = saving[d].acct,
         step \in Idle \/ conn[c].step \notin Idle,
         step \in Holding => saving'[c].acct # NoUser
  PROVE  TaskInv'
<1> DEFINE r == [conn[c] EXCEPT !.step = step]
<1>1. r \in Connection /\ r.step = step
  BY DEF TaskInv, Connection
<1>2. conn' = [conn EXCEPT ![c] = r]
  BY DEF Goto
<1>3. r.answered = conn[c].answered /\ r.wire = conn[c].wire /\ r.sent = conn[c].sent
  BY DEF TaskInv, Connection
<1>4. conn[c].answered \in Nat /\ conn[c].sent \in Nat /\ Len(conn[c].wire) \in Nat
  BY DEF TaskInv, Connection
<1> HIDE DEF r
<1>5. Counted(r)
  BY <1>1, <1>3, <1>4 DEF TaskInv, Counted
<1>6. QED
  BY <1>1, <1>2, <1>5, OneTask

LEMMA OthersSaving ==
  ASSUME StoreForm, NEW c \in Conns, NEW d \in Conns \ {c},
         \/ ForgetOnly(c) \/ BeginWith(c) \/ GetStore(c) \/ SetStore(c)
         \/ \E a \in Addresses : TokenReceived(c, a)
  PROVE  saving'[d] = saving[d]
BY SaversExist DEF StoreForm, ForgetOnly, Forget, BeginWith, Begin, GetStore, SetStore, TokenReceived

LEMMA EndTaskInv ==
  ASSUME TaskInv, StoreForm, NEW c \in Conns, EndTask(c)
  PROVE  TaskInv'
<1>1. ForgetOnly(c)
  BY DEF EndTask, ForgetOnly
<1>2. QED
  BY <1>1, ClosedForm, OneTask, OthersSaving DEF EndTask, Holding

LEMMA TaskStep ==
  ASSUME StoreForm, TaskInv, [Next]_vars
  PROVE  TaskInv'
<1>1. CASE UNCHANGED <<conn, saving>>
  BY <1>1 DEF TaskInv
<1>2. CASE LoginNext /\ UNCHANGED serviceVars
  <2>1. \A d \in Conns : saving'[d] = saving[d]
    <3>1. CASE UNCHANGED storeVars
      BY <3>1 DEF storeVars
    <3>2. CASE TokenIssued
      BY <3>2, SaversExist DEF TokenIssued, StoreForm
    <3>3. CASE LoginGets \/ LoginSets \/ LoginDone \/ LoginCutShort
      BY <3>3, SaversExist DEF LoginGets, LoginSets, LoginDone, LoginCutShort, Forget, GetStore, SetStore,
                               StoreForm
    <3>4. QED
      BY <1>2, <3>1, <3>2, <3>3
         DEF LoginNext, RunSessions, PageFinished, PagePostsToken, PagePostsOther, HandleOpen,
             HandleFinish, TokenNotExchanged, TokenNeedsApproval, TokenRefused, CloseRequested,
             NotLoggedIn, LoggedIn
  <2>2. QED
    BY <1>2, <2>1 DEF TaskInv, serviceVars
<1>3. ASSUME NEW s \in Services, Bind(s) \/ Interrupt(s) \/ RemoveSocket(s)
      PROVE  UNCHANGED <<conn, saving>>
  BY <1>3 DEF Bind, Interrupt, RemoveSocket, storeVars
<1>4. CASE RemoveLeftover
  BY <1>1, <1>4 DEF RemoveLeftover, storeVars
<1>5. ASSUME NEW s \in Services, Leave(s) \/ Crash(s)
      PROVE  TaskInv'
  <2>1. DropTasks(s)
    BY <1>5 DEF Leave, Crash
  <2>2. QED
    BY <2>1, ClosedForm, SaversExist DEF DropTasks, TaskInv, Owned, Holding
<1>6. ASSUME NEW c \in Conns, Connect(c) PROVE TaskInv'
  <2>1. PICK s \in Services : conn' = [conn EXCEPT ![c].owner = s]
    BY <1>6 DEF Connect
  <2> DEFINE r == [conn[c] EXCEPT !.owner = s]
  <2>2. r \in Connection /\ r.step = conn[c].step /\ conn' = [conn EXCEPT ![c] = r]
    BY <2>1 DEF TaskInv, Connection
  <2>3. r.answered = conn[c].answered /\ r.wire = conn[c].wire /\ r.sent = conn[c].sent
    BY DEF TaskInv, Connection
  <2> HIDE DEF r
  <2>4. Counted(r)
    BY <2>2, <2>3 DEF TaskInv, Counted
  <2>5. QED
    BY <1>6, <2>2, <2>4, OneTask DEF Connect, storeVars, TaskInv
<1>7. ASSUME NEW c \in Conns, NEW q \in Requests, Send(c, q) PROVE TaskInv'
  <2> DEFINE r == [conn[c] EXCEPT !.wire = Append(@, q), !.sent = @ + 1]
  <2>1. conn[c] \in Connection /\ conn' = [conn EXCEPT ![c] = r]
    BY <1>7 DEF TaskInv, Send
  <2>2. Append(conn[c].wire, q) \in Seq(Requests) /\ conn[c].sent + 1 \in Nat
    BY <2>1 DEF Connection
  <2>3. r \in Connection /\ r.step = conn[c].step
    BY <2>1, <2>2 DEF Connection
  <2>4. /\ r.answered = conn[c].answered /\ Len(r.wire) = Len(conn[c].wire) + 1
        /\ r.sent = conn[c].sent + 1 /\ conn[c].sent < MaxRequests
    BY <1>7, <2>1 DEF Connection, Send
  <2>5. /\ conn[c].answered \in Nat /\ conn[c].sent \in Nat /\ Len(conn[c].wire) \in Nat
        /\ Counted(conn[c])
    BY <2>1 DEF Connection, TaskInv
  <2> HIDE DEF r
  <2>6. Counted(r)
    BY <2>3, <2>4, <2>5, ServiceAssumption DEF Counted
  <2>7. QED
    BY <1>7, <2>1, <2>3, <2>6, OneTask DEF Send, storeVars, TaskInv
<1>8. ASSUME NEW c \in Conns, ClientLeaves(c) PROVE TaskInv'
  <2> DEFINE r == [conn[c] EXCEPT !.eof = TRUE]
  <2>1. r \in Connection /\ r.step = conn[c].step /\ conn' = [conn EXCEPT ![c] = r]
    BY <1>8 DEF TaskInv, Connection, ClientLeaves
  <2>2. r.answered = conn[c].answered /\ r.wire = conn[c].wire /\ r.sent = conn[c].sent
    BY DEF TaskInv, Connection
  <2> HIDE DEF r
  <2>3. Counted(r)
    BY <2>1, <2>2 DEF TaskInv, Counted
  <2>4. QED
    BY <1>8, <2>1, <2>3, OneTask DEF ClientLeaves, storeVars, TaskInv
<1>9. ASSUME NEW c \in Conns, \/ ReadEnd(c) \/ ReadOther(c) \/ DeviceFault(c) \/ ExchangeFault(c)
                              \/ SavedOnly(c)
      PROVE  TaskInv'
  BY <1>9, EndTaskInv DEF ReadEnd, ReadOther, DeviceFault, ExchangeFault, SavedOnly
<1>10. ASSUME NEW c \in Conns, CheckCancelled(c) PROVE TaskInv'
  <2>1. CASE Goto(c, "magic") /\ UNCHANGED storeVars
    BY <2>1, GotoTask DEF Steps, storeVars, Idle, Holding
  <2>2. QED
    BY <1>10, <2>1, EndTaskInv DEF CheckCancelled
<1>11. ASSUME NEW c \in Conns, ReadRequest(c) PROVE TaskInv'
  <2> DEFINE r == [conn[c] EXCEPT !.wire = Tail(@), !.step = AfterRequest[Head(conn[c].wire)]]
  <2>1. AfterRequest[Head(conn[c].wire)] \in {"answer", "nothing", "get_sts"}
    BY <1>11 DEF ReadRequest, AfterRequest
  <2>2. conn[c] \in Connection /\ conn[c].wire # <<>> /\ conn' = [conn EXCEPT ![c] = r]
    BY <1>11 DEF ReadRequest, TaskInv
  <2>3. Tail(conn[c].wire) \in Seq(Requests)
    BY <2>2 DEF Connection
  <2>4. AfterRequest[Head(conn[c].wire)] \in Steps
    BY <2>1 DEF Steps
  <2>5. r \in Connection /\ r.step = AfterRequest[Head(conn[c].wire)]
    BY <2>2, <2>3, <2>4 DEF Connection
  <2>6. /\ r.answered = conn[c].answered /\ Len(r.wire) = Len(conn[c].wire) - 1
        /\ r.sent = conn[c].sent
    BY <2>2 DEF Connection
  <2>7. /\ conn[c].answered \in Nat /\ conn[c].sent \in Nat /\ Len(conn[c].wire) \in Nat
        /\ Counted(conn[c]) /\ conn[c].step \in Idle
    BY <1>11, <2>2 DEF Connection, TaskInv, ReadRequest, At, Idle
  <2> HIDE DEF r
  <2>8. Counted(r)
    BY <2>6, <2>7, ServiceAssumption DEF Counted
  <2>9. QED
    BY <1>11, <2>1, <2>2, <2>5, <2>8, OneTask DEF ReadRequest, storeVars, Holding
<1>12. ASSUME NEW c \in Conns, GetSts(c) PROVE TaskInv'
  <2> conn[c].step \notin Idle
    BY <1>12 DEF GetSts, At, Idle
  <2>1. CASE Goto(c, "nothing") /\ UNCHANGED storeVars
    BY <2>1, GotoTask DEF Steps, storeVars, Holding
  <2>2. CASE BeginWith(c) /\ Goto(c, "device")
    <3>1. saving'[c].acct # NoUser
      BY <2>2, SaversExist DEF BeginWith, Begin, StoreForm, Saver
    <3>2. QED
      BY <2>2, <3>1, GotoTask, OthersSaving DEF Steps
  <2>3. QED
    BY <1>12, <2>1, <2>2 DEF GetSts, BeginWith
<1>13. ASSUME NEW c \in Conns, ExchangeDevice(c) PROVE TaskInv'
  <2>1. conn[c].step \notin Idle /\ saving'[c].acct # NoUser
    BY <1>13 DEF ExchangeDevice, At, Idle, Holding, TaskInv, storeVars
  <2>2. QED
    BY <1>13, <2>1, GotoTask DEF ExchangeDevice, Steps, storeVars
<1>14. ASSUME NEW c \in Conns, ExchangeFails(c) PROVE TaskInv'
  <2>1. ForgetOnly(c)
    BY <1>14 DEF ExchangeFails, ForgetOnly, Forget
  <2>2. QED
    BY <1>14, <2>1, GotoTask, OthersSaving DEF ExchangeFails, At, Steps, Idle, Holding
<1>15. ASSUME NEW c \in Conns, ExchangeUser(c) PROVE TaskInv'
  <2>1. PICK a \in Addresses, lone \in BOOLEAN :
          /\ saving' = [saving EXCEPT ![c].todo = <<a>>]
          /\ Goto(c, IF lone THEN "save_only" ELSE "save")
    BY <1>15 DEF ExchangeUser, Addresses, LoginAddresses
  <2>2. TokenReceived(c, a)
    BY <1>15, <2>1 DEF ExchangeUser, TokenReceived, TaskInv, At, Holding
  <2>3. saving'[c].acct # NoUser /\ conn[c].step \notin Idle
    BY <1>15, <2>2, SaversExist DEF ExchangeUser, At, Idle, TokenReceived, StoreForm, Saver
  <2>4. QED
    BY <2>1, <2>2, <2>3, GotoTask, OthersSaving DEF Steps
<1>16. ASSUME NEW c \in Conns, RequestGets(c) PROVE TaskInv'
  <2>1. GetStore(c) /\ conn' = conn
    BY <1>16 DEF RequestGets, serviceVars
  <2>2. saving'[c].acct = saving[c].acct
    BY <2>1, SaversExist DEF GetStore, StoreForm, Saver
  <2>3. QED
    BY <2>1, <2>2, OthersSaving DEF TaskInv
<1>17. ASSUME NEW c \in Conns, RequestSets(c) PROVE TaskInv'
  <2>1. SetStore(c) /\ conn' = conn
    BY <1>17 DEF RequestSets, serviceVars
  <2>2. saving'[c].acct = saving[c].acct
    BY <2>1, SaversExist DEF SetStore, StoreForm, Saver
  <2>3. QED
    BY <2>1, <2>2, OthersSaving DEF TaskInv
<1>18. ASSUME NEW c \in Conns, Saved(c) PROVE TaskInv'
  <2>1. ForgetOnly(c)
    BY <1>18 DEF Saved, ForgetOnly, Forget
  <2>2. PICK n \in AnswerSizes : conn' = [conn EXCEPT ![c].step = "answer", ![c].size = n]
    BY <1>18 DEF Saved
  <2> DEFINE r == [conn[c] EXCEPT !.step = "answer", !.size = n]
  <2>3. r \in Connection /\ r.step = "answer" /\ conn' = [conn EXCEPT ![c] = r]
    BY <2>2 DEF TaskInv, Connection, Steps
  <2>4. r.answered = conn[c].answered /\ r.wire = conn[c].wire /\ r.sent = conn[c].sent
    BY DEF TaskInv, Connection
  <2>5. Counted(conn[c]) /\ conn[c].step \notin Idle
    BY <1>18 DEF Saved, At, Idle, TaskInv
  <2> HIDE DEF r
  <2>6. Counted(r)
    BY <2>3, <2>4, <2>5 DEF Counted, Idle
  <2>7. QED
    BY <2>1, <2>3, <2>6, OneTask, OthersSaving DEF Holding
<1>19. ASSUME NEW c \in Conns, Answer(c) PROVE TaskInv'
  <2> DEFINE astray == conn[c].astray \/ Announced(conn[c].size) # conn[c].size
             answered == IF conn[c].eof THEN conn[c].answered ELSE conn[c].answered + 1
             r == [conn[c] EXCEPT !.step = "check", !.size = 0, !.astray = astray,
                                  !.answered = answered]
  <2>1. conn[c] \in Connection /\ conn' = [conn EXCEPT ![c] = r]
    BY <1>19 DEF Answer, TaskInv
  <2>2. astray \in BOOLEAN /\ answered \in Nat /\ answered <= conn[c].answered + 1
    BY <2>1 DEF Connection
  <2> HIDE DEF astray, answered
  <2>3. r \in Connection /\ r.step = "check"
    BY <2>1, <2>2 DEF Connection, Steps
  <2>4. r.answered = answered /\ r.wire = conn[c].wire /\ r.sent = conn[c].sent
    BY <2>1 DEF Connection
  <2>5. /\ conn[c].answered \in Nat /\ conn[c].sent \in Nat /\ Len(conn[c].wire) \in Nat
        /\ Counted(conn[c]) /\ conn[c].step \notin Idle
    BY <1>19, <2>1 DEF Connection, TaskInv, Answer, At, Idle
  <2> HIDE DEF r
  <2>6. Counted(r)
    BY <2>2, <2>3, <2>4, <2>5 DEF Counted, Idle
  <2>7. QED
    BY <1>19, <2>1, <2>3, <2>6, OneTask DEF Answer, storeVars, Holding
<1>20. ASSUME NEW c \in Conns, Task(c) PROVE TaskInv'
  BY <1>20, <1>9, <1>10, <1>11, <1>12, <1>13, <1>14, <1>15, <1>16, <1>17, <1>18, <1>19 DEF Task
<1>21. CASE UNCHANGED vars
  BY <1>21, <1>1 DEF vars, storeVars, serviceVars
<1>22. QED
  BY <1>1, <1>2, <1>3, <1>4, <1>5, <1>6, <1>7, <1>8, <1>20, <1>21 DEF Next, ServiceNext
-----------------------------------------------------------------------------
\* What a request does to the store leaves a login's savings as they are, unless
\* the request was overtaken, and then it is noted in torn.
LEMMA IssuedByService ==
  ASSUME LoopInv, StoreForm, TaskInv, IssuedInv, ServiceNext, UNCHANGED loginVars
  PROVE  IssuedInv'
<1> (Issued' <=> Issued) /\ next_session_id' = next_session_id
  BY DEF loginVars, runtimeVars, Issued
<1>1. CASE UNCHANGED storeVars
  BY <1>1 DEF IssuedInv, MineSaved, OfOne, Reading, storeVars
<1>2. ASSUME NEW s \in Services, DropTasks(s) PROVE IssuedInv'
  <2>1. saving'["login"] = saving["login"]
    BY <1>2, SaversExist DEF DropTasks, Owned
  <2>2. Issued => Reading' \subseteq overtaken'
    BY <1>2, SaversExist, NotSavingForm DEF DropTasks, IssuedInv, Reading
  <2>3. QED
    BY <1>2, <2>1, <2>2 DEF DropTasks, IssuedInv, MineSaved, OfOne
<1>3. ASSUME NEW c \in Conns,
             \/ ForgetOnly(c) \/ BeginWith(c) \/ GetStore(c) \/ SetByRequest(c)
             \/ \E a \in Addresses : TokenReceived(c, a)
      PROVE  IssuedInv'
  <2>1. saving'["login"] = saving["login"] /\ user_info' = user_info
    BY <1>3, SaversExist DEF ForgetOnly, Forget, BeginWith, Begin, GetStore, SetByRequest, SetStore,
                             TokenReceived, StoreForm
  <2>2. \A d \in Conns \ {c} : saving'[d] = saving[d]
    BY <1>3, OthersSaving DEF SetByRequest
  <2>3. Issued => Reading' \subseteq overtaken'
    <3> SUFFICES ASSUME Issued, NEW d \in Reading' PROVE d \in overtaken'
      OBVIOUS
    <3>1. Reading \subseteq overtaken /\ saving["login"].acct # NoUser
      BY DEF IssuedInv
    <3>2. CASE d # c
      <4>1. d \in Reading
        BY <2>2, <3>2 DEF Reading
      <4>2. QED
        BY <1>3, <3>1, <3>2, <4>1 DEF ForgetOnly, Forget, BeginWith, Begin, GetStore, SetByRequest,
                                      SetStore, TokenReceived
    <3>3. CASE d = c /\ BeginWith(c)
      BY <3>1, <3>3 DEF BeginWith, Begin
    <3>4. CASE d = c /\ ForgetOnly(c)
      BY <3>4, NotSavingForm, SaversExist DEF ForgetOnly, Forget, Reading, StoreForm
    <3>5. CASE d = c /\ (GetStore(c) \/ SetByRequest(c) \/ \E a \in Addresses : TokenReceived(c, a))
      <4>1. saving'[c].acct = saving[c].acct
        BY <3>5, SaversExist DEF GetStore, SetByRequest, SetStore, TokenReceived, StoreForm, Saver
      <4>2. c \in Reading
        BY <3>5, <4>1 DEF Reading
      <4>3. QED
        BY <3>1, <3>5, <4>2, SaversExist DEF GetStore, SetByRequest, SetStore, TokenReceived
    <3>6. QED
      BY <1>3, <3>2, <3>3, <3>4, <3>5
  <2>4. CASE UNCHANGED <<user_tokens, torn>>
    BY <2>1, <2>3, <2>4 DEF IssuedInv, MineSaved, OfOne
  <2>5. CASE SetByRequest(c)
    <3>1. c \in Reading
      BY <2>5, SaversExist DEF SetByRequest, SetStore, Reading, StoreForm
    <3>2. Issued => torn' = torn \cup {"overtaken"}
      BY <2>5, <3>1 DEF SetByRequest, IssuedInv
    <3>3. Issued => torn' # {"unfinished"}
      BY <3>2
    <3>4. QED
      BY <2>1, <2>3, <3>2, <3>3 DEF IssuedInv
  <2>6. QED
    BY <1>3, <2>4, <2>5 DEF ForgetOnly, BeginWith, GetStore, TokenReceived
<1>4. QED
  BY <1>1, <1>2, <1>3, ServiceEffects DEF ServiceEffect

LEMMA IssuedByLogin ==
  ASSUME LoopInv, FinishInv, StoreForm, IssuedInv, LoginNext
  PROVE  IssuedInv'
<1>1. CASE LoginQuiet
  BY <1>1 DEF LoginQuiet, IssuedInv, MineSaved, OfOne, Reading, storeVars
<1>2. CASE TokenIssued
  <2> DEFINE s == [saving["login"] EXCEPT !.acct = Head(events).user, !.todo = Scopes(finish)]
  <2>1. loop = "running" /\ events # <<>> /\ Head(events).kind = "token"
    BY <1>2 DEF TokenIssued, Take
  <2>2. Head(events).user \in Users /\ Head(events).user # NoUser
    BY <2>1, StoreAssumption DEF LoopInv, Posted
  <2>3. ~saving["login"].reading
    BY <2>1, SaversExist DEF IssuedInv, Issued, StoreForm
  <2>4. saving' = [saving EXCEPT !["login"] = s]
    BY <1>2 DEF TokenIssued
  <2>5. s.acct = Head(events).user /\ ~s.reading /\ s.todo = Scopes(finish)
    BY <2>3, SaversExist DEF StoreForm, Saver
  <2> HIDE DEF s
  <2>6. saving'["login"] = s /\ \A d \in Conns : saving'[d] = saving[d]
    BY <2>4, SaversExist DEF StoreForm
  <2>7. Issued' /\ next_session_id' = next_session_id /\ torn' = {"unfinished"}
        /\ user_info' = Head(events).user /\ overtaken' = overtaken \cup Reading
    BY <1>2 DEF TokenIssued, Issued, Step, SaveUser
  <2>8. Reading' = Reading
    BY <2>6 DEF Reading
  <2>9. next_session_id # 2 => s.todo = <<"service", "sts">>
    BY <2>1, <2>5 DEF FinishInv, Scopes
  <2>10. MineSaved'
    BY <2>5, <2>6, <2>7, <2>9 DEF MineSaved
  <2>11. QED
    BY <2>2, <2>5, <2>6, <2>7, <2>8, <2>10 DEF IssuedInv
<1>3. CASE LoginGets
  <2>1. GetStore("login") /\ Issued /\ Issued' /\ next_session_id' = next_session_id
    BY <1>3 DEF LoginGets, FinishInv, Issued, loginVars, runtimeVars
  <2>2. /\ saving'["login"].acct = saving["login"].acct /\ saving'["login"].todo = saving["login"].todo
        /\ saving'["login"].buf = user_tokens
    BY <2>1, SaversExist DEF GetStore, StoreForm, Saver
  <2>3. Reading' = Reading
    BY <2>1, SaversExist DEF GetStore, StoreForm, Reading
  <2>4. QED
    BY <2>1, <2>2, <2>3 DEF IssuedInv, MineSaved, OfOne, GetStore
<1>4. CASE LoginSets
  <2> DEFINE login == saving["login"]
  <2>1. SetStore("login") /\ Issued /\ Issued' /\ UNCHANGED <<next_session_id, user_info, torn>>
    BY <1>4 DEF LoginSets, FinishInv, Issued, loginVars, runtimeVars
  <2>2. login \in Saver /\ login.todo # <<>> /\ login.reading
    BY <2>1, SaversExist DEF StoreForm, SetStore
  <2>3. /\ saving'["login"].acct = login.acct /\ saving'["login"].todo = Tail(login.todo)
        /\ ~saving'["login"].reading
    BY <2>1, SaversExist DEF SetStore, StoreForm, Saver
  <2>4. Reading' = Reading
    BY <2>1, SaversExist DEF SetStore, StoreForm, Reading
  <2>5. ASSUME torn = {"unfinished"} PROVE MineSaved'
    <3>1. user_tokens' = [user_tokens EXCEPT ![Head(login.todo)] = login.acct]
      BY <2>1, <2>2, <2>5 DEF SetStore, IssuedInv, MineSaved
    <3>2. CASE login.todo = <<"service", "sts">>
      <4>1. Head(login.todo) = "service" /\ Tail(login.todo) = <<"sts">>
        BY <3>2
      <4>2. user_tokens'["service"] = login.acct
        BY <3>1, <4>1 DEF StoreForm, Tokens, Addresses, LoginAddresses
      <4>3. QED
        BY <2>3, <4>1, <4>2 DEF MineSaved
    <3>3. CASE login.todo = <<"sts">> /\ user_tokens["service"] = login.acct
      <4>1. Head(login.todo) = "sts" /\ Tail(login.todo) = <<>>
        BY <3>3
      <4>2. user_tokens'["service"] = login.acct /\ user_tokens'["sts"] = login.acct
        BY <3>1, <3>3, <4>1 DEF StoreForm, Tokens, Addresses, LoginAddresses
      <4>3. QED
        BY <2>3, <4>1, <4>2 DEF MineSaved, OfOne, LoginAddresses
    <3>4. CASE next_session_id = 2
      BY <2>1, <2>3, <3>4 DEF MineSaved
    <3>5. QED
      BY <2>1, <2>2, <2>5, <3>2, <3>3, <3>4 DEF IssuedInv, MineSaved
  <2>6. overtaken' = overtaken \cup Reading
    BY <2>1 DEF SetStore
  <2>7. QED
    BY <2>1, <2>3, <2>4, <2>5, <2>6 DEF IssuedInv
<1>5. CASE LoginDone \/ LoginCutShort
  <2>1. saving'["login"].acct = NoUser /\ loop' = "off"
    BY <1>5, NotSavingForm, SaversExist DEF LoginDone, LoginCutShort, Forget, Off, StoreForm
  <2>2. QED
    BY <2>1 DEF IssuedInv, Issued
<1>6. QED
  BY <1>1, <1>2, <1>3, <1>4, <1>5, LoginEffects

LEMMA IssuedStep ==
  ASSUME LoopInv, FinishInv, StoreForm, TaskInv, IssuedInv, [Next]_vars
  PROVE  IssuedInv'
<1>1. CASE UNCHANGED vars
  BY <1>1 DEF vars, storeVars, loginVars, runtimeVars, IssuedInv, Issued, MineSaved, OfOne, Reading
<1>2. QED
  BY <1>1, IssuedByService, IssuedByLogin DEF Next
-----------------------------------------------------------------------------
LEMMA AgreeByService ==
  ASSUME StoreForm, TaskInv, IssuedInv, AgreeInv, ServiceNext
  PROVE  AgreeInv'
<1>1. CASE UNCHANGED storeVars
  BY <1>1 DEF AgreeInv, OfOne, storeVars
<1>2. ASSUME NEW s \in Services, DropTasks(s) PROVE AgreeInv'
  <2>1. \A c \in Conns \ overtaken' : saving'[c].acct # NoUser =>
          c \notin overtaken /\ saving'[c] = saving[c]
    BY <1>2, SaversExist, NotSavingForm DEF DropTasks
  <2>2. QED
    BY <1>2, <2>1 DEF DropTasks, AgreeInv, OfOne
<1>3. ASSUME NEW c \in Conns,
             \/ ForgetOnly(c) \/ BeginWith(c) \/ GetStore(c) \/ SetByRequest(c)
             \/ \E a \in Addresses : TokenReceived(c, a),
             torn' = {}
      PROVE  /\ OfOne(user_tokens', user_info')
             /\ \A d \in Conns \ overtaken' : saving'[d].acct # NoUser =>
                  saving'[d].acct = user_info' /\ (saving'[d].reading => OfOne(saving'[d].buf, user_info'))
  <2>1. torn = {} /\ user_info' = user_info
    BY <1>3 DEF ForgetOnly, BeginWith, GetStore, SetByRequest, TokenReceived
  <2>2. saving["login"].acct = NoUser
    BY <2>1 DEF IssuedInv
  <2>3. OfOne(user_tokens, user_info)
    BY <2>1 DEF AgreeInv
  <2>4. ASSUME NEW d \in Conns \ overtaken', d # c, saving'[d].acct # NoUser
        PROVE  saving'[d].acct = user_info /\ (saving'[d].reading => OfOne(saving'[d].buf, user_info))
    <3>1. saving'[d] = saving[d]
      BY <1>3, <2>4, OthersSaving DEF SetByRequest
    <3>2. d \notin overtaken
      BY <1>3, <2>4, SaversExist
         DEF ForgetOnly, Forget, BeginWith, Begin, GetStore, SetByRequest, SetStore, TokenReceived
    <3>3. QED
      BY <2>1, <2>4, <3>1, <3>2 DEF AgreeInv
  <2>5. saving[c] \in Saver
    BY SaversExist DEF StoreForm
  <2>6. CASE ForgetOnly(c)
    <3>1. saving'[c].acct = NoUser
      BY <2>6, NotSavingForm, SaversExist DEF ForgetOnly, Forget, StoreForm
    <3>2. QED
      BY <2>1, <2>3, <2>4, <2>6, <3>1 DEF ForgetOnly
  <2>7. CASE BeginWith(c)
    <3>1. /\ saving'[c].acct = user_tokens["sts"] /\ saving'[c].reading = saving[c].reading
          /\ saving'[c].buf = saving[c].buf
      BY <2>7, <2>5, SaversExist DEF BeginWith, Begin, StoreForm, Saver
    <3>2. user_tokens["sts"] = user_info
      BY <2>3, <2>7 DEF BeginWith, OfOne, LoginAddresses
    <3>3. overtaken' = overtaken
      BY <2>2, <2>7 DEF BeginWith, Begin
    <3>4. saving[c].reading => saving[c].acct # NoUser
      BY SaversExist DEF StoreForm
    <3>5. c \notin overtaken /\ saving[c].reading => OfOne(saving[c].buf, user_info)
      BY <2>1, <3>4 DEF AgreeInv
    <3>6. QED
      BY <2>1, <2>3, <2>4, <2>7, <3>1, <3>2, <3>3, <3>5 DEF BeginWith
  <2>8. CASE GetStore(c)
    <3>1. saving'[c].acct = saving[c].acct /\ saving'[c].buf = user_tokens
      BY <2>8, <2>5, SaversExist DEF GetStore, StoreForm, Saver
    <3>2. QED
      BY <2>1, <2>3, <2>4, <2>8, <3>1 DEF GetStore, AgreeInv
  <2>9. CASE SetByRequest(c)
    <3>1. c \notin overtaken
      BY <1>3, <2>9 DEF SetByRequest
    <3>2. saving[c].reading /\ saving[c].acct # NoUser /\ Head(saving[c].todo) \in Addresses
      BY <2>5, <2>9, SaversExist DEF SetByRequest, SetStore, StoreForm, Saver
    <3>3. saving[c].acct = user_info /\ OfOne(saving[c].buf, user_info)
      BY <2>1, <3>1, <3>2 DEF AgreeInv
    <3>4. user_tokens' = [saving[c].buf EXCEPT ![Head(saving[c].todo)] = user_info]
      BY <2>9, <3>3 DEF SetByRequest, SetStore
    <3>5. OfOne(user_tokens', user_info)
      BY <2>5, <3>3, <3>4 DEF OfOne, Saver, Tokens
    <3>6. saving'[c].acct = user_info /\ ~saving'[c].reading
      BY <2>5, <2>9, <3>3, SaversExist DEF SetByRequest, SetStore, StoreForm, Saver
    <3>7. QED
      BY <2>1, <2>4, <3>5, <3>6
  <2>10. CASE \E a \in Addresses : TokenReceived(c, a)
    <3>1. /\ saving'[c].acct = saving[c].acct /\ saving'[c].reading = saving[c].reading
          /\ saving'[c].buf = saving[c].buf
      BY <2>10, <2>5, SaversExist DEF TokenReceived, StoreForm, Saver
    <3>2. QED
      BY <2>1, <2>3, <2>4, <2>10, <3>1 DEF TokenReceived, AgreeInv
  <2>11. QED
    BY <1>3, <2>6, <2>7, <2>8, <2>9, <2>10
<1>4. ASSUME NEW c \in Conns,
             \/ ForgetOnly(c) \/ BeginWith(c) \/ GetStore(c) \/ SetByRequest(c)
             \/ \E a \in Addresses : TokenReceived(c, a)
      PROVE  AgreeInv'
  BY <1>3, <1>4 DEF AgreeInv, OfOne
<1>5. QED
  BY <1>1, <1>2, <1>4, ServiceEffects DEF ServiceEffect

LEMMA AgreeByLogin ==
  ASSUME LoopInv, FinishInv, StoreForm, IssuedInv, AgreeInv, LoginNext
  PROVE  AgreeInv'
<1>1. CASE LoginQuiet
  BY <1>1 DEF LoginQuiet, AgreeInv, OfOne, storeVars
<1>2. CASE TokenIssued
  BY <1>2 DEF TokenIssued, SaveUser, AgreeInv
<1>3. CASE LoginGets \/ LoginSets
  <2>1. Issued /\ torn' = torn
    BY <1>3 DEF LoginGets, LoginSets, GetStore, FinishInv, Issued
  <2>2. QED
    BY <2>1 DEF IssuedInv, AgreeInv
<1>4. CASE LoginDone
  <2>1. Issued /\ saving["login"].acct # NoUser
    BY <1>4 DEF LoginDone, FinishInv, Issued, IssuedInv
  <2>2. SUFFICES ASSUME torn' = {} PROVE AgreeInv'
    BY DEF AgreeInv
  <2>3. torn = {"unfinished"} /\ next_session_id # 2
    BY <1>4, <2>1, <2>2 DEF LoginDone, IssuedInv
  <2>4. OfOne(user_tokens, user_info)
    BY <1>4, <2>1, <2>3 DEF LoginDone, IssuedInv, MineSaved
  <2>5. ASSUME NEW c \in Conns \ overtaken' PROVE saving'[c].acct = NoUser
    <3>1. c \notin overtaken /\ saving'[c] = saving[c]
      BY <1>4, <2>5, SaversExist DEF LoginDone, Forget, StoreForm
    <3>2. QED
      BY <2>1, <3>1 DEF IssuedInv, Reading
  <2>6. QED
    BY <1>4, <2>4, <2>5 DEF LoginDone, AgreeInv, OfOne
<1>5. CASE LoginCutShort
  <2>1. UNCHANGED <<user_tokens, user_info, torn>>
    BY <1>5 DEF LoginCutShort
  <2>2. \A c \in Conns \ overtaken' : c \notin overtaken /\ saving'[c] = saving[c]
    BY <1>5, SaversExist DEF LoginCutShort, Forget, StoreForm
  <2>3. QED
    BY <2>1, <2>2 DEF AgreeInv, OfOne
<1>6. QED
  BY <1>1, <1>2, <1>3, <1>4, <1>5, LoginEffects

LEMMA StoreInitial == Init => IInv
<1> SUFFICES ASSUME Init PROVE IInv
  OBVIOUS
<1>1. LoopInv
  BY LoopInit
<1>2. FinishInv
  BY DEF Init, LoginInit, FinishInv
<1>3. StoreForm
  BY NotSavingForm DEF Init, StoreInit, StoreForm, NoTokens, Tokens
<1>4. TaskInv
  BY ClosedForm DEF Init, ServiceInit, TaskInv, Holding
<1>5. IssuedInv
  BY NotSavingForm, SaversExist DEF Init, StoreInit, LoginInit, IssuedInv, Issued
<1>6. AgreeInv
  BY NotSavingForm, SaversExist DEF Init, StoreInit, AgreeInv, OfOne, NoTokens, Addresses
<1>7. QED
  BY <1>1, <1>2, <1>3, <1>4, <1>5, <1>6 DEF IInv

LEMMA StoreStep == IInv /\ [Next]_vars => IInv'
<1> SUFFICES ASSUME IInv, [Next]_vars PROVE IInv'
  OBVIOUS
<1> LoopInv /\ FinishInv /\ StoreForm /\ TaskInv /\ IssuedInv /\ AgreeInv
  BY DEF IInv
<1>1. LoopInv' /\ FinishInv' /\ StoreForm' /\ TaskInv' /\ IssuedInv'
  BY LoopStep, FinishStep, FormStep, TaskStep, IssuedStep
<1>2. ASSUME UNCHANGED vars PROVE AgreeInv'
  BY <1>2 DEF vars, storeVars, AgreeInv, OfOne
<1>3. AgreeInv'
  BY <1>2, AgreeByService, AgreeByLogin DEF Next
<1>4. QED
  BY <1>1, <1>3 DEF IInv

\* The user and the tokens stored are of one account, for any number of
\* accounts, sessions and connections, unless a login was cut short or asked for
\* no STS token, or a request overtaken by a login saved after it.
THEOREM TokensCorrect == Spec => []TokensAgree
<1>1. IInv => TokensAgree
  BY DEF IInv, AgreeInv, OfOne, TokensAgree
<1>2. QED
  BY StoreInitial, StoreStep, <1>1, PTL DEF Spec
-----------------------------------------------------------------------------
\* The scripts of a session that the loop has still to evaluate.
Scripts(queue, id) == {i \in DOMAIN queue : queue[i].kind = "finish" /\ queue[i].id = id}

LEMMA ScriptsFinite ==
  ASSUME NEW S, NEW queue \in Seq(S), NEW id
  PROVE  IsFiniteSet(Scripts(queue, id)) /\ Cardinality(Scripts(queue, id)) \in Nat
<1>1. IsFiniteSet(1..Len(queue)) /\ Scripts(queue, id) \subseteq 1..Len(queue)
  BY FS_Interval DEF Scripts
<1>2. QED
  BY <1>1, FS_Subset, FS_CardinalityType

\* An event at the end of the queue adds its own script, if it has one.
LEMMA ScriptsAppended ==
  ASSUME NEW S, NEW queue \in Seq(S), NEW e \in S, NEW id
  PROVE  Cardinality(Scripts(Append(queue, e), id)) =
           Cardinality(Scripts(queue, id)) + (IF e.kind = "finish" /\ e.id = id THEN 1 ELSE 0)
<1> DEFINE n == Len(queue) + 1
<1>1. n \notin Scripts(queue, id)
  BY DEF Scripts
<1>2. CASE e.kind = "finish" /\ e.id = id
  <2>1. Scripts(Append(queue, e), id) = Scripts(queue, id) \cup {n}
    BY <1>2, AppendProperties DEF Scripts
  <2>2. QED
    BY <1>1, <1>2, <2>1, ScriptsFinite, FS_AddElement
<1>3. CASE ~(e.kind = "finish" /\ e.id = id)
  <2>1. Scripts(Append(queue, e), id) = Scripts(queue, id)
    BY <1>3, AppendProperties DEF Scripts
  <2>2. QED
    BY <1>3, <2>1, ScriptsFinite
<1>4. QED
  BY <1>2, <1>3

\* The event taken off takes its own with it.
LEMMA ScriptsTaken ==
  ASSUME NEW S, NEW queue \in Seq(S), queue # <<>>, NEW id
  PROVE  Cardinality(Scripts(Tail(queue), id)) =
           Cardinality(Scripts(queue, id))
             - (IF Head(queue).kind = "finish" /\ Head(queue).id = id THEN 1 ELSE 0)
<1> DEFINE rest == Scripts(queue, id) \ {1}
           shift == [i \in Scripts(Tail(queue), id) |-> i + 1]
<1>1. /\ Tail(queue) \in Seq(S) /\ Len(Tail(queue)) = Len(queue) - 1
      /\ \A i \in 1..Len(Tail(queue)) : Tail(queue)[i] = queue[i + 1]
      /\ Len(queue) \in Nat \ {0} /\ Head(queue) = queue[1]
  BY HeadTailProperties
<1>2. Scripts(Tail(queue), id) = {i \in 1..(Len(queue) - 1) : queue[i + 1].kind = "finish" /\ queue[i + 1].id = id}
  BY <1>1 DEF Scripts
<1>3. rest = {i \in 2..Len(queue) : queue[i].kind = "finish" /\ queue[i].id = id}
  BY <1>1 DEF Scripts
<1>4. shift \in Bijection(Scripts(Tail(queue), id), rest)
  <2>1. shift \in [Scripts(Tail(queue), id) -> rest]
    BY <1>1, <1>2, <1>3
  <2>2. \A i, j \in Scripts(Tail(queue), id) : shift[i] = shift[j] => i = j
    BY <1>1, <1>2
  <2>3. ASSUME NEW k \in rest PROVE \E i \in Scripts(Tail(queue), id) : shift[i] = k
    <3>1. k - 1 \in 1..(Len(queue) - 1) /\ (k - 1) + 1 = k
      BY <1>1, <1>3
    <3>2. k - 1 \in Scripts(Tail(queue), id)
      BY <1>2, <1>3, <3>1
    <3>3. QED
      BY <3>1, <3>2
  <2> HIDE DEF rest, shift
  <2>4. QED
    BY <2>1, <2>2, <2>3 DEF Bijection, Injection, Surjection, IsInjective
<1>5. IsFiniteSet(Scripts(Tail(queue), id)) /\ IsFiniteSet(Scripts(queue, id))
  BY <1>1, ScriptsFinite
<1>6. Cardinality(rest) = Cardinality(Scripts(Tail(queue), id))
  BY <1>4, <1>5, FS_Bijection DEF ExistsBijection
<1>7. Cardinality(rest) = IF 1 \in Scripts(queue, id) THEN Cardinality(Scripts(queue, id)) - 1
                                                      ELSE Cardinality(Scripts(queue, id))
  BY <1>5, FS_RemoveElement
<1>8. 1 \in Scripts(queue, id) <=> Head(queue).kind = "finish" /\ Head(queue).id = id
  BY <1>1 DEF Scripts
<1>9. Cardinality(Scripts(queue, id)) \in Nat
  BY ScriptsFinite
<1>10. QED
  BY <1>6, <1>7, <1>8, <1>9
-----------------------------------------------------------------------------
\* Events are of sessions opened so far, a token is of an account, and the page
\* has never been asked for a token more often than it has loaded post.srf,
\* those scripts counted that wait in the queue.
QueueInv ==
  /\ events \in Seq(Events)
  /\ \A i \in DOMAIN events : events[i].kind = "token" => events[i].user \in Users
  /\ \A i \in DOMAIN events : events[i].id < next_session_id

PageInv ==
  /\ page \in [loads : 0..MaxLoads, asked : Nat] /\ page.asked <= page.loads
  /\ loop = "running" /\ active_session # 0 =>
       page.asked + Cardinality(Scripts(events, active_session)) <= page.loads

RuntimeInv ==
  /\ loop \in {"off", "running", "exited", "saving"} /\ logins \in 0..MaxLogins
  /\ next_session_id \in 1..(MaxSessions + 1) /\ active_session \in 0..MaxSessions
  /\ window \in BOOLEAN /\ finish \in BOOLEAN /\ error \in BOOLEAN
  /\ result \in {"none", "nothing", "issued"}

LoginInv == RuntimeInv /\ QueueInv /\ PageInv

LEMMA NoScripts == ASSUME NEW id PROVE Cardinality(Scripts(<<>>, id)) = 0
<1>1. Scripts(<<>>, id) = {}
  BY DEF Scripts
<1>2. QED
  BY <1>1, FS_EmptySet

LEMMA NewPageForm == NewPage \in [loads : 0..MaxLoads, asked : Nat] /\ NewPage.asked = 0 /\ NewPage.loads = 0
BY LoginAssumption DEF NewPage

\* What a page posts to the queue.
LEMMA QueueAppended ==
  ASSUME QueueInv, NEW e \in Events, e.kind = "token" => e.user \in Users, e.id < next_session_id,
         events' = Append(events, e), next_session_id' = next_session_id
  PROVE  QueueInv'
<1>1. /\ events' \in Seq(Events) /\ DOMAIN events' = 1..(Len(events) + 1)
      /\ \A i \in 1..Len(events) : events'[i] = events[i]
      /\ events'[Len(events) + 1] = e
  BY AppendProperties DEF QueueInv
<1>2. DOMAIN events = 1..Len(events) /\ Len(events) \in Nat
  BY DEF QueueInv
<1>3. \A i \in DOMAIN events' : i \in DOMAIN events \/ i = Len(events) + 1
  BY <1>1, <1>2
<1>4. QED
  BY <1>1, <1>2, <1>3 DEF QueueInv

LEMMA QueueTaken ==
  ASSUME QueueInv, NEW k, Take(k), next_session_id \in Nat, next_session_id' \in Nat,
         next_session_id' >= next_session_id
  PROVE  /\ QueueInv' /\ Head(events) \in Events /\ Head(events).kind = k
         /\ \A i \in DOMAIN events' : events'[i].id < next_session_id
         /\ Head(events).kind = "token" => Head(events).user \in Users
<1>1. events \in Seq(Events) /\ events # <<>> /\ events' = Tail(events) /\ Head(events).kind = k
  BY DEF QueueInv, Take
<1>2. /\ Head(events) \in Events /\ events' \in Seq(Events) /\ Len(events') = Len(events) - 1
      /\ \A i \in 1..Len(events') : events'[i] = events[i + 1]
  BY <1>1, HeadTailProperties
<1>3. Head(events) = events[1] /\ DOMAIN events = 1..Len(events) /\ Len(events) \in Nat \ {0}
  BY <1>1
<1>4. DOMAIN events' = 1..(Len(events) - 1)
  BY <1>2
<1>5. \A i \in DOMAIN events' : i + 1 \in DOMAIN events /\ events'[i] = events[i + 1]
  BY <1>2, <1>3, <1>4
<1>6. \A i \in DOMAIN events : events[i] \in Events
  BY <1>1
<1>7. \A i \in DOMAIN events' : events'[i].id < next_session_id
  BY <1>5, <1>6 DEF QueueInv, Events
<1>8. \A i \in DOMAIN events' : events'[i].id < next_session_id'
  BY <1>5, <1>6, <1>7 DEF Events
<1>9. QED
  BY <1>1, <1>2, <1>3, <1>5, <1>7, <1>8 DEF QueueInv

LEMMA RuntimeStep == LoopInv /\ RuntimeInv /\ QueueInv /\ [Next]_vars => RuntimeInv'
<1> SUFFICES ASSUME LoopInv, RuntimeInv, QueueInv, [Next]_vars PROVE RuntimeInv'
  OBVIOUS
<1> USE LoginAssumption DEF RuntimeInv
<1>1. CASE RunSessions
  <2>1. /\ loop' = "running" /\ logins' = logins + 1 /\ logins < MaxLogins /\ next_session_id' = 2
        /\ active_session' = 0 /\ window' = FALSE /\ finish' = FALSE /\ result' = "none" /\ error' = FALSE
    BY <1>1 DEF RunSessions, Fresh
  <2>2. logins' \in 0..MaxLogins /\ next_session_id' \in 1..(MaxSessions + 1)
        /\ active_session' \in 0..MaxSessions
    BY <2>1
  <2>3. QED
    BY <2>1, <2>2
<1>2. CASE PageFinished \/ PagePostsToken \/ PagePostsOther
  BY <1>2 DEF PageFinished, PagePostsToken, PagePostsOther
<1>3. CASE HandleOpen
  <2>1. Head(events).id \in 1..MaxSessions
    BY <1>3, QueueTaken DEF HandleOpen, Events
  <2>2. active_session' \in 0..MaxSessions /\ window' \in BOOLEAN /\ error' \in BOOLEAN
    <3>1. CASE CreateSession(Head(events).id)
      <4>1. active_session' \in 0..MaxSessions
        BY <2>1, <3>1 DEF CreateSession
      <4>2. QED
        BY <3>1, <4>1 DEF CreateSession
    <3>2. CASE CreateSessionFails
      BY <3>2 DEF CreateSessionFails
    <3>3. QED
      BY <1>3, <3>1, <3>2 DEF HandleOpen
  <2>3. QED
    BY <1>3, <2>2 DEF HandleOpen, Step
<1>4. CASE HandleFinish \/ TokenNotExchanged
  BY <1>4 DEF HandleFinish, TokenNotExchanged, Step
<1>5. CASE TokenNeedsApproval
  BY <1>5 DEF TokenNeedsApproval, CreateSession, Step, LoopInv, Take
<1>6. CASE TokenRefused \/ TokenIssued
  BY <1>6 DEF TokenRefused, TokenIssued, RemoveSession, Step
<1>7. CASE CloseRequested
  BY <1>7 DEF CloseRequested, RemoveSession, Step
<1>8. CASE NotLoggedIn \/ LoginDone \/ LoginCutShort
  <2>1. Off
    BY <1>8 DEF NotLoggedIn, LoginDone, LoginCutShort
  <2>2. /\ loop' = "off" /\ logins' = logins /\ next_session_id' = 1 /\ active_session' = 0
        /\ window' = FALSE /\ finish' = FALSE /\ result' = "none" /\ error' = FALSE
    BY <2>1 DEF Off, Fresh
  <2>3. next_session_id' \in 1..(MaxSessions + 1) /\ active_session' \in 0..MaxSessions
    BY <2>2
  <2>4. QED
    BY <2>2, <2>3
<1>9. CASE LoggedIn
  BY <1>9 DEF LoggedIn, runtimeVars
<1>10. CASE LoginGets \/ LoginSets
  BY <1>10 DEF LoginGets, LoginSets, loginVars, runtimeVars
<1>11. CASE (ServiceNext /\ UNCHANGED loginVars) \/ UNCHANGED vars
  BY <1>11 DEF vars, loginVars, runtimeVars
<1>12. QED
  BY <1>1, <1>2, <1>3, <1>4, <1>5, <1>6, <1>7, <1>8, <1>9, <1>10, <1>11 DEF Next, LoginNext

LEMMA QueueStep == LoopInv /\ RuntimeInv /\ QueueInv /\ [Next]_vars => QueueInv'
<1> SUFFICES ASSUME LoopInv, RuntimeInv, QueueInv, [Next]_vars PROVE QueueInv'
  OBVIOUS
<1>1. CASE RunSessions
  <2> DEFINE e == [kind |-> "open", id |-> 1, user |-> NoUser]
  <2>1. e \in Events /\ e.kind = "open" /\ e.id = 1
    BY LoginAssumption DEF Events
  <2>2. events' = <<e>> /\ next_session_id' = 2
    BY <1>1 DEF RunSessions
  <2> HIDE DEF e
  <2>3. QED
    BY <2>1, <2>2 DEF QueueInv
<1>2. CASE PageFinished
  <2> DEFINE e == [kind |-> "finish", id |-> active_session, user |-> NoUser]
  <2>1. e \in Events /\ e.kind = "finish" /\ e.id < next_session_id
    BY <1>2 DEF PageFinished, PageLives, LoopInv, RuntimeInv, Events
  <2>2. events' = Append(events, e) /\ next_session_id' = next_session_id
    BY <1>2 DEF PageFinished, Post
  <2> HIDE DEF e
  <2>3. QED
    BY <2>1, <2>2, QueueAppended
<1>3. CASE PagePostsToken
  <2>1. PICK u \in Users : Post("token", u)
    BY <1>3 DEF PagePostsToken
  <2> DEFINE e == [kind |-> "token", id |-> active_session, user |-> u]
  <2>2. e \in Events /\ e.user \in Users /\ e.id < next_session_id
    BY <1>3 DEF PagePostsToken, PageLives, LoopInv, RuntimeInv, Events
  <2>3. events' = Append(events, e) /\ next_session_id' = next_session_id
    BY <1>3, <2>1 DEF PagePostsToken, Post
  <2> HIDE DEF e
  <2>4. QED
    BY <2>2, <2>3, QueueAppended
<1>4. ASSUME NEW k, Take(k), next_session_id' \in {next_session_id, next_session_id + 1}
      PROVE  QueueInv'
  BY <1>4, QueueTaken DEF RuntimeInv
<1>5. CASE HandleOpen \/ HandleFinish \/ TokenNotExchanged \/ TokenNeedsApproval \/ TokenRefused \/ TokenIssued
  BY <1>4, <1>5 DEF HandleOpen, HandleFinish, TokenNotExchanged, TokenNeedsApproval, TokenRefused, TokenIssued
<1>6. CASE UNCHANGED <<events, next_session_id>>
  BY <1>6 DEF QueueInv
<1>7. CASE PagePostsOther \/ CloseRequested \/ LoggedIn \/ LoginGets \/ LoginSets
  BY <1>6, <1>7 DEF PagePostsOther, CloseRequested, LoggedIn, LoginGets, LoginSets, loginVars, runtimeVars
<1>8. CASE NotLoggedIn \/ LoginDone \/ LoginCutShort
  <2>1. events' = <<>>
    BY <1>8 DEF NotLoggedIn, LoginDone, LoginCutShort, Off
  <2>2. QED
    BY <2>1 DEF QueueInv
<1>9. CASE (ServiceNext /\ UNCHANGED loginVars) \/ UNCHANGED vars
  BY <1>6, <1>9 DEF vars, loginVars, runtimeVars
<1>10. QED
  BY <1>1, <1>2, <1>3, <1>5, <1>7, <1>8, <1>9 DEF Next, LoginNext

LEMMA PageStep == LoopInv /\ RuntimeInv /\ QueueInv /\ PageInv /\ [Next]_vars => PageInv'
<1> SUFFICES ASSUME LoopInv, RuntimeInv, QueueInv, PageInv, [Next]_vars PROVE PageInv'
  OBVIOUS
<1> DEFINE waiting == Cardinality(Scripts(events, active_session))
<1>1. waiting \in Nat
  BY ScriptsFinite DEF QueueInv
<1>2. page.loads \in 0..MaxLoads /\ page.asked \in Nat
  BY DEF PageInv
<1> HIDE DEF waiting
<1>3. CASE RunSessions
  BY <1>3, NewPageForm DEF RunSessions, Fresh, PageInv
<1>4. CASE PageFinished
  <2> DEFINE e == [kind |-> "finish", id |-> active_session, user |-> NoUser]
  <2>1. e \in Events /\ e.kind = "finish" /\ e.id = active_session
    BY <1>4 DEF PageFinished, PageLives, LoopInv, RuntimeInv, Events
  <2>2. events' = Append(events, e) /\ active_session' = active_session
    BY <1>4 DEF PageFinished, Post
  <2> HIDE DEF e
  <2>3. Cardinality(Scripts(events', active_session')) = waiting + 1
    BY <2>1, <2>2, ScriptsAppended DEF QueueInv, waiting
  <2>4. page.asked + waiting <= page.loads /\ page.loads < MaxLoads
    BY <1>4 DEF PageFinished, PageLives, PageInv, waiting
  <2>5. page' = [page EXCEPT !.loads = page.loads + 1]
    BY <1>4 DEF PageFinished
  <2>6. /\ page'.loads = page.loads + 1 /\ page'.asked = page.asked
        /\ page' \in [loads : 0..MaxLoads, asked : Nat]
    BY <1>2, <2>4, <2>5, LoginAssumption DEF PageInv
  <2>7. QED
    BY <1>1, <1>2, <2>3, <2>4, <2>6 DEF PageInv
<1>5. CASE PagePostsToken \/ PagePostsOther
  <2>1. page.asked > 0 /\ page' = [page EXCEPT !.asked = page.asked - 1]
        /\ page.asked + waiting <= page.loads /\ active_session' = active_session
    BY <1>5 DEF PagePostsToken, PagePostsOther, PageLives, PageInv, waiting
  <2>2. /\ page'.loads = page.loads /\ page'.asked = page.asked - 1
        /\ page' \in [loads : 0..MaxLoads, asked : Nat]
    BY <1>2, <2>1 DEF PageInv
  <2>3. Cardinality(Scripts(events', active_session')) = waiting
    <3>1. CASE PagePostsOther
      BY <2>1, <3>1 DEF PagePostsOther, waiting
    <3>2. CASE PagePostsToken
      <4>1. PICK u \in Users : Post("token", u)
        BY <3>2 DEF PagePostsToken
      <4> DEFINE e == [kind |-> "token", id |-> active_session, user |-> u]
      <4>2. e \in Events /\ e.kind = "token" /\ events' = Append(events, e)
        BY <3>2, <4>1 DEF PagePostsToken, PageLives, LoopInv, RuntimeInv, Events, Post
      <4> HIDE DEF e
      <4>3. QED
        BY <1>1, <2>1, <4>2, ScriptsAppended DEF QueueInv, waiting
    <3>3. QED
      BY <1>5, <3>1, <3>2
  <2>4. QED
    BY <1>1, <1>2, <2>1, <2>2, <2>3 DEF PageInv
<1>6. CASE HandleOpen
  <2>1. active_session = 0 /\ events' = <<>>
    BY <1>6, OpensFirst
  <2>2. CASE CreateSession(Head(events).id)
    BY <2>1, <2>2, NewPageForm, NoScripts DEF CreateSession, PageInv
  <2>3. CASE CreateSessionFails
    BY <2>1, <2>3 DEF CreateSessionFails, PageInv
  <2>4. QED
    BY <1>6, <2>2, <2>3 DEF HandleOpen
<1>7. CASE HandleFinish
  <2>1. /\ events # <<>> /\ events' = Tail(events) /\ Head(events).kind = "finish"
        /\ active_session' = active_session /\ loop = "running"
    BY <1>7 DEF HandleFinish, Take
  <2>2. active_session # 0
    BY <2>1 DEF LoopInv
  <2>3. page.asked + waiting <= page.loads
    BY <2>1, <2>2 DEF PageInv, waiting
  <2>4. Cardinality(Scripts(events', active_session')) =
          waiting - (IF Head(events).id = active_session THEN 1 ELSE 0)
    BY <2>1, ScriptsTaken DEF QueueInv, waiting
  <2>5. Cardinality(Scripts(events', active_session')) \in Nat
    <3>1. events' \in Seq(Events)
      BY <2>1 DEF QueueInv
    <3>2. QED
      BY <3>1, ScriptsFinite
  <2>6. CASE active_session = Head(events).id
    <3>1. page' = [page EXCEPT !.asked = page.asked + 1]
      BY <1>7, <2>6 DEF HandleFinish
    <3>2. /\ page'.loads = page.loads /\ page'.asked = page.asked + 1
          /\ page' \in [loads : 0..MaxLoads, asked : Nat]
      BY <1>2, <3>1 DEF PageInv
    <3>3. QED
      BY <1>1, <1>2, <2>3, <2>4, <2>5, <2>6, <3>2 DEF PageInv
  <2>7. CASE active_session # Head(events).id
    <3>1. page' = page
      BY <1>7, <2>7 DEF HandleFinish
    <3>2. QED
      BY <1>1, <1>2, <2>3, <2>4, <2>7, <3>1 DEF PageInv
  <2>8. QED
    BY <2>6, <2>7
<1>8. CASE TokenNeedsApproval
  <2>1. \A i \in DOMAIN events' : events'[i].id < next_session_id
    BY <1>8, QueueTaken DEF TokenNeedsApproval, RuntimeInv
  <2>2. Scripts(events', next_session_id) = {}
    BY <2>1 DEF Scripts, RuntimeInv
  <2>3. active_session' = next_session_id /\ page' = NewPage
    BY <1>8 DEF TokenNeedsApproval, CreateSession
  <2>4. QED
    BY <2>2, <2>3, NewPageForm, FS_EmptySet DEF PageInv
<1>9. CASE TokenNotExchanged
  BY <1>9 DEF TokenNotExchanged, Step, PageInv
<1>10. CASE TokenRefused \/ TokenIssued
  BY <1>10, NewPageForm DEF TokenRefused, TokenIssued, RemoveSession, Step, PageInv
<1>11. CASE CloseRequested
  BY <1>11, NewPageForm DEF CloseRequested, RemoveSession, Step, PageInv
<1>12. CASE NotLoggedIn \/ LoginDone \/ LoginCutShort
  BY <1>12, NewPageForm DEF NotLoggedIn, LoginDone, LoginCutShort, Off, Fresh, PageInv
<1>13. CASE LoggedIn
  BY <1>13 DEF LoggedIn, runtimeVars, PageInv
<1>14. CASE LoginGets \/ LoginSets \/ (ServiceNext /\ UNCHANGED loginVars) \/ UNCHANGED vars
  BY <1>14 DEF LoginGets, LoginSets, vars, loginVars, runtimeVars, PageInv
<1>15. QED
  BY <1>3, <1>4, <1>5, <1>6, <1>7, <1>8, <1>9, <1>10, <1>11, <1>12, <1>13, <1>14 DEF Next, LoginNext
-----------------------------------------------------------------------------
\* What a saver may still have to save, who may be noted as overtaken, and why
\* the entries may differ.
Todos == {<<>>, <<"service", "sts">>} \cup {<<a>> : a \in Addresses}

HistoryInv ==
  /\ \A w \in Savers : saving[w].todo \in Todos
  /\ overtaken \subseteq Reading
  /\ torn \subseteq {"unfinished", "no_sts", "overtaken"}

LEMMA TailTodo == ASSUME NEW t \in Todos, t # <<>> PROVE Tail(t) \in Todos
<1>1. ASSUME NEW a \in Addresses, t = <<a>> PROVE Tail(t) = <<>>
  BY <1>1
<1>2. t = <<"service", "sts">> => Tail(t) = <<"sts">>
  OBVIOUS
<1>3. "sts" \in Addresses
  BY DEF Addresses, LoginAddresses
<1>4. QED
  BY <1>1, <1>2, <1>3 DEF Todos

\* One saver changes.
LEMMA OneSaver ==
  ASSUME StoreForm, HistoryInv, NEW w \in Savers, NEW s, saving' = [saving EXCEPT ![w] = s],
         s.todo \in Todos, torn' \subseteq {"unfinished", "no_sts", "overtaken"},
         overtaken' \subseteq overtaken \cup Reading \cup {w},
         w \in overtaken' => s.acct # NoUser /\ w \in Conns
  PROVE  HistoryInv'
<1>1. saving'[w] = s /\ \A v \in Savers \ {w} : saving'[v] = saving[v]
  BY DEF StoreForm
<1>2. \A v \in Savers : saving'[v].todo \in Todos
  BY <1>1 DEF HistoryInv
<1>3. ASSUME NEW c \in overtaken' PROVE c \in Reading'
  <2>1. CASE c = w
    BY <1>1, <1>3, <2>1 DEF Reading
  <2>2. CASE c # w
    BY <1>1, <1>3, <2>2, SaversExist DEF HistoryInv, Reading
  <2>3. QED
    BY <2>1, <2>2
<1>4. QED
  BY <1>2, <1>3 DEF HistoryInv

LEMMA HistoryStep ==
  ASSUME LoopInv, FinishInv, StoreForm, TaskInv, IssuedInv, HistoryInv, [Next]_vars
  PROVE  HistoryInv'
<1>1. CASE UNCHANGED storeVars
  BY <1>1 DEF HistoryInv, Reading, storeVars
<1>2. ASSUME NEW s \in Services, DropTasks(s) PROVE HistoryInv'
  <2>1. \A w \in Savers : saving'[w] \in {NotSaving, saving[w]}
    BY <1>2 DEF DropTasks
  <2>2. \A w \in Savers : saving'[w].todo \in Todos
    BY <2>1, NotSavingForm DEF HistoryInv, Todos
  <2>3. \A c \in overtaken' : c \in Conns /\ c \in overtaken /\ saving'[c] = saving[c]
    BY <1>2, SaversExist DEF DropTasks, HistoryInv, Reading
  <2>4. QED
    BY <1>2, <2>2, <2>3 DEF DropTasks, HistoryInv, Reading
<1>3. ASSUME NEW w \in Savers, Forget(w), torn' \subseteq {"unfinished", "no_sts", "overtaken"}
      PROVE  HistoryInv'
  <2>1. w \notin overtaken' /\ NotSaving.todo \in Todos
    BY <1>3, NotSavingForm DEF Forget, Todos
  <2>2. QED
    BY <1>3, <2>1, OneSaver DEF Forget
<1>4. ASSUME NEW c \in Conns, BeginWith(c) PROVE HistoryInv'
  <2> DEFINE s == [saving[c] EXCEPT !.acct = user_tokens["sts"]]
  <2>1. s.todo = saving[c].todo /\ s.acct = user_tokens["sts"]
    BY SaversExist DEF StoreForm, Saver
  <2>2. saving' = [saving EXCEPT ![c] = s]
    BY <1>4 DEF BeginWith, Begin
  <2> HIDE DEF s
  <2>3. s.todo \in Todos /\ s.acct # NoUser
    BY <1>4, <2>1, SaversExist DEF BeginWith, HistoryInv
  <2>4. overtaken' \subseteq overtaken \cup Reading \cup {c} /\ torn' = torn
    BY <1>4 DEF BeginWith, Begin
  <2>5. QED
    BY <2>2, <2>3, <2>4, OneSaver, SaversExist DEF HistoryInv
<1>5. ASSUME NEW c \in Conns, NEW a \in Addresses, TokenReceived(c, a) PROVE HistoryInv'
  <2> DEFINE s == [saving[c] EXCEPT !.todo = <<a>>]
  <2>1. s.todo = <<a>> /\ s.acct = saving[c].acct
    BY SaversExist DEF StoreForm, Saver
  <2>2. saving' = [saving EXCEPT ![c] = s]
    BY <1>5 DEF TokenReceived
  <2> HIDE DEF s
  <2>3. s.todo \in Todos /\ s.acct # NoUser
    BY <1>5, <2>1 DEF TokenReceived, Todos, Addresses
  <2>4. QED
    BY <1>5, <2>2, <2>3, OneSaver, SaversExist DEF TokenReceived, HistoryInv
<1>6. ASSUME NEW w \in Savers, GetStore(w) PROVE HistoryInv'
  <2> DEFINE s == [saving[w] EXCEPT !.reading = TRUE, !.buf = user_tokens]
  <2>1. s.todo = saving[w].todo /\ s.acct = saving[w].acct
    BY DEF StoreForm, Saver
  <2>2. saving' = [saving EXCEPT ![w] = s]
    BY <1>6 DEF GetStore
  <2> HIDE DEF s
  <2>3. s.todo \in Todos /\ (w \in overtaken => s.acct # NoUser /\ w \in Conns)
    BY <2>1 DEF HistoryInv, Reading
  <2>4. QED
    BY <1>6, <2>2, <2>3, OneSaver DEF GetStore, HistoryInv
<1>7. ASSUME NEW w \in Savers, SetStore(w), torn' \subseteq {"unfinished", "no_sts", "overtaken"}
      PROVE  HistoryInv'
  <2> DEFINE s == [saving[w] EXCEPT !.todo = Tail(@), !.reading = FALSE, !.buf = NoTokens]
  <2>1. s.todo = Tail(saving[w].todo) /\ s.acct = saving[w].acct
    BY DEF StoreForm, Saver
  <2>2. saving' = [saving EXCEPT ![w] = s]
    BY <1>7 DEF SetStore
  <2> HIDE DEF s
  <2>3. s.todo \in Todos
    BY <1>7, <2>1, TailTodo DEF HistoryInv, SetStore, StoreForm
  <2>4. overtaken' \subseteq overtaken \cup Reading
    BY <1>7 DEF SetStore
  <2>5. w \in overtaken' => s.acct # NoUser /\ w \in Conns
    BY <2>1, <2>4 DEF HistoryInv, Reading
  <2>6. QED
    BY <1>7, <2>2, <2>3, <2>4, <2>5, OneSaver
<1>8. CASE ServiceNext
  <2>1. ASSUME NEW c \in Conns, ForgetOnly(c) \/ GetStore(c) \/ SetByRequest(c)
        PROVE  HistoryInv'
    BY <2>1, <1>3, <1>6, <1>7, SaversExist DEF ForgetOnly, SetByRequest, HistoryInv
  <2>2. QED
    BY <1>8, ServiceEffects, <1>1, <1>2, <1>4, <1>5, <2>1 DEF ServiceEffect
<1>9. CASE TokenIssued
  <2> DEFINE s == [saving["login"] EXCEPT !.acct = Head(events).user, !.todo = Scopes(finish)]
  <2>1. s.todo = Scopes(finish)
    BY SaversExist DEF StoreForm, Saver
  <2>2. saving' = [saving EXCEPT !["login"] = s] /\ torn' = {"unfinished"}
        /\ overtaken' = overtaken \cup Reading
    BY <1>9 DEF TokenIssued, SaveUser
  <2> HIDE DEF s
  <2>3. s.todo \in Todos
    BY <2>1 DEF Scopes, Todos, Addresses, LoginAddresses
  <2>4. "login" \notin overtaken'
    BY <2>2, SaversExist DEF HistoryInv, Reading
  <2>5. QED
    BY <2>2, <2>3, <2>4, OneSaver, SaversExist
<1>10. CASE LoginGets \/ LoginSets
  BY <1>6, <1>7, <1>10, SaversExist DEF LoginGets, LoginSets, HistoryInv
<1>11. CASE LoginDone \/ LoginCutShort
  <2>1. Forget("login") /\ torn' \subseteq torn \cup {"no_sts"}
    BY <1>11 DEF LoginDone, LoginCutShort
  <2>2. QED
    BY <1>3, <2>1, SaversExist DEF HistoryInv
<1>12. QED
  BY <1>1, <1>8, <1>9, <1>10, <1>11, LoginEffects DEF Next, LoginQuiet, vars
-----------------------------------------------------------------------------
\* A connection belongs to a process that runs.
OwnersInv == \A c \in Conns : conn[c].owner # NoService => service[conn[c].owner] # "off"

CrashInv == socket_file \in BOOLEAN /\ left \in BOOLEAN /\ crashes \in 0..MaxCrashes

\* A task keeps its connection, ends it or, when it connects, gives it to a
\* process that serves.
LEMMA TaskOwner ==
  ASSUME TaskInv, NEW c \in Conns,
         \/ ClientLeaves(c) \/ Task(c)
         \/ \E r \in Requests : Send(c, r)
  PROVE  \A d \in Conns : conn'[d].owner \in {conn[d].owner, NoService}
<1>1. conn \in [Conns -> Connection]
  BY DEF TaskInv
<1>2. ASSUME NEW r, conn' = [conn EXCEPT ![c] = r], r.owner \in {conn[c].owner, NoService}
      PROVE  \A d \in Conns : conn'[d].owner \in {conn[d].owner, NoService}
  BY <1>1, <1>2
<1>3. ASSUME EndTask(c) PROVE \A d \in Conns : conn'[d].owner \in {conn[d].owner, NoService}
  <2>1. Closed.owner = NoService /\ conn' = [conn EXCEPT ![c] = Closed]
    BY <1>3 DEF EndTask, Closed
  <2>2. QED
    BY <2>1, <1>2
<1>4. ASSUME NEW step, Goto(c, step) PROVE \A d \in Conns : conn'[d].owner \in {conn[d].owner, NoService}
  <2>1. conn' = [conn EXCEPT ![c] = [conn[c] EXCEPT !.step = step]]
    BY <1>4 DEF Goto
  <2>2. [conn[c] EXCEPT !.step = step].owner = conn[c].owner
    BY <1>1 DEF Connection
  <2>3. QED
    BY <2>1, <2>2, <1>2
<1>5. CASE ReadEnd(c) \/ ReadOther(c) \/ DeviceFault(c) \/ ExchangeFault(c) \/ SavedOnly(c)
  BY <1>3, <1>5 DEF ReadEnd, ReadOther, DeviceFault, ExchangeFault, SavedOnly
<1>6. CASE CheckCancelled(c) \/ GetSts(c) \/ ExchangeDevice(c) \/ ExchangeFails(c) \/ ExchangeUser(c)
  BY <1>3, <1>4, <1>6 DEF CheckCancelled, GetSts, ExchangeDevice, ExchangeFails, ExchangeUser
<1>7. CASE RequestGets(c) \/ RequestSets(c)
  BY <1>7 DEF RequestGets, RequestSets, serviceVars
<1>8. CASE ClientLeaves(c)
  <2>1. [conn[c] EXCEPT !.eof = TRUE].owner = conn[c].owner
    BY <1>1 DEF Connection
  <2>2. QED
    BY <1>2, <1>8, <2>1 DEF ClientLeaves
<1>9. ASSUME NEW r \in Requests, Send(c, r)
      PROVE  \A d \in Conns : conn'[d].owner \in {conn[d].owner, NoService}
  <2> DEFINE q == [conn[c] EXCEPT !.wire = Append(@, r), !.sent = @ + 1]
  <2>1. q.owner = conn[c].owner
    BY <1>1 DEF Connection
  <2>2. conn' = [conn EXCEPT ![c] = q]
    BY <1>9 DEF Send
  <2> HIDE DEF q
  <2>3. QED
    BY <1>2, <2>1, <2>2
<1>10. CASE ReadRequest(c)
  <2> DEFINE q == [conn[c] EXCEPT !.wire = Tail(@), !.step = AfterRequest[Head(conn[c].wire)]]
  <2>1. q.owner = conn[c].owner /\ conn' = [conn EXCEPT ![c] = q]
    BY <1>1, <1>10 DEF Connection, ReadRequest
  <2>2. QED
    BY <1>2, <2>1
<1>11. CASE Saved(c)
  <2>1. PICK n \in AnswerSizes : conn' = [conn EXCEPT ![c].step = "answer", ![c].size = n]
    BY <1>11 DEF Saved
  <2> DEFINE q == [conn[c] EXCEPT !.step = "answer", !.size = n]
  <2>2. q.owner = conn[c].owner /\ conn' = [conn EXCEPT ![c] = q]
    BY <1>1, <2>1 DEF Connection
  <2>3. QED
    BY <1>2, <2>2
<1>12. CASE Answer(c)
  BY <1>1, <1>12 DEF Answer, Connection
<1>13. QED
  BY <1>5, <1>6, <1>7, <1>8, <1>9, <1>10, <1>11, <1>12 DEF Task

LEMMA OwnersStep ==
  ASSUME SocketInv, TaskInv, OwnersInv, CrashInv, [Next]_vars
  PROVE  OwnersInv' /\ CrashInv'
<1> service \in [Services -> ServiceStates] /\ conn \in [Conns -> Connection]
  BY DEF SocketInv, TaskInv
<1>1. CASE UNCHANGED serviceVars
  BY <1>1 DEF OwnersInv, CrashInv, serviceVars
<1>2. ASSUME NEW s \in Services, Bind(s) \/ Interrupt(s) \/ RemoveSocket(s)
      PROVE  OwnersInv' /\ CrashInv'
  <2>1. \A t \in Services : service[t] # "off" => service'[t] # "off"
    BY <1>2 DEF Bind, Interrupt, RemoveSocket
  <2>2. conn' = conn /\ UNCHANGED <<crashes, left>> /\ socket_file' \in BOOLEAN
    BY <1>2 DEF Bind, Interrupt, RemoveSocket, CrashInv
  <2>3. OwnersInv'
    BY <2>1, <2>2 DEF OwnersInv, Connection
  <2>4. QED
    BY <2>2, <2>3 DEF CrashInv
<1>3. ASSUME NEW s \in Services, Leave(s) \/ Crash(s)
      PROVE  OwnersInv' /\ CrashInv'
  <2>1. DropTasks(s) /\ service' = [service EXCEPT ![s] = "off"]
    BY <1>3 DEF Leave, Crash
  <2>2. \A c \in Conns : conn'[c].owner # NoService => conn'[c].owner = conn[c].owner /\ conn[c].owner # s
    BY <2>1 DEF DropTasks, Owned, Closed
  <2>3. OwnersInv'
    BY <2>1, <2>2 DEF OwnersInv, Connection
  <2>4. crashes' \in 0..MaxCrashes
    BY <1>3, ServiceAssumption DEF Leave, Crash, CrashInv
  <2>5. left' \in BOOLEAN /\ socket_file' = socket_file
    BY <1>3 DEF Leave, Crash, CrashInv
  <2>6. QED
    BY <2>3, <2>4, <2>5 DEF CrashInv
<1>4. CASE RemoveLeftover
  BY <1>4 DEF RemoveLeftover, OwnersInv, CrashInv
<1>5. ASSUME NEW c \in Conns, Connect(c) PROVE OwnersInv' /\ CrashInv'
  <2>1. PICK s \in Services : service[s] = "serving" /\ conn' = [conn EXCEPT ![c].owner = s]
    BY <1>5 DEF Connect
  <2>2. conn'[c].owner = s /\ \A d \in Conns \ {c} : conn'[d] = conn[d]
    BY <2>1 DEF Connection
  <2>3. UNCHANGED <<service, socket_file, crashes, left>>
    BY <1>5 DEF Connect
  <2>4. QED
    BY <2>1, <2>2, <2>3 DEF OwnersInv, CrashInv
<1>6. ASSUME NEW c \in Conns,
             \/ ClientLeaves(c) \/ Task(c)
             \/ \E r \in Requests : Send(c, r)
      PROVE  OwnersInv' /\ CrashInv'
  <2>1. UNCHANGED <<service, socket_file, left, crashes>>
    BY <1>6 DEF ClientLeaves, Send, Task, CheckCancelled, ReadEnd, ReadOther, ReadRequest, GetSts,
       ExchangeDevice, DeviceFault, ExchangeFails, ExchangeFault, ExchangeUser, RequestGets,
       RequestSets, Saved, SavedOnly, Answer, Goto, EndTask, serviceVars
  <2>2. \A d \in Conns : conn'[d].owner \in {conn[d].owner, NoService}
    BY <1>6, TaskOwner
  <2>3. QED
    BY <2>1, <2>2 DEF OwnersInv, CrashInv
<1>7. QED
  BY <1>1, <1>2, <1>3, <1>4, <1>5, <1>6 DEF Next, ServiceNext, vars
-----------------------------------------------------------------------------
LEMMA LoginInitial == Init => LoginInv
<1> SUFFICES ASSUME Init PROVE LoginInv
  OBVIOUS
<1>1. RuntimeInv
  <2>1. 0 \in 0..MaxLogins /\ 1 \in 1..(MaxSessions + 1) /\ 0 \in 0..MaxSessions
    BY LoginAssumption
  <2>2. QED
    BY <2>1 DEF Init, LoginInit, RuntimeInv
<1>2. QueueInv
  <2>1. events = <<>>
    BY DEF Init, LoginInit
  <2>2. QED
    BY <2>1 DEF QueueInv
<1>3. PageInv
  BY NewPageForm DEF Init, LoginInit, PageInv
<1>4. QED
  BY <1>1, <1>2, <1>3 DEF LoginInv

LEMMA HistoryInitial == Init => HistoryInv
BY NotSavingForm DEF Init, StoreInit, HistoryInv, Todos

LEMMA OwnersInitial == Init => OwnersInv /\ CrashInv
<1> SUFFICES ASSUME Init PROVE OwnersInv /\ CrashInv
  OBVIOUS
<1>1. \A c \in Conns : conn[c].owner = NoService
  BY DEF Init, ServiceInit, Closed
<1>2. CrashInv
  <2>1. 0 \in 0..MaxCrashes
    BY ServiceAssumption
  <2>2. QED
    BY <2>1 DEF Init, ServiceInit, CrashInv
<1>3. QED
  BY <1>1, <1>2 DEF OwnersInv

TypeInv == IInv /\ SocketInv /\ LoginInv /\ HistoryInv /\ OwnersInv /\ CrashInv

LEMMA StoreTyped == TypeInv => StoreTypeOK
<1> SUFFICES ASSUME TypeInv PROVE StoreTypeOK
  OBVIOUS
<1> StoreForm /\ HistoryInv
  BY DEF TypeInv, IInv
<1>1. user_tokens \in [Addresses -> Users \cup {NoUser}] /\ user_info \in Users \cup {NoUser}
  BY DEF StoreForm, Tokens
<1>2. ASSUME NEW w \in Savers
      PROVE  /\ saving[w].acct \in Users \cup {NoUser}
             /\ saving[w].todo \in {<<>>, <<"service", "sts">>} \cup {<<a>> : a \in Addresses}
             /\ saving[w].reading \in BOOLEAN
             /\ saving[w].buf \in [Addresses -> Users \cup {NoUser}]
             /\ saving[w].todo # <<>> => saving[w].acct \in Users
             /\ saving[w].reading => saving[w].todo # <<>>
  <2>1. saving[w] \in Saver
    BY DEF StoreForm
  <2>2. /\ saving[w].acct \in Users \cup {NoUser} /\ saving[w].reading \in BOOLEAN
        /\ saving[w].buf \in [Addresses -> Users \cup {NoUser}]
    BY <2>1 DEF Saver, Tokens
  <2>3. QED
    BY <2>2 DEF StoreForm, HistoryInv, Todos
<1>3. QED
  BY <1>1, <1>2 DEF StoreTypeOK, HistoryInv

LEMMA LoginTyped == TypeInv => LoginTypeOK
<1> SUFFICES ASSUME TypeInv PROVE LoginTypeOK
  OBVIOUS
<1>1. RuntimeInv /\ QueueInv /\ PageInv
  BY DEF TypeInv, LoginInv
<1>2. page \in [loads : 0..MaxLoads, asked : 0..MaxLoads]
  BY <1>1, LoginAssumption DEF PageInv
<1>3. QED
  BY <1>1, <1>2 DEF RuntimeInv, QueueInv, LoginTypeOK

LEMMA ServiceTyped == TypeInv => ServiceTypeOK
<1> SUFFICES ASSUME TypeInv PROVE ServiceTypeOK
  OBVIOUS
<1> StoreForm /\ TaskInv /\ SocketInv /\ OwnersInv /\ CrashInv
  BY DEF TypeInv, IInv
<1>1. ASSUME NEW c \in Conns
      PROVE  /\ conn[c] \in Connections
             /\ conn[c].step \in Holding => saving[c].acct \in Users
             /\ conn[c].answered + Len(conn[c].wire) <= conn[c].sent
  <2>1. conn[c] \in Connection /\ Counted(conn[c])
    BY DEF TaskInv
  <2>2. /\ conn[c].answered \in Nat /\ conn[c].sent \in Nat /\ Len(conn[c].wire) \in Nat
        /\ conn[c] \in [owner : Services \cup {NoService}, wire : Seq(Requests), eof : BOOLEAN, step : Steps,
                        size : AnswerSizes \cup {0}, sent : Nat, answered : Nat, astray : BOOLEAN]
    BY <2>1 DEF Connection
  <2>3. /\ conn[c].answered \in 0..MaxRequests /\ conn[c].sent \in 0..MaxRequests
        /\ conn[c].answered + Len(conn[c].wire) <= conn[c].sent
    BY <2>1, <2>2, ServiceAssumption DEF Counted
  <2>4. conn[c] \in Connections
    BY <2>2, <2>3 DEF Connections, Steps
  <2>5. saving[c].acct \in Users \cup {NoUser}
    BY SaversExist DEF StoreForm, Saver
  <2>6. QED
    BY <2>3, <2>4, <2>5 DEF TaskInv
<1>2. conn \in [Conns -> Connections]
  BY <1>1 DEF TaskInv
<1>3. QED
  BY <1>1, <1>2 DEF ServiceTypeOK, SocketInv, ServiceStates, OwnersInv, CrashInv, Holding

\* Every variable keeps its type for all accounts, connections, services and
\* bounds: a page has no more scripts to run than it has loaded post.srf, an
\* event is of a session that was opened, no request is answered twice or before
\* it is sent, a task that exchanges or saves a token has the one it read, and a
\* connection belongs to a process that runs.
THEOREM TypeCorrect == Spec => []TypeOK
<1>1. Init => TypeInv
  BY StoreInitial, SocketInit, LoginInitial, HistoryInitial, OwnersInitial DEF TypeInv
<1>2. TypeInv /\ [Next]_vars => TypeInv'
  <2> SUFFICES ASSUME TypeInv, [Next]_vars PROVE TypeInv'
    OBVIOUS
  <2>1. LoopInv /\ FinishInv /\ StoreForm /\ TaskInv /\ IssuedInv /\ RuntimeInv /\ QueueInv /\ PageInv
    BY DEF TypeInv, IInv, LoginInv
  <2>2. IInv' /\ SocketInv'
    BY StoreStep, SocketStep DEF TypeInv
  <2>3. LoginInv'
    BY <2>1, RuntimeStep, QueueStep, PageStep DEF LoginInv
  <2>4. HistoryInv'
    BY <2>1, HistoryStep DEF TypeInv
  <2>5. OwnersInv' /\ CrashInv'
    BY <2>1, OwnersStep DEF TypeInv
  <2>6. QED
    BY <2>2, <2>3, <2>4, <2>5 DEF TypeInv
<1>3. TypeInv => TypeOK
  BY StoreTyped, LoginTyped, ServiceTyped DEF TypeOK
<1>4. QED
  BY <1>1, <1>2, <1>3, PTL DEF Spec
-----------------------------------------------------------------------------
\* What a client sees of one connection.
View(r) == [with |-> r.owner, asked |-> r.sent, answered |-> r.answered]

\* A connection that is closed has no history.
QuietInv == \A c \in Conns : Dialogs[c].with = NoService => Dialogs[c] = Contract!NoDialog

\* A file a crash left is there, and nobody's.
LeftInv == left => socket_file /\ Holders = {}

LEMMA DialogForm ==
  ASSUME TaskInv
  PROVE  /\ Dialogs = [c \in Conns |-> View(conn[c])]
         /\ Dialogs \in [Conns -> [with : Services \cup {NoService}, asked : Nat, answered : Nat]]
<1>1. ASSUME NEW c \in Conns
      PROVE  View(conn[c]) \in [with : Services \cup {NoService}, asked : Nat, answered : Nat]
  BY DEF TaskInv, Connection, View
<1>2. QED
  BY <1>1 DEF Dialogs, View

LEMMA OneView ==
  ASSUME TaskInv, NEW c \in Conns, NEW r, conn' = [conn EXCEPT ![c] = r]
  PROVE  Dialogs' = [Dialogs EXCEPT ![c] = View(r)]
BY DEF TaskInv, Dialogs, View

LEMMA SameView ==
  ASSUME TaskInv, NEW c \in Conns, NEW r, conn' = [conn EXCEPT ![c] = r], View(r) = View(conn[c])
  PROVE  Dialogs' = Dialogs
<1>1. Dialogs' = [Dialogs EXCEPT ![c] = View(r)] /\ Dialogs[c] = View(r)
  BY OneView, DialogForm
<1>2. QED
  BY <1>1, DialogForm

\* The request of a task that answers is one without an answer.
LEMMA AnswerDue ==
  ASSUME TaskInv, NEW c \in Conns, conn[c].step \in {"answer", "nothing"}
  PROVE  conn[c].answered < conn[c].sent
<1>1. Counted(conn[c])
  BY DEF TaskInv
<1>2. conn[c].answered \in Nat /\ conn[c].sent \in Nat /\ Len(conn[c].wire) \in Nat
  BY DEF TaskInv, Connection
<1>3. conn[c].step \notin Idle
  BY DEF Idle
<1>4. QED
  BY <1>1, <1>2, <1>3 DEF Counted

\* What a client and a task do is a step of their dialog.
LEMMA TaskDialog ==
  ASSUME TaskInv, NEW c \in Conns,
         \/ ClientLeaves(c) \/ Task(c)
         \/ \E r \in Requests : Send(c, r)
  PROVE  \/ Dialogs' = Dialogs
         \/ Contract!Ask(c) \/ Contract!Answer(c) \/ Contract!Close(c)
<1> conn \in [Conns -> Connection] /\ Dialogs[c] = View(conn[c])
  BY DialogForm DEF TaskInv
<1>0. UNCHANGED <<Holders, left>>
  BY TasksKeepSocket DEF Holders
<1>1. ASSUME EndTask(c), conn[c].owner # NoService PROVE Contract!Close(c)
  <2>1. View(Closed) = Contract!NoDialog
    BY DEF View, Closed, Contract!NoDialog
  <2>2. Dialogs' = [Dialogs EXCEPT ![c] = Contract!NoDialog]
    BY <1>1, <2>1, OneView DEF EndTask
  <2>3. QED
    BY <1>0, <1>1, <2>2 DEF Contract!Close, View
<1>2. ASSUME NEW step, Goto(c, step) PROVE Dialogs' = Dialogs
  <2> DEFINE r == [conn[c] EXCEPT !.step = step]
  <2>1. View(r) = View(conn[c]) /\ conn' = [conn EXCEPT ![c] = r]
    BY <1>2 DEF Goto, View, Connection
  <2> HIDE DEF r
  <2>2. QED
    BY <2>1, SameView
<1>3. CASE ReadEnd(c) \/ ReadOther(c) \/ DeviceFault(c) \/ ExchangeFault(c) \/ SavedOnly(c)
  BY <1>1, <1>3 DEF ReadEnd, ReadOther, DeviceFault, ExchangeFault, SavedOnly, At
<1>4. CASE CheckCancelled(c)
  BY <1>1, <1>2, <1>4 DEF CheckCancelled, At
<1>5. CASE GetSts(c) \/ ExchangeDevice(c) \/ ExchangeFails(c) \/ ExchangeUser(c)
  BY <1>2, <1>5 DEF GetSts, ExchangeDevice, ExchangeFails, ExchangeUser
<1>6. CASE RequestGets(c) \/ RequestSets(c)
  BY <1>6 DEF RequestGets, RequestSets, serviceVars, Dialogs
<1>7. CASE ClientLeaves(c)
  <2> DEFINE r == [conn[c] EXCEPT !.eof = TRUE]
  <2>1. View(r) = View(conn[c]) /\ conn' = [conn EXCEPT ![c] = r]
    BY <1>7 DEF ClientLeaves, View, Connection
  <2> HIDE DEF r
  <2>2. QED
    BY <2>1, SameView
<1>8. CASE ReadRequest(c)
  <2> DEFINE r == [conn[c] EXCEPT !.wire = Tail(@), !.step = AfterRequest[Head(conn[c].wire)]]
  <2>1. View(r) = View(conn[c]) /\ conn' = [conn EXCEPT ![c] = r]
    BY <1>8 DEF ReadRequest, View, Connection
  <2> HIDE DEF r
  <2>2. QED
    BY <2>1, SameView
<1>9. CASE Saved(c)
  <2>1. PICK n \in AnswerSizes : conn' = [conn EXCEPT ![c].step = "answer", ![c].size = n]
    BY <1>9 DEF Saved
  <2> DEFINE r == [conn[c] EXCEPT !.step = "answer", !.size = n]
  <2>2. View(r) = View(conn[c]) /\ conn' = [conn EXCEPT ![c] = r]
    BY <2>1 DEF View, Connection
  <2> HIDE DEF r
  <2>3. QED
    BY <2>2, SameView
<1>10. ASSUME NEW q \in Requests, Send(c, q) PROVE Contract!Ask(c)
  <2> DEFINE r == [conn[c] EXCEPT !.wire = Append(@, q), !.sent = @ + 1]
  <2>1. conn' = [conn EXCEPT ![c] = r]
    BY <1>10 DEF Send
  <2>2. View(r) = [View(conn[c]) EXCEPT !.asked = @ + 1]
    BY DEF View, Connection
  <2>3. View(conn[c]).with # NoService
    BY <1>10 DEF Send, View
  <2> HIDE DEF r
  <2>4. Dialogs' = [Dialogs EXCEPT ![c] = [View(conn[c]) EXCEPT !.asked = @ + 1]]
    BY <2>1, <2>2, OneView
  <2>5. Dialogs' = [Dialogs EXCEPT ![c].asked = @ + 1]
    BY <2>4
  <2>6. QED
    BY <1>0, <2>3, <2>5 DEF Contract!Ask
<1>11. CASE Answer(c)
  <2> DEFINE r == [conn[c] EXCEPT !.step = "check", !.size = 0,
                                  !.astray = @ \/ Announced(conn[c].size) # conn[c].size,
                                  !.answered = IF conn[c].eof THEN @ ELSE @ + 1]
  <2>1. conn' = [conn EXCEPT ![c] = r]
    BY <1>11 DEF Answer
  <2>2. View(r) = IF conn[c].eof THEN View(conn[c]) ELSE [View(conn[c]) EXCEPT !.answered = @ + 1]
    BY DEF View, Connection
  <2> HIDE DEF r
  <2>3. CASE conn[c].eof
    BY <2>1, <2>2, <2>3, SameView
  <2>4. CASE ~conn[c].eof
    <3>1. Dialogs' = [Dialogs EXCEPT ![c] = [View(conn[c]) EXCEPT !.answered = @ + 1]]
      BY <2>1, <2>2, <2>4, OneView
    <3>2. Dialogs' = [Dialogs EXCEPT ![c].answered = @ + 1]
      BY <3>1
    <3>3. conn[c].answered < conn[c].sent /\ conn[c].owner # NoService
      BY <1>11, AnswerDue DEF Answer, At
    <3>4. QED
      BY <1>0, <3>2, <3>3 DEF Contract!Answer, View
  <2>5. QED
    BY <2>3, <2>4
<1>12. QED
  BY <1>3, <1>4, <1>5, <1>6, <1>7, <1>8, <1>9, <1>10, <1>11 DEF Task

\* A file that is left stays while nobody can bind.
LEMMA LeftStep ==
  ASSUME SocketInv, LeftInv, [Next]_vars
  PROVE  LeftInv'
<1> USE DEF SocketInv, SocketStanding, LeftInv, Holders, ServiceStates
<1>1. CASE UNCHANGED <<service, socket_file, left>>
  BY <1>1
<1>2. ASSUME NEW s \in Services, Bind(s) \/ Interrupt(s) \/ RemoveSocket(s) PROVE LeftInv'
  BY <1>2 DEF Bind, Interrupt, RemoveSocket
<1>3. ASSUME NEW s \in Services, Leave(s) PROVE LeftInv'
  BY <1>3 DEF Leave
<1>4. ASSUME NEW s \in Services, Crash(s) PROVE LeftInv'
  BY <1>4 DEF Crash
<1>5. CASE RemoveLeftover
  BY <1>5 DEF RemoveLeftover
<1>6. QED
  BY <1>1, <1>2, <1>3, <1>4, <1>5, TasksKeepSocket DEF Next, ServiceNext, serviceVars, vars

LEMMA ContractInitial == Init => Contract!Init /\ QuietInv /\ LeftInv
<1> SUFFICES ASSUME Init PROVE Contract!Init /\ QuietInv /\ LeftInv
  OBVIOUS
<1>1. Holders = {} /\ left = FALSE
  BY DEF Init, ServiceInit, Holders
<1>2. Dialogs = [c \in Conns |-> Contract!NoDialog]
  BY DEF Init, ServiceInit, Dialogs, Closed, Contract!NoDialog
<1>3. QED
  BY <1>1, <1>2 DEF Contract!Init, QuietInv, LeftInv

\* Every step of Session is one of the contract, or none that a client sees.
LEMMA ContractStep ==
  ASSUME TaskInv, SocketInv, LeftInv, QuietInv, CrashInv, [Next]_vars
  PROVE  Contract!Next \/ UNCHANGED <<Holders, left, Dialogs>>
<1> service \in [Services -> ServiceStates] /\ conn \in [Conns -> Connection]
  BY DEF SocketInv, TaskInv
<1>1. CASE UNCHANGED serviceVars
  BY <1>1 DEF serviceVars, Holders, Dialogs
<1>2. ASSUME NEW s \in Services, Bind(s) PROVE Contract!Acquire(s)
  <2>1. Holders = {} /\ ~left
    BY <1>2 DEF Bind, SocketInv, SocketStanding, LeftInv, Holders
  <2>2. Holders' = {s}
    BY <1>2, <2>1 DEF Bind, Holders
  <2>3. UNCHANGED <<left, Dialogs>>
    BY <1>2 DEF Bind, Dialogs
  <2>4. QED
    BY <2>1, <2>2, <2>3 DEF Contract!Acquire
<1>3. ASSUME NEW s \in Services, Interrupt(s) PROVE UNCHANGED <<Holders, left, Dialogs>>
  BY <1>3 DEF Interrupt, Holders, Dialogs
<1>4. ASSUME NEW s \in Services, RemoveSocket(s) PROVE Contract!Release(s)
  <2>1. Holders = {s}
    BY <1>4 DEF RemoveSocket, SocketInv, SocketStanding, Holders
  <2>2. Holders' = {}
    BY <1>4, <2>1 DEF RemoveSocket, Holders
  <2>3. UNCHANGED <<left, Dialogs>>
    BY <1>4 DEF RemoveSocket, Dialogs
  <2>4. QED
    BY <2>1, <2>2, <2>3 DEF Contract!Release
<1>5. ASSUME NEW s \in Services, Leave(s) \/ Crash(s) PROVE Contract!Stop(s)
  <2>1. service' = [service EXCEPT ![s] = "off"] /\ DropTasks(s)
    BY <1>5 DEF Leave, Crash
  <2>2. Holders' = Holders \ {s}
    BY <2>1 DEF Holders
  <2>3. left' = (left \/ s \in Holders)
    <3>1. CASE Leave(s)
      BY <3>1 DEF Leave, Holders, CrashInv
    <3>2. CASE Crash(s)
      BY <3>2 DEF Crash, Holders, ServiceStates, CrashInv
    <3>3. QED
      BY <1>5, <3>1, <3>2
  <2>4. conn' = [c \in Conns |-> IF conn[c].owner = s THEN Closed ELSE conn[c]]
    BY <2>1 DEF DropTasks, Owned
  <2>5. View(Closed) = Contract!NoDialog
    BY DEF View, Closed, Contract!NoDialog
  <2>6. Dialogs' = [c \in Conns |-> View(conn'[c])]
    BY DEF Dialogs, View
  <2>7. \A c \in Conns : Dialogs[c] = View(conn[c]) /\ Dialogs[c].with = conn[c].owner
    BY DEF Dialogs, View
  <2>8. Dialogs' = [c \in Conns |-> IF Dialogs[c].with = s THEN Contract!NoDialog ELSE Dialogs[c]]
    BY <2>4, <2>5, <2>6, <2>7
  <2>9. QED
    BY <2>2, <2>3, <2>8 DEF Contract!Stop
<1>6. CASE RemoveLeftover
  BY <1>6 DEF RemoveLeftover, Contract!Next, Contract!Clear, LeftInv, Holders, Dialogs
<1>7. ASSUME NEW c \in Conns, Connect(c) PROVE \E s \in Services : Contract!Open(c, s)
  <2>1. PICK s \in Services : service[s] = "serving" /\ conn' = [conn EXCEPT ![c].owner = s]
    BY <1>7 DEF Connect
  <2>2. Holders = {s}
    BY <2>1 DEF SocketInv, SocketStanding, Holders
  <2>3. Dialogs[c] = View(conn[c]) /\ Dialogs[c] = Contract!NoDialog
    BY <1>7 DEF Connect, Dialogs, View, QuietInv
  <2> DEFINE r == [conn[c] EXCEPT !.owner = s]
  <2>4. View(r) = [View(conn[c]) EXCEPT !.with = s] /\ conn' = [conn EXCEPT ![c] = r]
    BY <2>1 DEF View, Connection
  <2> HIDE DEF r
  <2>5. Dialogs' = [Dialogs EXCEPT ![c].with = s]
    BY <2>3, <2>4, OneView
  <2>6. UNCHANGED <<Holders, left>>
    BY <1>7 DEF Connect, Holders
  <2>7. QED
    BY <2>2, <2>3, <2>5, <2>6 DEF Contract!Open
<1>8. ASSUME NEW c \in Conns,
             \/ ClientLeaves(c) \/ Task(c)
             \/ \E r \in Requests : Send(c, r)
      PROVE  Contract!Next \/ UNCHANGED <<Holders, left, Dialogs>>
  <2>1. UNCHANGED <<Holders, left>>
    BY <1>8, TasksKeepSocket DEF Holders
  <2>2. QED
    BY <1>8, <2>1, TaskDialog DEF Contract!Next
<1>9. QED
  BY <1>1, <1>2, <1>3, <1>4, <1>5, <1>6, <1>7, <1>8 DEF Next, ServiceNext, vars, Contract!Next

\* A dialog that closes is forgotten.
LEMMA QuietStep ==
  ASSUME TaskInv, QuietInv, Contract!Next \/ UNCHANGED <<Holders, left, Dialogs>>
  PROVE  QuietInv'
<1> Dialogs \in [Conns -> [with : Services \cup {NoService}, asked : Nat, answered : Nat]]
  BY DialogForm
<1> USE DEF QuietInv
<1>1. CASE UNCHANGED Dialogs
  BY <1>1
<1>2. ASSUME NEW s \in Services, Contract!Stop(s) PROVE QuietInv'
  BY <1>2 DEF Contract!Stop
<1>3. ASSUME NEW c \in Conns, NEW s \in Services, Contract!Open(c, s) PROVE QuietInv'
  BY <1>3, ServiceAssumption DEF Contract!Open
<1>4. ASSUME NEW c \in Conns, Contract!Ask(c) PROVE QuietInv'
  BY <1>4 DEF Contract!Ask
<1>5. ASSUME NEW c \in Conns, Contract!Answer(c) PROVE QuietInv'
  BY <1>5 DEF Contract!Answer
<1>6. ASSUME NEW c \in Conns, Contract!Close(c) PROVE QuietInv'
  BY <1>6 DEF Contract!Close
<1>7. CASE \E s \in Services : Contract!Acquire(s) \/ Contract!Release(s)
  BY <1>1, <1>7 DEF Contract!Acquire, Contract!Release
<1>8. CASE Contract!Clear
  BY <1>1, <1>8 DEF Contract!Clear
<1>9. QED
  BY <1>1, <1>2, <1>3, <1>4, <1>5, <1>6, <1>7, <1>8 DEF Contract!Next

\* The services keep what they promise their clients, however many are started
\* at once, interrupted and killed, and whatever their tasks meet: one of them
\* at a time holds the socket, and each dialog is with the one that held it and
\* has at most one answer for each request.
THEOREM ContractKept == Spec => Contract!Spec
<1> DEFINE Inv == IInv /\ SocketInv /\ LeftInv /\ QuietInv /\ OwnersInv /\ CrashInv
<1>1. Init => Inv /\ Contract!Init
  BY StoreInitial, SocketInit, ContractInitial, OwnersInitial
<1>2. Inv /\ [Next]_vars => Inv' /\ (Contract!Next \/ UNCHANGED <<Holders, left, Dialogs>>)
  <2> SUFFICES ASSUME Inv, [Next]_vars
               PROVE  Inv' /\ (Contract!Next \/ UNCHANGED <<Holders, left, Dialogs>>)
    OBVIOUS
  <2>1. TaskInv
    BY DEF IInv
  <2>2. Contract!Next \/ UNCHANGED <<Holders, left, Dialogs>>
    BY <2>1, ContractStep
  <2>3. QED
    BY <2>1, <2>2, StoreStep, SocketStep, LeftStep, OwnersStep, QuietStep
<1> HIDE DEF Inv
<1>3. QED
  BY <1>1, <1>2, PTL DEF Spec, Contract!Spec
=============================================================================
