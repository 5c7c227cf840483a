------------------------------ MODULE Service ------------------------------
(***************************************************************************)
(* xodus-service (src/crates/xodus-service/src): processes that bind one   *)
(* socket, serve connections in tasks and remove the socket when they are  *)
(* interrupted, and the tasks, which read requests and answer them in      *)
(* order (connection/router.rs, xml.rs, mod.rs).  A panic ends its task    *)
(* and closes the connection.  Clients and servers are external.           *)
(***************************************************************************)
EXTENDS TokenStore

CONSTANTS
  Services,     \* processes of the service
  NoService,
  AnswerSizes,  \* sizes of a MSATokenResponse, in bytes
  MaxRequests,  \* bound: requests on a connection
  MaxCrashes    \* bound

ASSUME ServiceAssumption ==
  /\ NoService \notin Services /\ AnswerSizes \subseteq Nat
  /\ MaxRequests \in Nat /\ MaxCrashes \in Nat

VARIABLES
  service,      \* "off", "serving", "closing" once interrupted, "leaving" once
                \* it has removed its socket
  socket_file,  \* whether xodus.sock is there
  crashes,      \* services that ended without removing it, so far
  left,         \* history: whether a crash left the file that is there
  conn          \* connections and their tasks

serviceVars == <<service, socket_file, crashes, left, conn>>

\* The service, the requests on the wire, whether the client has gone, what
\* the task does next, the size of its answer, the requests sent and those whose
\* answer the client could read, and whether it has lost track of the answers.
Closed == [owner |-> NoService, wire |-> <<>>, eof |-> FALSE, step |-> "check", size |-> 0,
           sent |-> 0, answered |-> 0, astray |-> FALSE]

ServiceInit ==
  /\ service = [s \in Services |-> "off"]
  /\ socket_file = FALSE /\ crashes = 0 /\ left = FALSE
  /\ conn = [c \in Conns |-> Closed]

Owned(s) == {c \in Conns : conn[c].owner = s}

\* The tasks of s end with their process.
DropTasks(s) ==
  /\ conn' = [c \in Conns |-> IF c \in Owned(s) THEN Closed ELSE conn[c]]
  /\ saving' = [w \in Savers |-> IF w \in Owned(s) THEN NotSaving ELSE saving[w]]
  /\ overtaken' = overtaken \ Owned(s)
  /\ UNCHANGED <<user_tokens, user_info, torn>>
-----------------------------------------------------------------------------
\* main: the socket is bound.  A file that is there makes bind fail, and the
\* process panics.
Bind(s) ==
  /\ service[s] = "off" /\ ~socket_file
  /\ service' = [service EXCEPT ![s] = "serving"]
  /\ socket_file' = TRUE
  /\ UNCHANGED <<crashes, left, conn, storeVars>>

\* ctrl_c: the token is cancelled and the listener dropped.
Interrupt(s) ==
  /\ service[s] = "serving"
  /\ service' = [service EXCEPT ![s] = "closing"]
  /\ UNCHANGED <<socket_file, crashes, left, conn, storeVars>>

\* Variant: the file stays.
KeepSocket(s) ==
  /\ service[s] = "closing"
  /\ service' = [service EXCEPT ![s] = "leaving"]
  /\ UNCHANGED <<socket_file, crashes, left, conn, storeVars>>

\* main removes the file ...
RemoveSocket(s) ==
  /\ service[s] = "closing"
  /\ service' = [service EXCEPT ![s] = "leaving"]
  /\ socket_file' = FALSE
  /\ UNCHANGED <<crashes, left, conn, storeVars>>

\* ... and returns.
Leave(s) ==
  /\ service[s] = "leaving"
  /\ service' = [service EXCEPT ![s] = "off"]
  /\ DropTasks(s)
  /\ UNCHANGED <<socket_file, crashes, left>>

\* The process is killed, or accepting fails and it panics.
Crash(s) ==
  /\ service[s] # "off" /\ crashes < MaxCrashes
  /\ service' = [service EXCEPT ![s] = "off"]
  /\ crashes' = crashes + 1
  /\ left' = (left \/ service[s] # "leaving")
  /\ DropTasks(s)
  /\ UNCHANGED socket_file

\* The user removes what a crash left.
RemoveLeftover ==
  /\ left /\ \A s \in Services : service[s] \in {"off", "leaving"}
  /\ socket_file' = FALSE /\ left' = FALSE
  /\ UNCHANGED <<service, crashes, conn, storeVars>>
-----------------------------------------------------------------------------
\* "bad": of an unknown type or not to be parsed; "other": with the magic of the
\* other protocol or none.
Requests == {"ping", "token", "bad", "other"}

Connect(c) ==
  /\ conn[c].owner = NoService
  /\ \E s \in Services :
       /\ service[s] = "serving"
       /\ conn' = [conn EXCEPT ![c].owner = s]
  /\ UNCHANGED <<service, socket_file, crashes, left, storeVars>>

\* The client may send requests before it has its answers.
Send(c, r) ==
  /\ conn[c].owner # NoService /\ ~conn[c].eof /\ conn[c].sent < MaxRequests
  /\ conn' = [conn EXCEPT ![c].wire = Append(@, r), ![c].sent = @ + 1]
  /\ UNCHANGED <<service, socket_file, crashes, left, storeVars>>

ClientLeaves(c) ==
  /\ conn[c].owner # NoService /\ ~conn[c].eof
  /\ conn' = [conn EXCEPT ![c].eof = TRUE]
  /\ UNCHANGED <<service, socket_file, crashes, left, storeVars>>

At(c, step) == conn[c].owner # NoService /\ conn[c].step = step

Goto(c, step) ==
  /\ conn' = [conn EXCEPT ![c].step = step]
  /\ UNCHANGED <<service, socket_file, crashes, left>>

\* The task returns or panics.
EndTask(c) ==
  /\ conn' = [conn EXCEPT ![c] = Closed]
  /\ Forget(c)
  /\ UNCHANGED <<service, socket_file, crashes, left, user_tokens, user_info, torn>>

\* route: once the token is cancelled the task returns, unless it is waiting
\* for a request already.
CheckCancelled(c) ==
  /\ At(c, "check")
  /\ IF service[conn[c].owner] = "serving"
     THEN Goto(c, "magic") /\ UNCHANGED storeVars
     ELSE EndTask(c)

\* route: the client has gone.
ReadEnd(c) ==
  /\ At(c, "magic") /\ conn[c].eof /\ conn[c].wire = <<>>
  /\ EndTask(c)

\* route: an unknown magic ends the task, the other protocol panics.
ReadOther(c) ==
  /\ At(c, "magic") /\ conn[c].wire # <<>> /\ Head(conn[c].wire) = "other"
  /\ EndTask(c)

AfterRequest == [ping |-> "answer", bad |-> "nothing", token |-> "get_sts"]

\* handle: a request is read whole.
ReadRequest(c) ==
  /\ At(c, "magic") /\ conn[c].wire # <<>> /\ Head(conn[c].wire) \in DOMAIN AfterRequest
  /\ conn' = [conn EXCEPT ![c].wire = Tail(@), ![c].step = AfterRequest[Head(conn[c].wire)]]
  /\ UNCHANGED <<service, socket_file, crashes, left, storeVars>>

\* Variant: a missing token is used.
GetStsUnchecked(c) ==
  /\ At(c, "get_sts")
  /\ Begin(c, user_tokens["sts"])
  /\ Goto(c, "device")
  /\ UNCHANGED <<user_tokens, user_info, torn>>

\* get_user_sts_token; without it the answer is empty.
GetSts(c) ==
  /\ At(c, "get_sts")
  /\ IF user_tokens["sts"] = NoUser
     THEN Goto(c, "nothing") /\ UNCHANGED storeVars
     ELSE /\ Begin(c, user_tokens["sts"]) /\ Goto(c, "device")
          /\ UNCHANGED <<user_tokens, user_info, torn>>

\* exchange_device_token: an error is passed over, ...
ExchangeDevice(c) ==
  /\ At(c, "device")
  /\ Goto(c, "user")
  /\ UNCHANGED storeVars

\* ... a fault panics.
DeviceFault(c) == At(c, "device") /\ EndTask(c)

\* exchange_user_token fails: an empty answer.
ExchangeFails(c) ==
  /\ At(c, "user")
  /\ saving' = [saving EXCEPT ![c] = NotSaving]
  /\ overtaken' = overtaken \ {c}
  /\ Goto(c, "nothing")
  /\ UNCHANGED <<user_tokens, user_info, torn>>

\* A fault, a single token that is no collection, or no token at all panics.
ExchangeFault(c) == At(c, "user") /\ EndTask(c)

\* The last token is taken off to be saved: the refreshed STS token or the one
\* asked for.  If it was the only one, none is left for the answer.
ExchangeUser(c) ==
  /\ At(c, "user")
  /\ \E a \in {"sts"} \cup Requested, lone \in BOOLEAN :
       /\ saving' = [saving EXCEPT ![c].todo = <<a>>]
       /\ Goto(c, IF lone THEN "save_only" ELSE "save")
  /\ UNCHANGED <<user_tokens, user_info, overtaken, torn>>

Saving(c) == At(c, "save") \/ At(c, "save_only")

RequestGets(c) ==
  /\ Saving(c) /\ GetStore(c)
  /\ UNCHANGED serviceVars

RequestSets(c) ==
  /\ Saving(c) /\ SetStore(c)
  /\ torn' = IF c \in overtaken THEN torn \cup {"overtaken"} ELSE torn
  /\ UNCHANGED <<user_info, serviceVars>>

\* A failing keychain is passed over: Ok or not, the answer is made.
Saved(c) ==
  /\ At(c, "save") /\ ~saving[c].reading
  /\ saving' = [saving EXCEPT ![c] = NotSaving]
  /\ overtaken' = overtaken \ {c}
  /\ \E n \in AnswerSizes : conn' = [conn EXCEPT ![c].step = "answer", ![c].size = n]
  /\ UNCHANGED <<service, socket_file, crashes, left, user_tokens, user_info, torn>>

\* Taking the first token of none panics.
SavedOnly(c) == At(c, "save_only") /\ ~saving[c].reading /\ EndTask(c)

\* encode_message: the size as it is announced.
Announced(n) == n % 2^16

\* Variant: an error is not answered.
AnswerUnlessEmpty(c) ==
  /\ At(c, "answer") \/ At(c, "nothing")
  /\ conn' = [conn EXCEPT ![c].step = "check", ![c].size = 0,
                          ![c].astray = @ \/ Announced(conn[c].size) # conn[c].size,
                          ![c].answered = IF conn[c].eof \/ At(c, "nothing") THEN @ ELSE @ + 1]
  /\ UNCHANGED <<service, socket_file, crashes, left, storeVars>>

\* handle writes the answer, empty after an error; to a client that has gone
\* this fails and is passed over.
Answer(c) ==
  /\ At(c, "answer") \/ At(c, "nothing")
  /\ conn' = [conn EXCEPT ![c].step = "check", ![c].size = 0,
                          ![c].astray = @ \/ Announced(conn[c].size) # conn[c].size,
                          ![c].answered = IF conn[c].eof THEN @ ELSE @ + 1]
  /\ UNCHANGED <<service, socket_file, crashes, left, storeVars>>

\* What a task does next.
Task(c) ==
  \/ CheckCancelled(c) \/ ReadEnd(c) \/ ReadOther(c) \/ ReadRequest(c)
  \/ GetSts(c) \/ ExchangeDevice(c) \/ DeviceFault(c)
  \/ ExchangeFails(c) \/ ExchangeFault(c) \/ ExchangeUser(c)
  \/ RequestGets(c) \/ RequestSets(c) \/ Saved(c) \/ SavedOnly(c)
  \/ Answer(c)

ServiceNext ==
  \/ \E s \in Services : Bind(s) \/ Interrupt(s) \/ RemoveSocket(s) \/ Leave(s) \/ Crash(s)
  \/ RemoveLeftover
  \/ \E c \in Conns : Connect(c) \/ ClientLeaves(c) \/ Task(c) \/ \E r \in Requests : Send(c, r)
-----------------------------------------------------------------------------
Connections ==
  [owner : Services \cup {NoService}, wire : Seq(Requests), eof : BOOLEAN,
   step : {"check", "magic", "get_sts", "device", "user", "save", "save_only", "answer", "nothing"},
   size : AnswerSizes \cup {0}, sent : 0..MaxRequests, answered : 0..MaxRequests, astray : BOOLEAN]

ServiceTypeOK ==
  /\ service \in [Services -> {"off", "serving", "closing", "leaving"}]
  /\ socket_file \in BOOLEAN /\ left \in BOOLEAN /\ crashes \in 0..MaxCrashes
  /\ conn \in [Conns -> Connections]
  /\ \A c \in Conns : /\ conn[c].step \in {"device", "user", "save", "save_only"} => saving[c].acct \in Users
                      /\ conn[c].owner # NoService => service[conn[c].owner] # "off"
                      /\ conn[c].answered + Len(conn[c].wire) <= conn[c].sent

\* The socket of a service that runs is never removed by another one, two never
\* run at once, and the next can bind unless one crashed.
SocketStanding ==
  /\ \A s \in Services : service[s] \in {"serving", "closing"} =>
       socket_file /\ \A t \in Services \ {s} : service[t] \in {"off", "leaving"}
  /\ socket_file /\ (\A s \in Services : service[s] \in {"off", "leaving"}) => left

\* What a client sees of the services: who holds the socket, and how far the
\* dialogs are.
Holders == {s \in Services : service[s] \in {"serving", "closing"}}
Dialogs == [c \in Conns |-> [with |-> conn[c].owner, asked |-> conn[c].sent,
                             answered |-> conn[c].answered]]

Contract == INSTANCE ServiceContract WITH holders <- Holders, stale <- left, dialogs <- Dialogs

\* Every request is answered, however its handling fails, or the connection
\* ends: unless the client leaves, or an answer before it was longer than
\* announced and the client can no longer tell where the next one begins.
Answered ==
  \A c \in Conns : \A k \in 1..MaxRequests :
    conn[c].sent >= k ~> conn[c].answered >= k \/ conn[c].owner = NoService
                         \/ conn[c].eof \/ conn[c].astray
=============================================================================
