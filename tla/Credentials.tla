---------------------------- MODULE Credentials ----------------------------
(***************************************************************************)
(* The credentials of Xodus in the system keychain: tokens/manager.rs,     *)
(* tokens/device.rs (src/crates/xodus/src) and the commands and requests   *)
(* that read and write them, login.rs and logout.rs of xodus-cli,          *)
(* xml.rs of xodus-service.  Commands run in processes of their own and    *)
(* requests in tasks of the service; all share the keychain, of which only *)
(* a single get, set or delete is atomic.  Saving a user token is a get, a *)
(* merge and a set.  Every network call can end in any way its caller      *)
(* tells apart.                                                            *)
(*                                                                         *)
(* A user's token is represented by the user, a device's token by the      *)
(* device.  The device tokens have one address, so that merging one into   *)
(* them replaces them.  A user's tokens have an address each: the two that *)
(* a login asks for, and one for each scope and client id that a request   *)
(* of the service asks for.                                                *)
(***************************************************************************)
EXTENDS Integers, Sequences, FiniteSets

CONSTANTS
  Procs,      \* command line processes and tasks of the service
  Users,      \* accounts
  Devices,    \* the devices that can still be provisioned, a bound
  Requested,  \* addresses that requests ask for: a scope and a client id
  NoUser,
  NoDevice

\* The addresses that a login asks for: PASSPORT_STS and the scope of Xbox Live,
\* without the client id that a request adds to it.
LoginAddresses == {"service", "sts"}

ASSUME NamesAssumption == NoUser \notin Users /\ NoDevice \notin Devices
ASSUME RequestedAssumption == Requested \cap LoginAddresses = {}

Addresses == LoginAddresses \cup Requested
NoTokens  == [a \in Addresses |-> NoUser]

VARIABLES
  license,     \* entry dev_license: the device, or NoDevice
  dev_token,   \* entry device-tokens: the device of the STS token, which is used
               \* whether or not it has expired
  user_tokens, \* entry user-tokens: the user of the token at each address
  user_info,   \* entry user-DA
  serving,     \* whether the service has started
  pc,          \* what a process does next, or how its command ended
  run,         \* what a process knows: its command, the license it
               \* authenticates with, the user whose tokens it saves, their
               \* addresses in the order of the response, user-tokens as it
               \* read them
  minted,      \* the devices provisioned so far
  removed,     \* history: processes that saw device-tokens removed by another while
               \* they made sure of them, or were given no token by the server
  written,     \* history: processes during whose logout another wrote an entry
  clean        \* history: commands ran one at a time, none was cut short, no
               \* call of the keychain failed and every login brought an STS
               \* token

deviceVars == <<license, dev_token, minted>>
userVars   == <<user_tokens, user_info>>
history    == <<removed, written, clean>>
vars == <<deviceVars, userVars, serving, pc, run, history>>

Ended == {"done", "failed", "no_device_token", "logged_out"}

NoRun == [cmd |-> "use", dev |-> NoDevice, acct |-> NoUser, todo |-> <<>>, buf |-> NoTokens]

Init ==
  /\ license = NoDevice /\ dev_token = NoDevice /\ minted = {}
  /\ user_tokens = NoTokens /\ user_info = NoUser
  /\ serving = FALSE
  /\ pc = [p \in Procs |-> "idle"]
  /\ run = [p \in Procs |-> NoRun]
  /\ removed = {} /\ written = {} /\ clean = TRUE

Goto(p, l) == pc' = [pc EXCEPT ![p] = l]

\* The processes other than p that run a command.
Others(p) == {q \in Procs \ {p} : pc[q] # "idle"}

LoggingOut(q) == run[q].cmd \in {"logout", "logout_device"}

\* p has written an entry.
Wrote(p) == written' = written \cup {q \in Others(p) : LoggingOut(q)}

\* The steps of a command that makes sure of the device's credentials.
Ensuring == {"get_license", "check_token", "provision", "authenticate", "ready"}

FirstStep == [login |-> "get_license", use |-> "get_license", serve |-> "get_license",
              request |-> "get_sts", logout |-> "remove_device_tokens",
              logout_device |-> "remove_license"]

\* A command is run: those that need the device make sure of its credentials
\* first.  The service takes requests once it has started.
Start(p, c) ==
  /\ pc[p] = "idle"
  /\ c = "request" => serving
  /\ c = "serve" => ~serving
  /\ Goto(p, FirstStep[c])
  /\ run' = [run EXCEPT ![p].cmd = c]
  /\ clean' = (clean /\ Others(p) = {})
  /\ UNCHANGED <<deviceVars, userVars, serving, removed, written>>

\* The process ends, and what it knew is gone.
Leave(p) ==
  /\ Goto(p, "idle")
  /\ run' = [run EXCEPT ![p] = NoRun]
  /\ removed' = removed \ {p}
  /\ written' = written \ {p}
  /\ UNCHANGED <<deviceVars, userVars>>

End(p) ==
  /\ pc[p] \in Ended
  /\ Leave(p)
  /\ UNCHANGED <<serving, clean>>

\* The user interrupts the command, the service drops the request as it stops,
\* or a call of the keychain or the network fails and the command panics.
CutShort(p) ==
  /\ pc[p] \notin Ended \cup {"idle"}
  /\ Leave(p)
  /\ clean' = FALSE
  /\ UNCHANGED serving

\* The service is interrupted and takes no more requests.
StopService ==
  /\ serving
  /\ serving' = FALSE
  /\ UNCHANGED <<deviceVars, userVars, pc, run, history>>
-----------------------------------------------------------------------------
\* ensure_device_credentials: is there a license?
GetLicense(p) ==
  /\ pc[p] = "get_license"
  /\ Goto(p, IF license = NoDevice THEN "provision" ELSE "check_token")
  /\ run' = [run EXCEPT ![p].dev = license]
  /\ UNCHANGED <<deviceVars, userVars, serving, history>>

\* A failing get counts as no license: another device is provisioned.
GetLicenseFails(p) ==
  /\ pc[p] = "get_license"
  /\ Goto(p, "provision")
  /\ clean' = FALSE
  /\ UNCHANGED <<deviceVars, userVars, serving, run, removed, written>>

\* Variant: a token is taken to be there.
CheckTokenNever(p) ==
  /\ pc[p] = "check_token"
  /\ Goto(p, "ready")
  /\ UNCHANGED <<deviceVars, userVars, serving, run, history>>

\* Is there a device token?
CheckToken(p) ==
  /\ pc[p] = "check_token"
  /\ Goto(p, IF dev_token = NoDevice THEN "authenticate" ELSE "ready")
  /\ UNCHANGED <<deviceVars, userVars, serving, run, history>>

\* A failing get counts as no token.
CheckTokenFails(p) ==
  /\ pc[p] = "check_token"
  /\ Goto(p, "authenticate")
  /\ clean' = FALSE
  /\ UNCHANGED <<deviceVars, userVars, serving, run, removed, written>>

\* provision_device, up to the saved license.
ProvisionDevice(p) ==
  /\ pc[p] = "provision"
  /\ \E d \in Devices \ minted :
       /\ minted' = minted \cup {d}
       /\ license' = d
       /\ run' = [run EXCEPT ![p].dev = d]
  /\ Wrote(p)
  /\ Goto(p, "authenticate")
  /\ UNCHANGED <<dev_token, userVars, serving, removed, clean>>

\* reauthenticate_device and save_device_sts_token.
AuthenticateDevice(p) ==
  /\ pc[p] = "authenticate"
  /\ dev_token' = run[p].dev
  /\ Wrote(p)
  /\ Goto(p, "ready")
  /\ UNCHANGED <<license, minted, userVars, serving, run, removed, clean>>

\* The answer is another body, such as a fault: nothing is saved or reported.
AuthenticateGetsNone(p) ==
  /\ pc[p] = "authenticate"
  /\ removed' = removed \cup {p}
  /\ Goto(p, "ready")
  /\ UNCHANGED <<deviceVars, userVars, serving, run, written, clean>>

AfterReady == [login |-> "web", use |-> "use_user", serve |-> "done"]

\* The command gets the device token, and panics if there is none.  The license
\* it authenticated with is dropped.
GetDeviceToken(p) ==
  /\ pc[p] = "ready"
  /\ IF dev_token = NoDevice
     THEN Goto(p, "no_device_token") /\ UNCHANGED serving
     ELSE Goto(p, AfterReady[run[p].cmd]) /\ serving' = (serving \/ run[p].cmd = "serve")
  /\ run' = [run EXCEPT ![p].dev = NoDevice]
  /\ UNCHANGED <<deviceVars, userVars, history>>
-----------------------------------------------------------------------------
\* get_license: the user, the user's STS token and the license are read one
\* after another; each is unwrapped.
UseUser(p) ==
  /\ pc[p] = "use_user"
  /\ Goto(p, IF user_info = NoUser THEN "failed" ELSE "use_token")
  /\ UNCHANGED <<deviceVars, userVars, serving, run, history>>

UseToken(p) ==
  /\ pc[p] = "use_token"
  /\ Goto(p, IF user_tokens["sts"] = NoUser THEN "failed" ELSE "use_license")
  /\ UNCHANGED <<deviceVars, userVars, serving, run, history>>

UseLicense(p) ==
  /\ pc[p] = "use_license"
  /\ Goto(p, IF license = NoDevice THEN "failed" ELSE "done")
  /\ UNCHANGED <<deviceVars, userVars, serving, run, history>>

\* The login page is closed, or the exchange ends with a fault.
WebClosed(p) ==
  /\ pc[p] = "web"
  /\ Goto(p, "done")
  /\ UNCHANGED <<deviceVars, userVars, serving, run, history>>

\* Variant: the user is not saved.
WebIssuedNoUser(p, u, tokens) ==
  /\ pc[p] = "web"
  /\ run' = [run EXCEPT ![p].acct = u, ![p].todo = tokens]
  /\ Wrote(p)
  /\ Goto(p, "save")
  /\ clean' = (clean /\ tokens = <<"service", "sts">>)
  /\ UNCHANGED <<deviceVars, userVars, serving, removed>>

\* LoginHandler::on_token is issued tokens for user u and saves the user.  The
\* first exchange asks for the service's token, the second one, after a fault,
\* for the STS token also.
WebIssued(p, u, tokens) ==
  /\ pc[p] = "web"
  /\ user_info' = u
  /\ run' = [run EXCEPT ![p].acct = u, ![p].todo = tokens]
  /\ Wrote(p)
  /\ Goto(p, "save")
  /\ clean' = (clean /\ tokens = <<"service", "sts">>)
  /\ UNCHANGED <<deviceVars, user_tokens, serving, removed>>
-----------------------------------------------------------------------------
\* Variant: a missing token is used.
GetStsUnchecked(p) ==
  /\ pc[p] = "get_sts"
  /\ run' = [run EXCEPT ![p].acct = user_tokens["sts"]]
  /\ Goto(p, "exchange")
  /\ UNCHANGED <<deviceVars, userVars, serving, history>>

\* A request of the service: get_user_sts_token.
GetSts(p) ==
  /\ pc[p] = "get_sts"
  /\ run' = [run EXCEPT ![p].acct = user_tokens["sts"]]
  /\ Goto(p, IF user_tokens["sts"] = NoUser THEN "failed" ELSE "exchange")
  /\ UNCHANGED <<deviceVars, userVars, serving, history>>

\* The exchange fails (an error is answered with nothing, a fault panics), or
\* brings no tokens.
ExchangeFails(p) ==
  /\ pc[p] = "exchange"
  /\ Goto(p, "failed")
  /\ UNCHANGED <<deviceVars, userVars, serving, run, history>>

\* The last token of the response is taken off to be saved: the refreshed STS
\* token or the one asked for, which may be the only one.
Exchanged(p) ==
  /\ pc[p] = "exchange"
  /\ \E a \in {"sts"} \cup Requested : run' = [run EXCEPT ![p].todo = <<a>>]
  /\ Goto(p, "save")
  /\ UNCHANGED <<deviceVars, userVars, serving, history>>
-----------------------------------------------------------------------------
\* write_token_store: the get ...
ReadTokens(p) ==
  /\ pc[p] = "save"
  /\ run' = [run EXCEPT ![p].buf = user_tokens]
  /\ Goto(p, "write")
  /\ UNCHANGED <<deviceVars, userVars, serving, history>>

\* A request answers with the first of the tokens that are left, and panics if
\* the one it saved was the only one.
AfterSave(p) ==
  IF Len(run[p].todo) > 1 THEN {"save"}
  ELSE IF run[p].cmd = "request" THEN {"done", "failed"} ELSE {"done"}

\* Variant: what was read is not merged into what is written.
WriteTokensUnmerged(p) ==
  /\ pc[p] = "write"
  /\ user_tokens' = [NoTokens EXCEPT ![Head(run[p].todo)] = run[p].acct]
  /\ run' = [run EXCEPT ![p].todo = Tail(@), ![p].buf = NoTokens]
  /\ \E l \in AfterSave(p) : Goto(p, l)
  /\ Wrote(p)
  /\ UNCHANGED <<deviceVars, user_info, serving, removed, clean>>

\* ... and the set.
WriteTokens(p) ==
  /\ pc[p] = "write"
  /\ user_tokens' = [run[p].buf EXCEPT ![Head(run[p].todo)] = run[p].acct]
  /\ run' = [run EXCEPT ![p].todo = Tail(@), ![p].buf = NoTokens]
  /\ \E l \in AfterSave(p) : Goto(p, l)
  /\ Wrote(p)
  /\ UNCHANGED <<deviceVars, user_info, serving, removed, clean>>
-----------------------------------------------------------------------------
\* logout --device: remove_device_license.
RemoveLicense(p) ==
  /\ pc[p] = "remove_license"
  /\ license' = NoDevice
  /\ Goto(p, IF license = NoDevice THEN "failed" ELSE "remove_device_tokens")
  /\ UNCHANGED <<dev_token, minted, userVars, serving, run, history>>

\* remove_persistent: each removal fails if there is nothing to remove.
RemoveDeviceTokens(p) ==
  /\ pc[p] = "remove_device_tokens"
  /\ dev_token' = NoDevice
  /\ removed' = removed \cup {q \in Others(p) : pc[q] \in Ensuring}
  /\ Goto(p, IF dev_token = NoDevice THEN "failed" ELSE "remove_user_tokens")
  /\ UNCHANGED <<license, minted, userVars, serving, run, written, clean>>

\* Variant: the tokens of one address stay.
RemoveUserTokensOfSts(p) ==
  /\ pc[p] = "remove_user_tokens"
  /\ user_tokens' = [user_tokens EXCEPT !["sts"] = NoUser]
  /\ Goto(p, IF user_tokens = NoTokens THEN "failed" ELSE "remove_user")
  /\ UNCHANGED <<deviceVars, user_info, serving, run, history>>

RemoveUserTokens(p) ==
  /\ pc[p] = "remove_user_tokens"
  /\ user_tokens' = NoTokens
  /\ Goto(p, IF user_tokens = NoTokens THEN "failed" ELSE "remove_user")
  /\ UNCHANGED <<deviceVars, user_info, serving, run, history>>

RemoveUser(p) ==
  /\ pc[p] = "remove_user"
  /\ user_info' = NoUser
  /\ Goto(p, IF user_info = NoUser THEN "failed" ELSE "logged_out")
  /\ UNCHANGED <<deviceVars, user_tokens, serving, run, history>>
-----------------------------------------------------------------------------
Commands == {"login", "use", "serve", "request", "logout", "logout_device"}

\* What the responses of a login's exchange hold.
IssuedTokens == {<<"service">>, <<"service", "sts">>}

Next ==
  \/ StopService
  \/ \E p \in Procs :
       \/ \E c \in Commands : Start(p, c)
       \/ End(p)
       \/ CutShort(p)
       \/ GetLicense(p)
       \/ GetLicenseFails(p)
       \/ CheckToken(p)
       \/ CheckTokenFails(p)
       \/ ProvisionDevice(p)
       \/ AuthenticateDevice(p)
       \/ AuthenticateGetsNone(p)
       \/ GetDeviceToken(p)
       \/ UseUser(p)
       \/ UseToken(p)
       \/ UseLicense(p)
       \/ WebClosed(p)
       \/ \E u \in Users, tokens \in IssuedTokens : WebIssued(p, u, tokens)
       \/ GetSts(p)
       \/ ExchangeFails(p)
       \/ Exchanged(p)
       \/ ReadTokens(p)
       \/ WriteTokens(p)
       \/ RemoveLicense(p)
       \/ RemoveDeviceTokens(p)
       \/ RemoveUserTokens(p)
       \/ RemoveUser(p)

Spec == Init /\ [][Next]_vars
-----------------------------------------------------------------------------
Steps == {"idle", "use_user", "use_token", "use_license", "web", "save", "write", "get_sts",
          "exchange", "remove_license", "remove_device_tokens", "remove_user_tokens",
          "remove_user"} \cup Ensuring \cup Ended

Tokens == [Addresses -> Users \cup {NoUser}]
AddressLists == {<<>>, <<"service", "sts">>} \cup {<<a>> : a \in Addresses}

Runs == [cmd : Commands, dev : Devices \cup {NoDevice}, acct : Users \cup {NoUser},
         todo : AddressLists, buf : Tokens]

\* Type invariant.
TypeOK ==
  /\ license \in Devices \cup {NoDevice} /\ dev_token \in Devices \cup {NoDevice}
  /\ minted \subseteq Devices
  /\ user_tokens \in Tokens /\ user_info \in Users \cup {NoUser}
  /\ serving \in BOOLEAN
  /\ pc \in [Procs -> Steps]
  /\ run \in [Procs -> Runs]
  /\ \A p \in Procs : /\ pc[p] \in Ensuring => run[p].cmd \in {"login", "use", "serve"}
                      /\ pc[p] \in {"check_token", "authenticate"} => run[p].dev \in Devices
                      /\ pc[p] \in {"exchange", "save", "write"} => run[p].acct \in Users
                      /\ pc[p] \in {"save", "write"} => run[p].todo # <<>>
  /\ removed \subseteq Procs /\ written \subseteq Procs /\ clean \in BOOLEAN

\* A command that made sure of the device's credentials finds a device token,
\* unless another process logged out meanwhile or the server issued none:
\* whoever else saves, provisions or is cut short.
EnsuredIsFound ==
  \A p \in Procs : pc[p] = "no_device_token" => p \in removed

\* A logout that reports success has left nothing behind, unless another
\* process wrote in the meantime.
LogoutRemovesAll ==
  \A p \in Procs : pc[p] = "logged_out" /\ p \notin written =>
    /\ dev_token = NoDevice /\ user_tokens = NoTokens /\ user_info = NoUser
    /\ run[p].cmd = "logout_device" => license = NoDevice

\* While commands run one at a time and to their ends, no call of the keychain
\* fails and logins bring STS tokens, what is stored belongs together between
\* commands: the device token to the license, the tokens of a login to the
\* account that is signed in, and an account is signed in on a device that has a
\* token.  So it is after a logout, even one that reports an error: without an
\* account there is no token at any address.  While there is one, the token at an
\* address that only requests ask for may be that of an account that signed in
\* before: a login does not touch it.
StoreAgrees ==
  clean /\ (\A p \in Procs : pc[p] = "idle") =>
    /\ dev_token \in {NoDevice, license}
    /\ \A a \in LoginAddresses : user_tokens[a] = user_info
    /\ user_info # NoUser => dev_token # NoDevice
    /\ user_info = NoUser => user_tokens = NoTokens

\* The device token counts while its license is there, and what is stored of the
\* user counts while the device token does.  A token that a command is about to
\* save is taken to be there as soon as the user is.
Authenticated == license # NoDevice /\ dev_token = license

AwaitsSave(p, a) ==
  pc[p] \in {"save", "write"} /\ \E i \in DOMAIN run[p].todo : run[p].todo[i] = a

TokenAt(a) == IF \E p \in Procs : AwaitsSave(p, a) THEN user_info ELSE user_tokens[a]

SeenDeviceToken == IF Authenticated THEN license ELSE NoDevice
SeenUser        == IF Authenticated THEN user_info ELSE NoUser
SeenTokens      == [a \in Addresses |-> IF Authenticated THEN TokenAt(a) ELSE NoUser]

Store == INSTANCE AccountStore
  WITH device <- license, device_token <- SeenDeviceToken, user <- SeenUser, tokens <- SeenTokens

\* Under the same conditions each command changes the keychain as if at once: of
\* its many gets, sets and deletes at most one provisions, authenticates, signs in,
\* signs out, gives up the device or keeps a token of the account that is signed
\* in, and the others are not to be seen.
OneAfterAnother == Store!Init /\ [][clean' => [Store!Next]_(Store!vars)]_vars
=============================================================================
