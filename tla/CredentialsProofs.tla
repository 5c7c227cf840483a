------------------------- MODULE CredentialsProofs -------------------------
(***************************************************************************)
(* Proofs about Credentials, for any processes, accounts and devices.      *)
(***************************************************************************)
EXTENDS Credentials, TLAPS

USE DEF Goto, Others, Wrote, NoTokens

LEMMA TailOfTodo ==
  ASSUME NEW t \in AddressLists, t # <<>>
  PROVE  Tail(t) \in AddressLists /\ Head(t) \in Addresses /\ (Len(t) > 1 => Tail(t) # <<>>)
<1>1. ASSUME NEW a \in Addresses, t = <<a>> PROVE Tail(t) = <<>> /\ Head(t) = a /\ Len(t) = 1
  BY <1>1
<1>2. CASE t = <<"service", "sts">>
  <2>1. Tail(t) = <<"sts">> /\ Head(t) = "service"
    BY <1>2
  <2>2. <<"sts">> # <<>> /\ {"service", "sts"} \subseteq Addresses
    BY DEF Addresses, LoginAddresses
  <2>3. QED
    BY <2>1, <2>2 DEF AddressLists
<1>3. QED
  BY <1>1, <1>2 DEF AddressLists

\* A step of p keeps the type invariant if what p knows suits where it goes.
LEMMA TypeStep ==
  ASSUME TypeOK, NEW p \in Procs, NEW l \in Steps, pc' = [pc EXCEPT ![p] = l],
         run' \in [Procs -> Runs], \A q \in Procs \ {p} : run'[q] = run[q],
         l \in Ensuring => run'[p].cmd \in {"login", "use", "serve"},
         l \in {"check_token", "authenticate"} => run'[p].dev \in Devices,
         l \in {"exchange", "save", "write"} => run'[p].acct \in Users,
         l \in {"save", "write"} => run'[p].todo # <<>>,
         license' \in Devices \cup {NoDevice}, dev_token' \in Devices \cup {NoDevice},
         minted' \subseteq Devices, user_tokens' \in Tokens, user_info' \in Users \cup {NoUser},
         serving' \in BOOLEAN, removed' \subseteq Procs, written' \subseteq Procs, clean' \in BOOLEAN
  PROVE  TypeOK'
<1>1. pc' \in [Procs -> Steps] /\ pc'[p] = l /\ \A q \in Procs \ {p} : pc'[q] = pc[q]
  BY DEF TypeOK
<1>2. ASSUME NEW q \in Procs
      PROVE  /\ pc'[q] \in Ensuring => run'[q].cmd \in {"login", "use", "serve"}
             /\ pc'[q] \in {"check_token", "authenticate"} => run'[q].dev \in Devices
             /\ pc'[q] \in {"exchange", "save", "write"} => run'[q].acct \in Users
             /\ pc'[q] \in {"save", "write"} => run'[q].todo # <<>>
  <2>1. CASE q = p
    BY <1>1, <2>1
  <2>2. CASE q # p
    BY <1>1, <2>2 DEF TypeOK
  <2>3. QED
    BY <2>1, <2>2
<1>3. QED
  BY <1>1, <1>2 DEF TypeOK

LEMMA NextTypeOK == TypeOK /\ [Next]_vars => TypeOK'
<1> SUFFICES ASSUME TypeOK, [Next]_vars PROVE TypeOK'
  OBVIOUS
<1> USE DEF TypeOK, Tokens, Runs, Steps, Ended, Ensuring
<1>1. CASE StopService
  BY <1>1 DEF StopService, deviceVars, userVars, history
<1>2. ASSUME NEW p \in Procs, NEW c \in Commands, Start(p, c) PROVE TypeOK'
  BY <1>2 DEF Start, FirstStep, Commands, deviceVars, userVars
<1>3. ASSUME NEW p \in Procs, End(p) PROVE TypeOK'
  BY <1>3 DEF End, Leave, NoRun, Commands, AddressLists, deviceVars, userVars
<1>4. ASSUME NEW p \in Procs, CutShort(p) PROVE TypeOK'
  BY <1>4 DEF CutShort, Leave, NoRun, Commands, AddressLists, deviceVars, userVars
<1>5. ASSUME NEW p \in Procs, GetLicense(p) \/ GetLicenseFails(p) PROVE TypeOK'
  <2>1. CASE GetLicense(p)
    <3>1. /\ run' \in [Procs -> Runs] /\ run'[p].dev = license
          /\ \A q \in Procs : run'[q].cmd = run[q].cmd /\ (q # p => run'[q] = run[q])
      BY <2>1 DEF GetLicense
    <3>2. PICK l \in {"provision", "check_token"} : /\ pc' = [pc EXCEPT ![p] = l]
                                                    /\ l = "check_token" => license \in Devices
      BY <2>1 DEF GetLicense
    <3>3. pc[p] = "get_license" /\ UNCHANGED <<deviceVars, userVars, serving, history>>
      BY <2>1 DEF GetLicense
    <3>4. run'[p].cmd \in {"login", "use", "serve"} /\ l \in Steps
      BY <3>1, <3>2, <3>3
    <3>5. /\ license' \in Devices \cup {NoDevice} /\ dev_token' \in Devices \cup {NoDevice}
          /\ minted' \subseteq Devices /\ user_tokens' \in Tokens
          /\ user_info' \in Users \cup {NoUser} /\ serving' \in BOOLEAN
          /\ removed' \subseteq Procs /\ written' \subseteq Procs /\ clean' \in BOOLEAN
      BY <3>3 DEF deviceVars, userVars, history
    <3> HIDE DEF TypeOK, Tokens, Runs, Steps
    <3>6. QED
      BY <3>1, <3>2, <3>4, <3>5, TypeStep
  <2>2. CASE GetLicenseFails(p)
    BY <2>2 DEF GetLicenseFails, deviceVars, userVars
  <2>3. QED
    BY <1>5, <2>1, <2>2
<1>6. ASSUME NEW p \in Procs, CheckToken(p) \/ CheckTokenFails(p) PROVE TypeOK'
  BY <1>6 DEF CheckToken, CheckTokenFails, deviceVars, userVars, history
<1>7. ASSUME NEW p \in Procs, ProvisionDevice(p) PROVE TypeOK'
  <2>1. PICK d \in Devices \ minted : /\ minted' = minted \cup {d} /\ license' = d
                                      /\ run' = [run EXCEPT ![p].dev = d]
    BY <1>7 DEF ProvisionDevice
  <2>2. /\ run' \in [Procs -> Runs] /\ run'[p].dev \in Devices
        /\ \A q \in Procs : run'[q].cmd = run[q].cmd /\ (q # p => run'[q] = run[q])
    BY <2>1
  <2>3. pc' = [pc EXCEPT ![p] = "authenticate"] /\ pc[p] = "provision"
    BY <1>7 DEF ProvisionDevice
  <2>4. UNCHANGED <<userVars, serving, clean, dev_token, removed>> /\ written' \subseteq Procs
    BY <1>7 DEF ProvisionDevice
  <2>5. QED
    BY <2>1, <2>2, <2>3, <2>4 DEF userVars
<1>8. ASSUME NEW p \in Procs, AuthenticateDevice(p) PROVE TypeOK'
  BY <1>8 DEF AuthenticateDevice, userVars
<1>9. ASSUME NEW p \in Procs, AuthenticateGetsNone(p) PROVE TypeOK'
  BY <1>9 DEF AuthenticateGetsNone, deviceVars, userVars
<1>10. ASSUME NEW p \in Procs, GetDeviceToken(p) PROVE TypeOK'
  <2>1. AfterReady[run[p].cmd] \in {"web", "use_user", "done"}
    BY <1>10 DEF GetDeviceToken, AfterReady
  <2>2. PICK l \in {"no_device_token", "web", "use_user", "done"} : pc' = [pc EXCEPT ![p] = l]
    BY <1>10, <2>1 DEF GetDeviceToken
  <2>3. /\ run' = [run EXCEPT ![p].dev = NoDevice] /\ serving' \in BOOLEAN
        /\ UNCHANGED <<deviceVars, userVars, history>>
    BY <1>10 DEF GetDeviceToken
  <2>4. /\ run' \in [Procs -> Runs]
        /\ \A q \in Procs : run'[q].cmd = run[q].cmd /\ (q # p => run'[q] = run[q])
    BY <2>3
  <2>5. QED
    BY <2>2, <2>3, <2>4 DEF deviceVars, userVars, history
<1>11. ASSUME NEW p \in Procs, UseUser(p) \/ UseToken(p) \/ UseLicense(p) \/ WebClosed(p)
                                 \/ ExchangeFails(p)
       PROVE  TypeOK'
  BY <1>11 DEF UseUser, UseToken, UseLicense, WebClosed, ExchangeFails, deviceVars, userVars, history
<1>12. ASSUME NEW p \in Procs, NEW u \in Users, NEW tokens \in IssuedTokens, WebIssued(p, u, tokens)
       PROVE  TypeOK'
  <2>1. tokens \in AddressLists /\ tokens # <<>>
    <3>1. <<"service">> # <<>> /\ <<"service", "sts">> # <<>> /\ "service" \in Addresses
      BY DEF Addresses, LoginAddresses
    <3>2. QED
      BY <3>1 DEF IssuedTokens, AddressLists
  <2>2. run' = [run EXCEPT ![p].acct = u, ![p].todo = tokens] /\ pc' = [pc EXCEPT ![p] = "save"]
    BY <1>12 DEF WebIssued
  <2>3. /\ run' \in [Procs -> Runs] /\ run'[p].acct = u /\ run'[p].todo = tokens
        /\ \A q \in Procs : run'[q].cmd = run[q].cmd /\ (q # p => run'[q] = run[q])
    BY <2>1, <2>2
  <2>4. /\ user_info' = u /\ clean' \in BOOLEAN /\ written' \subseteq Procs
        /\ UNCHANGED <<license, dev_token, minted, user_tokens, serving, removed>>
    BY <1>12 DEF WebIssued, deviceVars
  <2>5. QED
    BY <2>1, <2>2, <2>3, <2>4
<1>13. ASSUME NEW p \in Procs, GetSts(p) PROVE TypeOK'
  <2>1. user_tokens["sts"] \in Users \cup {NoUser}
    BY DEF Addresses, LoginAddresses
  <2> DEFINE l == IF user_tokens["sts"] = NoUser THEN "failed" ELSE "exchange"
  <2>2. /\ pc' = [pc EXCEPT ![p] = l] /\ run' = [run EXCEPT ![p].acct = user_tokens["sts"]]
        /\ UNCHANGED <<license, dev_token, minted, user_tokens, user_info, serving, history>>
    BY <1>13 DEF GetSts, deviceVars, userVars
  <2>3. l \in {"failed", "exchange"} /\ (l = "exchange" => user_tokens["sts"] \in Users)
    BY <2>1
  <2> HIDE DEF l
  <2>4. /\ run' \in [Procs -> Runs] /\ run'[p].acct = user_tokens["sts"]
        /\ \A q \in Procs : run'[q].cmd = run[q].cmd /\ run'[q].dev = run[q].dev
        /\ \A q \in Procs : q # p => run'[q] = run[q]
    BY <2>1, <2>2
  <2>5. QED
    BY <2>2, <2>3, <2>4 DEF history
<1>14. ASSUME NEW p \in Procs, Exchanged(p) PROVE TypeOK'
  <2>1. PICK a \in Addresses : run' = [run EXCEPT ![p].todo = <<a>>]
    BY <1>14 DEF Exchanged, Addresses, LoginAddresses
  <2>2. <<a>> \in AddressLists /\ <<a>> # <<>>
    BY DEF AddressLists
  <2>3. QED
    <3>1. /\ run' \in [Procs -> Runs] /\ run'[p].todo = <<a>>
          /\ \A q \in Procs : /\ run'[q].cmd = run[q].cmd /\ run'[q].acct = run[q].acct
                              /\ q # p => run'[q] = run[q]
      BY <2>1, <2>2
    <3>2. /\ pc[p] = "exchange" /\ pc' = [pc EXCEPT ![p] = "save"]
          /\ UNCHANGED <<deviceVars, userVars, serving, history>>
      BY <1>14 DEF Exchanged
    <3>3. QED
      BY <2>2, <3>1, <3>2 DEF deviceVars, userVars, history
<1>15. ASSUME NEW p \in Procs, ReadTokens(p) PROVE TypeOK'
  BY <1>15 DEF ReadTokens, deviceVars, userVars, history
<1>16. ASSUME NEW p \in Procs, WriteTokens(p) PROVE TypeOK'
  <2> DEFINE t == run[p].todo
  <2>1. /\ Tail(t) \in AddressLists /\ Head(t) \in Addresses
        /\ Len(t) > 1 => Tail(t) # <<>>
    BY <1>16, TailOfTodo DEF WriteTokens
  <2>2. run' = [run EXCEPT ![p].todo = Tail(t), ![p].buf = NoTokens]
    BY <1>16 DEF WriteTokens
  <2>3. user_tokens' \in Tokens
    BY <1>16, <2>1 DEF WriteTokens
  <2>4. PICK l \in {"save", "done", "failed"} : /\ pc' = [pc EXCEPT ![p] = l]
                                                /\ l = "save" => Len(t) > 1
    BY <1>16 DEF WriteTokens, AfterSave
  <2> HIDE DEF t
  <2>5. /\ run' \in [Procs -> Runs] /\ run'[p].todo = Tail(t)
        /\ \A q \in Procs : /\ run'[q].cmd = run[q].cmd /\ run'[q].acct = run[q].acct
                            /\ run'[q].dev = run[q].dev
                            /\ q # p => run'[q] = run[q]
    BY <2>1, <2>2
  <2>6. UNCHANGED <<deviceVars, user_info, serving, removed, clean>> /\ written' \subseteq Procs
    BY <1>16 DEF WriteTokens
  <2>7. pc[p] = "write" /\ run[p].acct \in Users
    BY <1>16 DEF WriteTokens
  <2>8. /\ l \in Steps /\ l \notin Ensuring
        /\ run'[p].acct \in Users /\ (l = "save" => run'[p].todo # <<>>)
    BY <2>1, <2>4, <2>5, <2>7
  <2>9. /\ license' \in Devices \cup {NoDevice} /\ dev_token' \in Devices \cup {NoDevice}
        /\ minted' \subseteq Devices /\ user_info' \in Users \cup {NoUser} /\ serving' \in BOOLEAN
        /\ removed' \subseteq Procs /\ written' \subseteq Procs /\ clean' \in BOOLEAN
    BY <2>6 DEF deviceVars
  <2> HIDE DEF TypeOK, Tokens, Runs, Steps, Ensuring
  <2>10. QED
    BY <2>3, <2>4, <2>5, <2>8, <2>9, TypeStep
<1>17. ASSUME NEW p \in Procs, RemoveLicense(p) PROVE TypeOK'
  BY <1>17 DEF RemoveLicense, userVars, history
<1>18. ASSUME NEW p \in Procs, RemoveDeviceTokens(p) PROVE TypeOK'
  BY <1>18 DEF RemoveDeviceTokens, userVars
<1>19. ASSUME NEW p \in Procs, RemoveUserTokens(p) \/ RemoveUser(p) PROVE TypeOK'
  BY <1>19 DEF RemoveUserTokens, RemoveUser, deviceVars, history
<1>20. CASE UNCHANGED vars
  BY <1>20 DEF vars, deviceVars, userVars, history
<1>21. QED
  BY <1>1, <1>2, <1>3, <1>4, <1>5, <1>6, <1>7, <1>8, <1>9, <1>10, <1>11, <1>12, <1>13, <1>14,
     <1>15, <1>16, <1>17, <1>18, <1>19, <1>20 DEF Next
-----------------------------------------------------------------------------
\* A command that is ready has a token, unless it was excused.
ReadyInv ==
  \A p \in Procs : pc[p] = "ready" => dev_token # NoDevice \/ p \in removed

EnsureInv == ReadyInv /\ EnsuredIsFound

\* What matters to EnsureInv stays or is only excused.
LEMMA EnsureQuiet ==
  ASSUME TypeOK, EnsureInv, removed \subseteq removed',
         dev_token' # dev_token => dev_token' # NoDevice,
         \A q \in Procs : pc'[q] \in {"ready", "no_device_token"} => pc'[q] = pc[q]
  PROVE  EnsureInv'
BY DEF EnsureInv, ReadyInv, EnsuredIsFound

LEMMA NextEnsureInv == TypeOK /\ EnsureInv /\ [Next]_vars => EnsureInv'
<1> SUFFICES ASSUME TypeOK, EnsureInv, [Next]_vars PROVE EnsureInv'
  OBVIOUS
<1>1. pc \in [Procs -> Steps] /\ removed \subseteq Procs
  BY DEF TypeOK
<1>2. CASE StopService \/ UNCHANGED vars
  BY <1>2, EnsureQuiet DEF StopService, vars, deviceVars, history
<1>3. ASSUME NEW p \in Procs, NEW c \in Commands, Start(p, c) PROVE EnsureInv'
  BY <1>1, <1>3, EnsureQuiet DEF Start, FirstStep, Commands, deviceVars
<1>4. ASSUME NEW p \in Procs, End(p) \/ CutShort(p) PROVE EnsureInv'
  BY <1>1, <1>4 DEF End, CutShort, Leave, deviceVars, EnsureInv, ReadyInv, EnsuredIsFound
<1>5. ASSUME NEW p \in Procs, GetLicense(p) \/ GetLicenseFails(p) \/ CheckTokenFails(p)
                                \/ UseUser(p) \/ UseToken(p) \/ UseLicense(p)
                                \/ WebClosed(p) \/ GetSts(p) \/ ExchangeFails(p) \/ ReadTokens(p)
       PROVE  EnsureInv'
  BY <1>1, <1>5, EnsureQuiet
     DEF GetLicense, GetLicenseFails, CheckTokenFails, UseUser, UseToken, UseLicense, WebClosed,
         GetSts, ExchangeFails, ReadTokens, deviceVars, history
<1>6. ASSUME NEW p \in Procs, ProvisionDevice(p) \/ Exchanged(p) \/ WriteTokens(p)
                                \/ RemoveLicense(p) \/ RemoveUserTokens(p) \/ RemoveUser(p)
       PROVE  EnsureInv'
  BY <1>1, <1>6, EnsureQuiet
     DEF ProvisionDevice, Exchanged, WriteTokens, AfterSave, RemoveLicense, RemoveUserTokens,
         RemoveUser, deviceVars, history
<1>7. ASSUME NEW p \in Procs, NEW u \in Users, NEW tokens \in IssuedTokens, WebIssued(p, u, tokens)
       PROVE  EnsureInv'
  BY <1>1, <1>7, EnsureQuiet DEF WebIssued, deviceVars
<1>8. ASSUME NEW p \in Procs, CheckToken(p) PROVE EnsureInv'
  BY <1>1, <1>8 DEF CheckToken, deviceVars, history, EnsureInv, ReadyInv, EnsuredIsFound
<1>9. ASSUME NEW p \in Procs, AuthenticateDevice(p) PROVE EnsureInv'
  BY <1>1, <1>9, NamesAssumption
     DEF AuthenticateDevice, EnsureInv, ReadyInv, EnsuredIsFound, TypeOK
<1>10. ASSUME NEW p \in Procs, AuthenticateGetsNone(p) PROVE EnsureInv'
  BY <1>1, <1>10 DEF AuthenticateGetsNone, deviceVars, EnsureInv, ReadyInv, EnsuredIsFound
<1>11. ASSUME NEW p \in Procs, GetDeviceToken(p) PROVE EnsureInv'
  <2>1. AfterReady[run[p].cmd] \in {"web", "use_user", "done"}
    BY <1>11 DEF GetDeviceToken, AfterReady, TypeOK, Ensuring
  <2>2. QED
    BY <1>1, <1>11, <2>1 DEF GetDeviceToken, deviceVars, history, EnsureInv, ReadyInv, EnsuredIsFound
<1>12. ASSUME NEW p \in Procs, RemoveDeviceTokens(p) PROVE EnsureInv'
  BY <1>1, <1>12 DEF RemoveDeviceTokens, Ensuring, EnsureInv, ReadyInv, EnsuredIsFound
<1>13. QED
  BY <1>2, <1>3, <1>4, <1>5, <1>6, <1>7, <1>8, <1>9, <1>10, <1>11, <1>12 DEF Next
-----------------------------------------------------------------------------
\* How far a logout has got, which nobody has undone.
LogoutAt(p) ==
  /\ pc[p] \in {"remove_device_tokens", "remove_user_tokens", "remove_user", "logged_out"} =>
       (run[p].cmd = "logout_device" => license = NoDevice)
  /\ pc[p] \in {"remove_user_tokens", "remove_user", "logged_out"} => dev_token = NoDevice
  /\ pc[p] \in {"remove_user", "logged_out"} => user_tokens = NoTokens
  /\ pc[p] = "logged_out" => user_info = NoUser

Removing == {"remove_license", "remove_device_tokens", "remove_user_tokens", "remove_user",
             "logged_out"}

LogoutInv ==
  \A p \in Procs : /\ pc[p] \in Removing => LoggingOut(p)
                   /\ p \notin written => LogoutAt(p)

\* A step that writes no entry, of a process that is not logging out.
LEMMA LogoutQuiet ==
  ASSUME LogoutInv, UNCHANGED <<license, dev_token, user_tokens, user_info, written>>,
         \A q \in Procs : pc'[q] \in Removing => pc'[q] = pc[q] /\ run'[q].cmd = run[q].cmd
  PROVE  LogoutInv'
BY DEF LogoutInv, LogoutAt, LoggingOut, Removing

\* A step that writes an entry, of a process that is not logging out.
LEMMA LogoutWritten ==
  ASSUME LogoutInv, NEW p \in Procs, Wrote(p),
         \A q \in Procs \ {p} : pc'[q] = pc[q] /\ run'[q] = run[q],
         pc'[p] \notin Removing
  PROVE  LogoutInv'
BY DEF LogoutInv, LogoutAt, LoggingOut, Removing

LEMMA NextLogoutInv == TypeOK /\ LogoutInv /\ [Next]_vars => LogoutInv'
<1> SUFFICES ASSUME TypeOK, LogoutInv, [Next]_vars PROVE LogoutInv'
  OBVIOUS
<1>1. pc \in [Procs -> Steps] /\ run \in [Procs -> Runs]
  BY DEF TypeOK
<1>2. CASE StopService \/ UNCHANGED vars
  BY <1>2, LogoutQuiet DEF StopService, vars, deviceVars, userVars, history
<1>3. ASSUME NEW p \in Procs, NEW c \in Commands, Start(p, c) PROVE LogoutInv'
  <2>1. /\ pc' = [pc EXCEPT ![p] = FirstStep[c]] /\ run' = [run EXCEPT ![p].cmd = c]
        /\ UNCHANGED <<license, dev_token, user_tokens, user_info, written>>
    BY <1>3 DEF Start, deviceVars, userVars
  <2>2. CASE c = "logout"
    BY <1>1, <2>1, <2>2 DEF FirstStep, LogoutInv, LogoutAt, LoggingOut, Removing, Runs
  <2>3. CASE c # "logout"
    BY <1>1, <2>1, <2>3 DEF FirstStep, LogoutInv, LogoutAt, LoggingOut, Removing, Runs, Commands
  <2>4. QED
    BY <2>2, <2>3
<1>4. ASSUME NEW p \in Procs, End(p) \/ CutShort(p) PROVE LogoutInv'
  BY <1>1, <1>4 DEF End, CutShort, Leave, deviceVars, userVars, LogoutInv, LogoutAt, LoggingOut, Removing
<1>5. ASSUME NEW p \in Procs, GetLicense(p) \/ GetLicenseFails(p) \/ CheckToken(p)
                                \/ CheckTokenFails(p) \/ UseUser(p) \/ UseToken(p)
                                \/ UseLicense(p) \/ WebClosed(p) \/ GetSts(p) \/ ExchangeFails(p)
                                \/ ReadTokens(p) \/ AuthenticateGetsNone(p)
       PROVE  LogoutInv'
  BY <1>1, <1>5, LogoutQuiet
     DEF GetLicense, GetLicenseFails, CheckToken, CheckTokenFails, UseUser, UseToken, UseLicense,
         WebClosed, GetSts, ExchangeFails,
         ReadTokens, AuthenticateGetsNone, deviceVars, userVars, history, Removing, Runs
<1>6. ASSUME NEW p \in Procs, Exchanged(p) PROVE LogoutInv'
  BY <1>1, <1>6, LogoutQuiet DEF Exchanged, deviceVars, userVars, history, Removing, Runs
<1>7. ASSUME NEW p \in Procs, GetDeviceToken(p) PROVE LogoutInv'
  <2>1. AfterReady[run[p].cmd] \in {"web", "use_user", "done"}
    BY <1>7 DEF GetDeviceToken, AfterReady, TypeOK, Ensuring
  <2>2. QED
    BY <1>1, <1>7, <2>1, LogoutQuiet
       DEF GetDeviceToken, deviceVars, userVars, history, Removing, Runs
<1>8. ASSUME NEW p \in Procs, ProvisionDevice(p) \/ AuthenticateDevice(p) \/ WriteTokens(p)
       PROVE  LogoutInv'
  BY <1>1, <1>8, LogoutWritten DEF ProvisionDevice, AuthenticateDevice, WriteTokens, AfterSave, Removing
<1>9. ASSUME NEW p \in Procs, NEW u \in Users, NEW tokens \in IssuedTokens, WebIssued(p, u, tokens)
       PROVE  LogoutInv'
  BY <1>1, <1>9, LogoutWritten DEF WebIssued, Removing
<1>10. ASSUME NEW p \in Procs, RemoveLicense(p) PROVE LogoutInv'
  BY <1>1, <1>10 DEF RemoveLicense, userVars, history, LogoutInv, LogoutAt, LoggingOut, Removing
<1>11. ASSUME NEW p \in Procs, RemoveDeviceTokens(p) PROVE LogoutInv'
  BY <1>1, <1>11 DEF RemoveDeviceTokens, userVars, LogoutInv, LogoutAt, LoggingOut, Removing
<1>12. ASSUME NEW p \in Procs, RemoveUserTokens(p) PROVE LogoutInv'
  BY <1>1, <1>12 DEF RemoveUserTokens, deviceVars, history, LogoutInv, LogoutAt, LoggingOut, Removing
<1>13. ASSUME NEW p \in Procs, RemoveUser(p) PROVE LogoutInv'
  BY <1>1, <1>13 DEF RemoveUser, deviceVars, history, LogoutInv, LogoutAt, LoggingOut, Removing
<1>14. QED
  BY <1>2, <1>3, <1>4, <1>5, <1>6, <1>7, <1>8, <1>9, <1>10, <1>11, <1>12, <1>13 DEF Next
-----------------------------------------------------------------------------
\* What a command that runs alone knows of the store.
Knows(p) ==
  /\ pc[p] = "provision" => license = NoDevice
  /\ pc[p] \in {"check_token", "authenticate"} => run[p].dev = license
  /\ pc[p] \in {"exchange", "save", "write"} => run[p].acct = user_info
  /\ pc[p] = "write" => run[p].buf = user_tokens
  /\ pc[p] = "remove_user" => user_tokens = NoTokens
  /\ pc[p] = "web" => dev_token # NoDevice
  /\ pc[p] \in {"authenticate", "remove_user_tokens", "remove_user"} => dev_token = NoDevice

\* The store agrees, up to what p is about to save or to remove.
DeviceAgrees(p) ==
  /\ dev_token \in {NoDevice, license} \/ pc[p] = "remove_device_tokens"
  /\ dev_token = NoDevice => user_info = NoUser \/ pc[p] \in {"remove_user_tokens", "remove_user"}

UserAgrees(p) ==
  /\ \A a \in LoginAddresses :
       user_tokens[a] = user_info \/ AwaitsSave(p, a) \/ pc[p] = "remove_user"
  /\ user_info = NoUser => user_tokens = NoTokens

\* The store agrees up to what the only process that runs, if any, is about to
\* do; every idle process can be taken for it.
AgreesUpTo(p) ==
  (\A q \in Procs \ {p} : pc[q] = "idle") => Knows(p) /\ DeviceAgrees(p) /\ UserAgrees(p)

CleanInv ==
  clean => /\ \A p, q \in Procs : pc[p] # "idle" /\ pc[q] # "idle" => p = q
           /\ \A p \in Procs : AgreesUpTo(p)

\* A process that runs while clean is alone.
LEMMA CleanRuns ==
  ASSUME CleanInv, clean, NEW p \in Procs, pc[p] # "idle"
  PROVE  Others(p) = {} /\ Knows(p) /\ DeviceAgrees(p) /\ UserAgrees(p)
BY DEF CleanInv, AgreesUpTo

\* To preserve CleanInv a step of p alone has to preserve what concerns p.
LEMMA CleanStep ==
  ASSUME TypeOK, NEW p \in Procs, NEW l \in Steps, pc' = [pc EXCEPT ![p] = l],
         clean' => Others(p) = {},
         clean' => Knows(p)' /\ DeviceAgrees(p)' /\ UserAgrees(p)'
  PROVE  CleanInv'
<1> SUFFICES ASSUME clean' PROVE CleanInv'
  BY DEF CleanInv
<1>1. /\ pc'[p] = l
      /\ \A q \in Procs \ {p} : pc'[q] = "idle"
  BY DEF TypeOK
<1>2. ASSUME NEW q \in Procs, \A r \in Procs \ {q} : pc'[r] = "idle"
      PROVE  Knows(q)' /\ DeviceAgrees(q)' /\ UserAgrees(q)'
  <2>1. CASE q = p
    BY <2>1
  <2>2. CASE q # p
    <3>1. pc'[p] = "idle" /\ pc'[q] = "idle"
      BY <1>1, <1>2, <2>2
    <3>2. Knows(q)'
      BY <3>1 DEF Knows
    <3>3. DeviceAgrees(q)'
      BY <3>1 DEF DeviceAgrees
    <3>4. UserAgrees(q)'
      BY <3>1 DEF UserAgrees, AwaitsSave
    <3>5. QED
      BY <3>2, <3>3, <3>4
  <2>3. QED
    BY <2>1, <2>2
<1>3. \A q \in Procs : AgreesUpTo(q)'
  BY <1>2 DEF AgreesUpTo
<1>4. QED
  BY <1>1, <1>3 DEF CleanInv

LEMMA NextCleanInv == TypeOK /\ CleanInv /\ [Next]_vars => CleanInv'
<1> SUFFICES ASSUME TypeOK, CleanInv, [Next]_vars PROVE CleanInv'
  OBVIOUS
<1>1. /\ pc \in [Procs -> Steps] /\ run \in [Procs -> Runs]
      /\ user_tokens \in [Addresses -> Users \cup {NoUser}]
  BY DEF TypeOK, Tokens
<1>2. CASE StopService \/ UNCHANGED vars
  <2>1. UNCHANGED <<license, dev_token, user_tokens, user_info, pc, run, clean>>
    BY <1>2 DEF StopService, vars, deviceVars, userVars, history
  <2>2. ASSUME NEW p \in Procs PROVE AgreesUpTo(p)' <=> AgreesUpTo(p)
    BY <2>1 DEF AgreesUpTo, Knows, DeviceAgrees, UserAgrees, AwaitsSave
  <2>3. QED
    BY <2>1, <2>2 DEF CleanInv
<1>3. ASSUME NEW p \in Procs, NEW c \in Commands, Start(p, c) PROVE CleanInv'
  <2>1. FirstStep[c] \in {"get_license", "get_sts", "remove_device_tokens", "remove_license"}
    BY DEF FirstStep, Commands
  <2>2. /\ pc[p] = "idle" /\ pc' = [pc EXCEPT ![p] = FirstStep[c]]
        /\ clean' = (clean /\ Others(p) = {}) /\ run' = [run EXCEPT ![p].cmd = c]
        /\ UNCHANGED <<license, dev_token, user_tokens, user_info>>
    BY <1>3 DEF Start, deviceVars, userVars
  <2>3. ASSUME clean' PROVE Knows(p)' /\ DeviceAgrees(p)' /\ UserAgrees(p)'
    <3>1. Knows(p) /\ DeviceAgrees(p) /\ UserAgrees(p)
      BY <2>2, <2>3 DEF CleanInv, AgreesUpTo
    <3>2. pc'[p] = FirstStep[c]
      BY <1>1, <2>2
    <3>3. Knows(p)'
      BY <2>1, <3>2 DEF Knows
    <3>4. DeviceAgrees(p)' /\ UserAgrees(p)'
      BY <2>2, <3>1 DEF DeviceAgrees, UserAgrees, AwaitsSave
    <3>5. QED
      BY <3>3, <3>4
  <2>4. FirstStep[c] \in Steps
    BY <2>1 DEF Steps, Ensuring
  <2>5. QED
    BY <2>2, <2>3, <2>4, CleanStep
<1>4. ASSUME NEW p \in Procs, End(p) PROVE CleanInv'
  <2>1. /\ pc[p] \in Ended /\ pc' = [pc EXCEPT ![p] = "idle"]
        /\ UNCHANGED <<license, dev_token, user_tokens, user_info, clean>>
    BY <1>4 DEF End, Leave, deviceVars, userVars
  <2>2. pc'[p] = "idle" /\ "idle" \in Steps
    BY <1>1, <2>1 DEF Steps
  <2>3. ASSUME clean PROVE Others(p) = {} /\ Knows(p) /\ DeviceAgrees(p) /\ UserAgrees(p)
    BY <2>1, <2>3, CleanRuns DEF Ended
  <2>4. clean => Knows(p)' /\ DeviceAgrees(p)' /\ UserAgrees(p)'
    BY <2>1, <2>2, <2>3 DEF Ended, Knows, DeviceAgrees, UserAgrees, AwaitsSave
  <2>5. QED
    BY <2>1, <2>2, <2>3, <2>4, CleanStep
<1>5. ASSUME NEW p \in Procs, CutShort(p) \/ GetLicenseFails(p) \/ CheckTokenFails(p)
      PROVE  CleanInv'
  BY <1>5 DEF CutShort, GetLicenseFails, CheckTokenFails, CleanInv
\* The steps of a command: it is alone, and clean stays as it is.
<1>6. ASSUME NEW p \in Procs, NEW l \in Steps, pc[p] # "idle", pc' = [pc EXCEPT ![p] = l],
             clean' => clean,
             clean' /\ Knows(p) /\ DeviceAgrees(p) /\ UserAgrees(p)
               => Knows(p)' /\ DeviceAgrees(p)' /\ UserAgrees(p)'
      PROVE  CleanInv'
  <2>1. clean' => Others(p) = {} /\ Knows(p) /\ DeviceAgrees(p) /\ UserAgrees(p)
    BY <1>6, CleanRuns
  <2>2. QED
    BY <1>6, <2>1, CleanStep
<1> USE DEF Steps, Ensuring, Ended
\* Steps that write nothing and learn at most what they have just read.
<1>7. ASSUME NEW p \in Procs,
             NEW l \in Steps \ {"exchange", "save", "write", "remove_user_tokens", "remove_user"},
             pc[p] \notin {"idle", "save", "write", "remove_device_tokens", "remove_user_tokens",
                            "remove_user"},
             pc' = [pc EXCEPT ![p] = l],
             UNCHANGED <<license, dev_token, user_tokens, user_info, clean>>,
             l = "provision" => license = NoDevice,
             l \in {"check_token", "authenticate"} => run'[p].dev = license,
             l = "authenticate" => dev_token = NoDevice,
             l = "web" => dev_token # NoDevice
      PROVE  CleanInv'
  <2>1. pc'[p] = l
    BY <1>1, <1>7
  <2>2. Knows(p)'
    BY <1>7, <2>1 DEF Knows
  <2>3. DeviceAgrees(p) /\ UserAgrees(p) => DeviceAgrees(p)' /\ UserAgrees(p)'
    BY <1>7, <2>1 DEF DeviceAgrees, UserAgrees, AwaitsSave
  <2>4. QED
    BY <1>6, <1>7, <2>2, <2>3
<1>8. ASSUME NEW p \in Procs, GetLicense(p) PROVE CleanInv'
  <2>1. /\ run'[p].dev = license
        /\ pc[p] = "get_license" /\ UNCHANGED <<deviceVars, userVars, history>>
        /\ pc' = [pc EXCEPT ![p] = IF license = NoDevice THEN "provision" ELSE "check_token"]
    BY <1>1, <1>8 DEF GetLicense, Runs
  <2>2. QED
    BY <1>7, <2>1 DEF deviceVars, userVars, history
<1>9. ASSUME NEW p \in Procs, CheckToken(p) PROVE CleanInv'
  <2>1. /\ pc[p] = "check_token" /\ UNCHANGED <<deviceVars, userVars, run, history>>
        /\ pc' = [pc EXCEPT ![p] = IF dev_token = NoDevice THEN "authenticate" ELSE "ready"]
    BY <1>9 DEF CheckToken
  <2>2. clean => run[p].dev = license
    BY <2>1, CleanRuns DEF Knows
  <2>3. CASE clean
    BY <1>7, <2>1, <2>2, <2>3 DEF deviceVars, userVars, history
  <2>4. CASE ~clean
    BY <2>1, <2>4 DEF CleanInv, history
  <2>5. QED
    BY <2>3, <2>4
<1>10. ASSUME NEW p \in Procs, AuthenticateGetsNone(p) PROVE CleanInv'
  BY <1>7, <1>10 DEF AuthenticateGetsNone, deviceVars, userVars
<1>11. ASSUME NEW p \in Procs, GetDeviceToken(p) PROVE CleanInv'
  <2>1. AfterReady[run[p].cmd] \in {"web", "use_user", "done"}
    BY <1>11 DEF GetDeviceToken, AfterReady, TypeOK
  <2>2. QED
    BY <1>7, <1>11, <2>1 DEF GetDeviceToken, deviceVars, userVars, history
<1>12. ASSUME NEW p \in Procs, UseUser(p) \/ UseToken(p) \/ UseLicense(p) \/ WebClosed(p)
                                  \/ ExchangeFails(p)
       PROVE  CleanInv'
  BY <1>7, <1>12
     DEF UseUser, UseToken, UseLicense, WebClosed, ExchangeFails, deviceVars, userVars, history
<1>13. ASSUME NEW p \in Procs, ProvisionDevice(p) PROVE CleanInv'
  <2>1. PICK d \in Devices \ minted : license' = d /\ run' = [run EXCEPT ![p].dev = d]
    BY <1>13 DEF ProvisionDevice
  <2>2. /\ pc[p] = "provision" /\ pc' = [pc EXCEPT ![p] = "authenticate"]
        /\ UNCHANGED <<dev_token, user_tokens, user_info, clean>>
    BY <1>13 DEF ProvisionDevice, userVars
  <2>3. pc'[p] = "authenticate" /\ run'[p].dev = license'
    BY <1>1, <2>1, <2>2 DEF Runs
  <2>4. Knows(p) /\ DeviceAgrees(p) => DeviceAgrees(p)'
    BY <2>2 DEF Knows, DeviceAgrees
  <2>5. UserAgrees(p) => UserAgrees(p)'
    BY <2>2 DEF UserAgrees, AwaitsSave
  <2>6. Knows(p) /\ DeviceAgrees(p) => Knows(p)'
    BY <2>2, <2>3 DEF Knows, DeviceAgrees
  <2>7. QED
    BY <1>6, <2>2, <2>4, <2>5, <2>6
<1>14. ASSUME NEW p \in Procs, AuthenticateDevice(p) PROVE CleanInv'
  <2>1. /\ pc[p] = "authenticate" /\ pc' = [pc EXCEPT ![p] = "ready"] /\ dev_token' = run[p].dev
        /\ UNCHANGED <<license, user_tokens, user_info, clean>>
    BY <1>14 DEF AuthenticateDevice, userVars
  <2>2. pc'[p] = "ready"
    BY <1>1, <2>1
  <2>3. run[p].dev # NoDevice
    BY <2>1, NamesAssumption DEF TypeOK
  <2>4. Knows(p)' /\ (Knows(p) => DeviceAgrees(p)')
    BY <2>1, <2>2, <2>3 DEF Knows, DeviceAgrees
  <2>5. UserAgrees(p) => UserAgrees(p)'
    BY <2>1 DEF UserAgrees, AwaitsSave
  <2>6. QED
    BY <1>6, <2>1, <2>4, <2>5
<1>15. ASSUME NEW p \in Procs, NEW u \in Users, NEW tokens \in IssuedTokens, WebIssued(p, u, tokens)
       PROVE  CleanInv'
  <2>1. /\ pc[p] = "web" /\ pc' = [pc EXCEPT ![p] = "save"] /\ user_info' = u
        /\ run' = [run EXCEPT ![p].acct = u, ![p].todo = tokens]
        /\ clean' = (clean /\ tokens = <<"service", "sts">>)
        /\ UNCHANGED <<license, dev_token, user_tokens>>
    BY <1>15 DEF WebIssued, deviceVars
  <2>2. pc'[p] = "save" /\ run'[p].acct = u /\ run'[p].todo = tokens
    BY <1>1, <2>1 DEF Runs
  <2>3. Knows(p)'
    BY <2>1, <2>2 DEF Knows
  <2>4. Knows(p) /\ DeviceAgrees(p) => DeviceAgrees(p)'
    BY <2>1 DEF Knows, DeviceAgrees
  <2>5. ASSUME tokens = <<"service", "sts">> PROVE UserAgrees(p)'
    <3>1. 1 \in DOMAIN tokens /\ 2 \in DOMAIN tokens /\ tokens[1] = "service" /\ tokens[2] = "sts"
      BY <2>5
    <3>2. user_info' # NoUser
      BY <2>1, NamesAssumption
    <3>3. QED
      BY <2>2, <3>1, <3>2 DEF UserAgrees, AwaitsSave, LoginAddresses
  <2>6. QED
    BY <1>6, <2>1, <2>3, <2>4, <2>5
<1>16. ASSUME NEW p \in Procs, GetSts(p) PROVE CleanInv'
  <2>1. /\ pc[p] = "get_sts" /\ UNCHANGED <<license, dev_token, user_tokens, user_info, clean>>
        /\ pc' = [pc EXCEPT ![p] = IF user_tokens["sts"] = NoUser THEN "failed" ELSE "exchange"]
        /\ run' = [run EXCEPT ![p].acct = user_tokens["sts"]]
    BY <1>16 DEF GetSts, deviceVars, userVars, history
  <2>2. pc'[p] \in {"failed", "exchange"} /\ (pc'[p] = "exchange" => user_tokens["sts"] # NoUser)
    BY <1>1, <2>1
  <2>3. run'[p].acct = user_tokens["sts"]
    BY <1>1, <2>1 DEF Runs
  <2>4. DeviceAgrees(p) /\ UserAgrees(p) => DeviceAgrees(p)' /\ UserAgrees(p)'
    BY <2>1 DEF DeviceAgrees, UserAgrees, AwaitsSave
  <2>5. UserAgrees(p) => user_tokens["sts"] = user_info
    BY <2>1 DEF UserAgrees, AwaitsSave, LoginAddresses
  <2>6. UserAgrees(p) => Knows(p)'
    BY <2>1, <2>2, <2>3, <2>5 DEF Knows
  <2>7. QED
    BY <1>6, <2>1, <2>4, <2>6
<1>17. ASSUME NEW p \in Procs, Exchanged(p) PROVE CleanInv'
  <2>1. PICK a \in Addresses : run' = [run EXCEPT ![p].todo = <<a>>]
    BY <1>17 DEF Exchanged, Addresses, LoginAddresses
  <2>2. /\ pc[p] = "exchange" /\ pc' = [pc EXCEPT ![p] = "save"]
        /\ UNCHANGED <<license, dev_token, user_tokens, user_info, clean>>
    BY <1>17 DEF Exchanged, deviceVars, userVars, history
  <2>3. pc'[p] = "save" /\ run'[p].acct = run[p].acct
    BY <1>1, <2>1, <2>2 DEF Runs
  <2>4. Knows(p) => Knows(p)'
    BY <2>2, <2>3 DEF Knows
  <2>5. DeviceAgrees(p) /\ UserAgrees(p) => DeviceAgrees(p)' /\ UserAgrees(p)'
    BY <2>2 DEF DeviceAgrees, UserAgrees, AwaitsSave
  <2>6. QED
    BY <1>6, <2>2, <2>4, <2>5
<1>18. ASSUME NEW p \in Procs, ReadTokens(p) PROVE CleanInv'
  <2>1. /\ pc[p] = "save" /\ pc' = [pc EXCEPT ![p] = "write"]
        /\ run' = [run EXCEPT ![p].buf = user_tokens]
        /\ UNCHANGED <<license, dev_token, user_tokens, user_info, clean>>
    BY <1>18 DEF ReadTokens, deviceVars, userVars, history
  <2>2. /\ pc'[p] = "write" /\ run'[p].acct = run[p].acct
        /\ run'[p].todo = run[p].todo /\ run'[p].buf = user_tokens
    BY <1>1, <2>1 DEF Runs
  <2>3. Knows(p) => Knows(p)'
    BY <2>1, <2>2 DEF Knows
  <2>4. DeviceAgrees(p) /\ UserAgrees(p) => DeviceAgrees(p)' /\ UserAgrees(p)'
    BY <2>1, <2>2 DEF DeviceAgrees, UserAgrees, AwaitsSave
  <2>5. QED
    BY <1>6, <2>1, <2>3, <2>4
<1>19. ASSUME NEW p \in Procs, WriteTokens(p) PROVE CleanInv'
  <2> DEFINE t == run[p].todo
             h == Head(t)
  <2>1. t \in AddressLists /\ t # <<>>
    BY <1>19 DEF WriteTokens, TypeOK, Runs
  <2>2. /\ pc[p] = "write" /\ run[p].acct \in Users
        /\ user_tokens' = [run[p].buf EXCEPT ![h] = run[p].acct]
        /\ run' = [run EXCEPT ![p].todo = Tail(t), ![p].buf = NoTokens]
        /\ UNCHANGED <<license, dev_token, user_info, clean>>
    BY <1>19 DEF WriteTokens, deviceVars, TypeOK
  <2>3. PICK l \in {"save", "done", "failed"} : /\ pc' = [pc EXCEPT ![p] = l]
                                                /\ Len(t) > 1 => l = "save"
    BY <1>19 DEF WriteTokens, AfterSave
  <2> HIDE DEF t, h
  <2>4. /\ pc'[p] = l /\ run'[p].todo = Tail(t) /\ run'[p].acct = run[p].acct
    BY <1>1, <2>2, <2>3 DEF Runs
  <2>5. Knows(p) => Knows(p)'
    <3>1. pc'[p] \in {"save", "done", "failed"} /\ run'[p].acct = run[p].acct
      BY <2>4
    <3>2. pc[p] = "write" /\ user_info' = user_info
      BY <2>2
    <3>3. QED
      BY <3>1, <3>2 DEF Knows
  <2>6. DeviceAgrees(p) => DeviceAgrees(p)'
    BY <2>2 DEF DeviceAgrees
  <2>7. Knows(p) /\ UserAgrees(p) => UserAgrees(p)'
    <3>1. Knows(p) => user_info # NoUser
      BY <2>2, NamesAssumption DEF Knows
    <3> SUFFICES ASSUME Knows(p), UserAgrees(p), NEW a \in LoginAddresses
                 PROVE  user_tokens'[a] = user_info' \/ AwaitsSave(p, a)'
      BY <2>2, <3>1 DEF UserAgrees
    <3>2. user_tokens' = [user_tokens EXCEPT ![h] = user_info] /\ a \in Addresses
      BY <2>2 DEF Knows, Addresses
    <3>3. CASE a = h
      BY <1>1, <2>2, <3>2, <3>3
    <3>4. CASE a # h /\ user_tokens[a] = user_info
      BY <1>1, <2>2, <3>2, <3>4
    <3>5. CASE a # h /\ AwaitsSave(p, a)
      <4>1. PICK i \in DOMAIN t : t[i] = a
        BY <3>5 DEF AwaitsSave, t
      <4>2. t = <<"service", "sts">> /\ a = "sts"
        BY <2>1, <3>5, <4>1 DEF AddressLists, h
      <4>3. Len(t) > 1 /\ 1 \in DOMAIN Tail(t) /\ Tail(t)[1] = a
        BY <4>2
      <4>4. QED
        BY <2>4, <2>3, <4>3 DEF AwaitsSave
    <3>6. QED
      BY <2>2, <3>3, <3>4, <3>5 DEF UserAgrees
  <2>8. QED
    BY <1>6, <2>2, <2>5, <2>6, <2>7, <2>3
<1>20. ASSUME NEW p \in Procs, RemoveLicense(p) PROVE CleanInv'
  <2>1. /\ pc[p] = "remove_license" /\ license' = NoDevice
        /\ pc' = [pc EXCEPT ![p] = IF license = NoDevice THEN "failed" ELSE "remove_device_tokens"]
        /\ UNCHANGED <<dev_token, user_tokens, user_info, clean>>
    BY <1>20 DEF RemoveLicense, userVars, history
  <2>2. pc'[p] = IF license = NoDevice THEN "failed" ELSE "remove_device_tokens"
    BY <1>1, <2>1
  <2>3. Knows(p)'
    BY <2>2 DEF Knows
  <2>4. DeviceAgrees(p) => DeviceAgrees(p)'
    BY <2>1, <2>2 DEF DeviceAgrees
  <2>5. UserAgrees(p) => UserAgrees(p)'
    BY <2>1 DEF UserAgrees, AwaitsSave
  <2>6. QED
    BY <1>6, <2>1, <2>3, <2>4, <2>5
<1>21. ASSUME NEW p \in Procs, RemoveDeviceTokens(p) PROVE CleanInv'
  <2>1. /\ pc[p] = "remove_device_tokens" /\ dev_token' = NoDevice
        /\ pc' = [pc EXCEPT ![p] = IF dev_token = NoDevice THEN "failed" ELSE "remove_user_tokens"]
        /\ UNCHANGED <<license, user_tokens, user_info, clean>>
    BY <1>21 DEF RemoveDeviceTokens, userVars
  <2>2. pc'[p] = IF dev_token = NoDevice THEN "failed" ELSE "remove_user_tokens"
    BY <1>1, <2>1
  <2>3. Knows(p)' /\ (DeviceAgrees(p) => DeviceAgrees(p)')
    BY <2>1, <2>2 DEF Knows, DeviceAgrees
  <2>4. UserAgrees(p) => UserAgrees(p)'
    BY <2>1 DEF UserAgrees, AwaitsSave
  <2>5. QED
    BY <1>6, <2>1, <2>3, <2>4
<1>22. ASSUME NEW p \in Procs, RemoveUserTokens(p) PROVE CleanInv'
  <2>1. /\ pc[p] = "remove_user_tokens" /\ user_tokens' = NoTokens
        /\ pc' = [pc EXCEPT ![p] = IF user_tokens = NoTokens THEN "failed" ELSE "remove_user"]
        /\ UNCHANGED <<license, dev_token, user_info, clean>>
    BY <1>22 DEF RemoveUserTokens, deviceVars, history
  <2>2. pc'[p] = IF user_tokens = NoTokens THEN "failed" ELSE "remove_user"
    BY <1>1, <2>1
  <2>3. ASSUME UserAgrees(p), user_tokens = NoTokens PROVE user_info = NoUser
    BY <2>1, <2>3 DEF UserAgrees, AwaitsSave, Addresses, LoginAddresses
  <2>4. Knows(p) => Knows(p)'
    BY <2>1, <2>2 DEF Knows
  <2>5. UserAgrees(p) => UserAgrees(p)'
    BY <2>1, <2>2, <2>3 DEF UserAgrees, Addresses
  <2>6. DeviceAgrees(p) /\ UserAgrees(p) => DeviceAgrees(p)'
    BY <2>1, <2>2, <2>3 DEF DeviceAgrees
  <2>7. QED
    BY <1>6, <2>1, <2>4, <2>5, <2>6
<1>23. ASSUME NEW p \in Procs, RemoveUser(p) PROVE CleanInv'
  <2>1. /\ pc[p] = "remove_user" /\ user_info' = NoUser
        /\ pc' = [pc EXCEPT ![p] = IF user_info = NoUser THEN "failed" ELSE "logged_out"]
        /\ UNCHANGED <<license, dev_token, user_tokens, clean>>
    BY <1>23 DEF RemoveUser, deviceVars, history
  <2>2. pc'[p] \in {"failed", "logged_out"}
    BY <1>1, <2>1
  <2>3. Knows(p)' /\ (Knows(p) => UserAgrees(p)')
    BY <2>1, <2>2 DEF Knows, UserAgrees, Addresses
  <2>4. DeviceAgrees(p) => DeviceAgrees(p)'
    BY <2>1 DEF DeviceAgrees
  <2>5. QED
    BY <1>6, <2>1, <2>3, <2>4
<1>24. QED
  BY <1>2, <1>3, <1>4, <1>5, <1>8, <1>9, <1>10, <1>11, <1>12, <1>13, <1>14, <1>15, <1>16, <1>17,
     <1>18, <1>19, <1>20, <1>21, <1>22, <1>23 DEF Next
-----------------------------------------------------------------------------
LEMMA InitInvs == Init => TypeOK /\ EnsureInv /\ LogoutInv /\ CleanInv /\ StoreAgrees
<1> SUFFICES ASSUME Init PROVE TypeOK /\ EnsureInv /\ LogoutInv /\ CleanInv /\ StoreAgrees
  OBVIOUS
<1>1. pc = [p \in Procs |-> "idle"] /\ run = [p \in Procs |-> NoRun]
  BY DEF Init
<1>2. TypeOK
  <2>1. NoTokens \in Tokens
    BY DEF Tokens
  <2>2. NoRun \in Runs
    BY <2>1 DEF Runs, NoRun, Commands, AddressLists
  <2>3. run \in [Procs -> Runs]
    BY <1>1, <2>2
  <2>4. /\ pc \in [Procs -> Steps]
        /\ \A p \in Procs : pc[p] = "idle"
    BY <1>1 DEF Steps
  <2>5. user_tokens \in Tokens
    BY <2>1 DEF Init
  <2>6. QED
    BY <2>3, <2>4, <2>5 DEF Init, TypeOK, Ensuring
<1>3. EnsureInv /\ LogoutInv
  BY <1>1 DEF EnsureInv, ReadyInv, EnsuredIsFound, LogoutInv, LogoutAt, Removing
<1>4. CleanInv /\ StoreAgrees
  BY <1>1 DEF Init, CleanInv, AgreesUpTo, Knows, DeviceAgrees, UserAgrees, AwaitsSave, StoreAgrees,
             Addresses
<1>5. QED
  BY <1>2, <1>3, <1>4

\* StoreAgrees follows from CleanInv where there is a process to take it for.
LEMMA NextStoreAgrees == TypeOK /\ CleanInv' /\ StoreAgrees /\ [Next]_vars => StoreAgrees'
<1> SUFFICES ASSUME TypeOK, CleanInv', StoreAgrees, [Next]_vars PROVE StoreAgrees'
  OBVIOUS
<1>1. ASSUME NEW p \in Procs PROVE StoreAgrees'
  BY <1>1 DEF CleanInv, AgreesUpTo, DeviceAgrees, UserAgrees, AwaitsSave, StoreAgrees
<1>2. CASE StopService \/ UNCHANGED vars
  BY <1>2 DEF StopService, vars, deviceVars, userVars, history, StoreAgrees
<1>3. QED
  BY <1>1, <1>2 DEF Next

\* The type invariant of the keychain, the processes and the history.
THEOREM TypeCorrect == Spec => []TypeOK
BY InitInvs, NextTypeOK, PTL DEF Spec

\* A command that made sure of the device's credentials finds a token, whatever
\* the other processes do but log out.
THEOREM EnsuredCorrect == Spec => []EnsuredIsFound
<1>1. EnsureInv => EnsuredIsFound
  BY DEF EnsureInv
<1>2. QED
  BY <1>1, InitInvs, TypeCorrect, NextEnsureInv, PTL DEF Spec

\* A logout that reports success has left nothing, unless others wrote.
THEOREM LogoutCorrect == Spec => []LogoutRemovesAll
<1>1. LogoutInv => LogoutRemovesAll
  BY DEF LogoutInv, LogoutAt, LogoutRemovesAll
<1>2. QED
  BY <1>1, InitInvs, TypeCorrect, NextLogoutInv, PTL DEF Spec

\* What is stored belongs together after commands that ran one at a time.
THEOREM StoreCorrect == Spec => []StoreAgrees
BY InitInvs, TypeCorrect, NextCleanInv, NextStoreAgrees, PTL DEF Spec
-----------------------------------------------------------------------------
\* While commands run alone, the tokens that are seen at the addresses of a login
\* are the seen user's, and without a user none is seen.
Alone == clean /\ \E p \in Procs : \A q \in Procs \ {p} : pc[q] = "idle"

TokensSeen ==
  /\ \A a \in LoginAddresses : SeenTokens[a] = SeenUser
  /\ SeenUser = NoUser => SeenTokens = NoTokens

LEMMA TokensOfSeenUser == CleanInv /\ Alone => TokensSeen
<1> SUFFICES ASSUME CleanInv, clean, NEW p \in Procs, \A q \in Procs \ {p} : pc[q] = "idle"
             PROVE  TokensSeen
  BY DEF Alone
<1>1. Knows(p) /\ UserAgrees(p)
  BY DEF CleanInv, AgreesUpTo
<1>2. CASE Authenticated
  <2>1. pc[p] # "remove_user"
    BY <1>1, <1>2 DEF Knows, Authenticated
  <2>2. \A a \in LoginAddresses : TokenAt(a) = user_info
    BY <1>1, <2>1 DEF UserAgrees, TokenAt
  <2>3. user_info = NoUser => \A a \in Addresses : TokenAt(a) = NoUser
    BY <1>1 DEF UserAgrees, TokenAt
  <2>4. QED
    BY <1>2, <2>2, <2>3 DEF TokensSeen, SeenTokens, SeenUser, Addresses
<1>3. CASE ~Authenticated
  BY <1>3 DEF TokensSeen, SeenTokens, SeenUser, Addresses
<1>4. QED
  BY <1>2, <1>3

\* What is seen at an address that only requests ask for stays if no save begins
\* or ends.
LEMMA TokenStays ==
  ASSUME NEW p \in Procs, \A q \in Procs \ {p} : pc[q] = "idle" /\ pc'[q] = "idle",
         pc[p] \notin {"save", "write"}, pc'[p] \notin {"save", "write"},
         UNCHANGED <<user_tokens, user_info>>, NEW a \in Addresses
  PROVE  TokenAt(a)' = TokenAt(a)
BY DEF TokenAt, AwaitsSave

\* A step while commands run alone is one of the store, or is not seen.
LEMMA StoreStep ==
  ASSUME TypeOK, CleanInv, CleanInv', [Next]_vars, clean'
  PROVE  [Store!Next]_(Store!vars)
<1>1. /\ pc \in [Procs -> Steps] /\ run \in [Procs -> Runs]
      /\ user_tokens \in [Addresses -> Users \cup {NoUser}]
      /\ license \in Devices \cup {NoDevice} /\ dev_token \in Devices \cup {NoDevice}
  BY DEF TypeOK, Tokens
<1>2. CASE StopService \/ UNCHANGED vars
  <2>1. UNCHANGED <<license, dev_token, user_tokens, user_info, pc, run>>
    BY <1>2 DEF StopService, vars, deviceVars, userVars
  <2>2. \A a \in Addresses : TokenAt(a)' = TokenAt(a)
    BY <2>1 DEF TokenAt, AwaitsSave
  <2>3. UNCHANGED <<license, SeenDeviceToken, SeenUser, SeenTokens>>
    BY <2>1, <2>2 DEF SeenDeviceToken, SeenUser, SeenTokens, Authenticated
  <2>4. QED
    BY <2>3 DEF Store!vars
<1>3. ASSUME NEW p \in Procs, NEW l \in Steps, pc' = [pc EXCEPT ![p] = l], clean, Others(p) = {}
      PROVE  /\ TokensSeen /\ TokensSeen'
             /\ Knows(p) /\ DeviceAgrees(p)
             /\ pc'[p] = l /\ \A q \in Procs \ {p} : pc[q] = "idle" /\ pc'[q] = "idle"
  <2>1. pc'[p] = l /\ \A q \in Procs \ {p} : pc[q] = "idle" /\ pc'[q] = "idle"
    BY <1>1, <1>3
  <2>2. Knows(p) /\ DeviceAgrees(p)
    BY <1>3, <2>1 DEF CleanInv, AgreesUpTo
  <2>3. TokensSeen
    BY <1>3, <2>1, TokensOfSeenUser DEF Alone
  <2>4. CleanInv' /\ Alone' => TokensSeen'
    BY TokensOfSeenUser, PTL
  <2>5. Alone'
    BY <2>1 DEF Alone
  <2>6. QED
    BY <2>1, <2>2, <2>3, <2>4, <2>5
\* Steps that change neither the device, its token nor the user, nor any token
\* that only requests ask for, are not seen.
<1>4. ASSUME NEW p \in Procs, NEW l \in Steps, pc' = [pc EXCEPT ![p] = l], clean, Others(p) = {},
             UNCHANGED <<license, dev_token, user_info>>,
             Authenticated => \A a \in Requested : TokenAt(a)' = TokenAt(a)
      PROVE  [Store!Next]_(Store!vars)
  <2>1. UNCHANGED <<license, SeenDeviceToken, SeenUser>> /\ Authenticated' = Authenticated
    BY <1>4 DEF SeenDeviceToken, SeenUser, Authenticated
  <2>2. TokensSeen /\ TokensSeen'
    BY <1>3, <1>4
  <2>3. \A a \in LoginAddresses : SeenTokens'[a] = SeenTokens[a]
    BY <2>1, <2>2 DEF TokensSeen
  <2>4. \A a \in Requested : SeenTokens'[a] = SeenTokens[a]
    BY <1>4, <2>1 DEF SeenTokens, Addresses
  <2>5. SeenTokens' = SeenTokens
    BY <2>3, <2>4 DEF SeenTokens, Addresses
  <2>6. QED
    BY <2>1, <2>5 DEF Store!vars
<1>5. ASSUME NEW p \in Procs, NEW c \in Commands, Start(p, c) PROVE [Store!Next]_(Store!vars)
  <2>1. FirstStep[c] \in {"get_license", "get_sts", "remove_device_tokens", "remove_license"}
    BY DEF FirstStep, Commands
  <2>2. /\ pc[p] = "idle" /\ pc' = [pc EXCEPT ![p] = FirstStep[c]] /\ clean /\ Others(p) = {}
        /\ UNCHANGED <<license, dev_token, user_tokens, user_info>>
    BY <1>5 DEF Start, deviceVars, userVars
  <2>3. FirstStep[c] \in Steps
    BY <2>1 DEF Steps, Ensuring
  <2>4. \A a \in Addresses : TokenAt(a)' = TokenAt(a)
    BY <1>3, <2>1, <2>2, <2>3, TokenStays
  <2>5. QED
    BY <1>4, <2>2, <2>3, <2>4 DEF Addresses
\* A command that runs is alone.
<1>6. ASSUME NEW p \in Procs, clean, pc[p] # "idle" PROVE Others(p) = {}
  BY <1>6, CleanRuns
<1> USE DEF Steps, Ensuring, Ended
<1>7. ASSUME NEW p \in Procs, CutShort(p) \/ GetLicenseFails(p) \/ CheckTokenFails(p)
      PROVE  [Store!Next]_(Store!vars)
  BY <1>7 DEF CutShort, GetLicenseFails, CheckTokenFails
\* Steps that read, or end a command.
<1>8. ASSUME NEW p \in Procs, NEW l \in Steps \ {"save", "write"},
             pc[p] \notin {"idle", "save", "write"}, pc' = [pc EXCEPT ![p] = l],
             UNCHANGED <<license, dev_token, user_tokens, user_info, clean>>
      PROVE  [Store!Next]_(Store!vars)
  <2>1. clean /\ Others(p) = {}
    BY <1>6, <1>8
  <2>2. \A a \in Addresses : TokenAt(a)' = TokenAt(a)
    BY <1>3, <1>8, <2>1, TokenStays
  <2>3. QED
    BY <1>4, <1>8, <2>1, <2>2 DEF Addresses
<1>9. ASSUME NEW p \in Procs, End(p) PROVE [Store!Next]_(Store!vars)
  BY <1>9, <1>8 DEF End, Leave, deviceVars, userVars
<1>10. ASSUME NEW p \in Procs, GetLicense(p) \/ CheckToken(p) \/ AuthenticateGetsNone(p)
                                 \/ UseUser(p) \/ UseToken(p) \/ UseLicense(p) \/ WebClosed(p)
                                 \/ GetSts(p) \/ ExchangeFails(p)
      PROVE  [Store!Next]_(Store!vars)
  BY <1>8, <1>10 DEF GetLicense, CheckToken, AuthenticateGetsNone, UseUser, UseToken, UseLicense,
                    WebClosed, GetSts, ExchangeFails, deviceVars, userVars, history
<1>11. ASSUME NEW p \in Procs, GetDeviceToken(p) PROVE [Store!Next]_(Store!vars)
  <2>1. AfterReady[run[p].cmd] \in {"web", "use_user", "done"}
    BY <1>11 DEF GetDeviceToken, AfterReady, TypeOK
  <2>2. QED
    BY <1>8, <1>11, <2>1 DEF GetDeviceToken, deviceVars, userVars, history
\* Saving a token: it has been seen since the exchange.
<1>12. ASSUME NEW p \in Procs, ReadTokens(p) PROVE [Store!Next]_(Store!vars)
  <2>1. /\ pc[p] = "save" /\ pc' = [pc EXCEPT ![p] = "write"]
        /\ run' = [run EXCEPT ![p].buf = user_tokens]
        /\ UNCHANGED <<license, dev_token, user_tokens, user_info, clean>>
    BY <1>12 DEF ReadTokens, deviceVars, userVars, history
  <2>2. clean /\ Others(p) = {}
    BY <1>6, <2>1
  <2>3. /\ pc'[p] = "write"
        /\ \A q \in Procs \ {p} : pc[q] = "idle" /\ pc'[q] = "idle"
    BY <1>3, <2>1, <2>2
  <2>4. run'[p].todo = run[p].todo
    BY <1>1, <2>1 DEF Runs
  <2>5. \A a \in Addresses : TokenAt(a)' = TokenAt(a)
    BY <2>1, <2>3, <2>4 DEF TokenAt, AwaitsSave
  <2>6. QED
    BY <1>4, <2>1, <2>2, <2>5 DEF Addresses
<1>13. ASSUME NEW p \in Procs, WriteTokens(p) PROVE [Store!Next]_(Store!vars)
  <2> DEFINE t == run[p].todo
             h == Head(t)
  <2>1. t \in AddressLists /\ t # <<>>
    BY <1>13 DEF WriteTokens, TypeOK, Runs
  <2>2. /\ pc[p] = "write"
        /\ user_tokens' = [run[p].buf EXCEPT ![h] = run[p].acct]
        /\ run' = [run EXCEPT ![p].todo = Tail(t), ![p].buf = NoTokens]
        /\ UNCHANGED <<license, dev_token, user_info, clean>>
    BY <1>13 DEF WriteTokens, deviceVars
  <2>3. PICK l \in {"save", "done", "failed"} : pc' = [pc EXCEPT ![p] = l]
    BY <1>13 DEF WriteTokens, AfterSave
  <2> HIDE DEF t, h
  <2>4. clean /\ Others(p) = {}
    BY <1>6, <2>2
  <2>5. /\ Knows(p) /\ \A q \in Procs \ {p} : pc[q] = "idle" /\ pc'[q] = "idle"
        /\ pc'[p] = l
    BY <1>3, <2>2, <2>3, <2>4
  <2>6. run'[p].todo = Tail(t)
    BY <1>1, <2>2 DEF Runs
  <2>7. user_tokens' = [user_tokens EXCEPT ![h] = user_info]
    BY <2>2, <2>5 DEF Knows
  <2>8. ASSUME NEW a \in Requested PROVE TokenAt(a)' = TokenAt(a)
    <3>1. CASE t = <<"service", "sts">>
      <4>1. DOMAIN t = {1, 2} /\ t[1] = "service" /\ t[2] = "sts" /\ h = "service"
            /\ DOMAIN Tail(t) = {1} /\ Tail(t)[1] = "sts"
        BY <3>1 DEF h
      <4>2. a \notin {"service", "sts"} /\ a \in Addresses
        BY RequestedAssumption DEF LoginAddresses, Addresses
      <4>3. (\A i \in DOMAIN t : t[i] # a) /\ (\A i \in DOMAIN Tail(t) : Tail(t)[i] # a)
        BY <4>1, <4>2
      <4>4. ~(\E q \in Procs : AwaitsSave(q, a))
        BY <2>5, <4>3 DEF AwaitsSave, t
      <4>5. ~(\E q \in Procs : AwaitsSave(q, a)) /\ ~(\E q \in Procs : AwaitsSave(q, a)')
        BY <2>5, <2>6, <4>3, <4>4 DEF AwaitsSave
      <4>6. user_tokens'[a] = user_tokens[a]
        BY <1>1, <2>7, <4>1, <4>2
      <4>7. QED
        BY <4>5, <4>6 DEF TokenAt
    <3>2. ASSUME NEW b \in Addresses, t = <<b>> PROVE TokenAt(a)' = TokenAt(a)
      <4>1. DOMAIN t = {1} /\ t[1] = b /\ h = b /\ DOMAIN Tail(t) = {} /\ a \in Addresses
        BY <3>2 DEF h, Addresses
      <4>2. ~(\E q \in Procs : AwaitsSave(q, a)')
        BY <2>5, <2>6, <4>1 DEF AwaitsSave
      <4>3. CASE a = b
        <5>1. AwaitsSave(p, a)
          BY <2>2, <4>1, <4>3 DEF AwaitsSave, t
        <5>2. user_tokens'[a] = user_info
          BY <1>1, <2>7, <4>1, <4>3
        <5>3. QED
          BY <2>2, <4>2, <5>1, <5>2 DEF TokenAt
      <4>4. CASE a # b
        <5>1. ~(\E q \in Procs : AwaitsSave(q, a))
          BY <2>5, <4>1, <4>4 DEF AwaitsSave, t
        <5>2. user_tokens'[a] = user_tokens[a]
          BY <1>1, <2>7, <4>1, <4>4
        <5>3. QED
          BY <4>2, <5>1, <5>2 DEF TokenAt
      <4>5. QED
        BY <4>3, <4>4
    <3>3. QED
      BY <2>1, <3>1, <3>2 DEF AddressLists
  <2>9. QED
    BY <1>4, <2>2, <2>3, <2>4, <2>8
\* Without a device token nothing of the user is seen.
<1>14. ASSUME NEW p \in Procs, RemoveUserTokens(p) PROVE [Store!Next]_(Store!vars)
  <2>1. PICK l \in {"failed", "remove_user"} : pc' = [pc EXCEPT ![p] = l]
    BY <1>14 DEF RemoveUserTokens
  <2>2. /\ pc[p] = "remove_user_tokens"
        /\ UNCHANGED <<license, dev_token, user_info, clean>>
    BY <1>14 DEF RemoveUserTokens, deviceVars, history
  <2>3. clean /\ Others(p) = {}
    BY <1>6, <2>2
  <2>4. Knows(p)
    BY <1>3, <2>1, <2>3
  <2>5. ~Authenticated
    BY <2>2, <2>4 DEF Knows, Authenticated
  <2>6. QED
    BY <1>4, <2>1, <2>2, <2>3, <2>5
\* The steps that are seen.
<1>15. ASSUME NEW p \in Procs, ProvisionDevice(p) PROVE [Store!Next]_(Store!vars)
  <2>1. /\ pc[p] = "provision" /\ pc' = [pc EXCEPT ![p] = "authenticate"] /\ license' \in Devices
        /\ clean /\ UNCHANGED <<dev_token, user_info>>
    BY <1>15 DEF ProvisionDevice, userVars
  <2>2. Knows(p) /\ DeviceAgrees(p)
    BY <1>3, <1>6, <2>1
  <2>3. license = NoDevice /\ dev_token = NoDevice
    BY <2>1, <2>2 DEF Knows, DeviceAgrees
  <2>4. ~Authenticated /\ ~Authenticated'
    BY <2>1, <2>3, NamesAssumption DEF Authenticated
  <2>5. UNCHANGED <<SeenDeviceToken, SeenUser, SeenTokens>>
    BY <2>4 DEF SeenDeviceToken, SeenUser, SeenTokens
  <2>6. Store!Provision
    BY <2>1, <2>3, <2>5 DEF Store!Provision
  <2>7. QED
    BY <2>6 DEF Store!Next
<1>16. ASSUME NEW p \in Procs, AuthenticateDevice(p) PROVE [Store!Next]_(Store!vars)
  <2>1. /\ pc[p] = "authenticate" /\ pc' = [pc EXCEPT ![p] = "ready"]
        /\ dev_token' = run[p].dev /\ run[p].dev \in Devices
        /\ clean /\ UNCHANGED <<license, user_info>>
    BY <1>16 DEF AuthenticateDevice, userVars, TypeOK
  <2>2. TokensSeen /\ TokensSeen' /\ Knows(p) /\ DeviceAgrees(p)
    BY <1>3, <1>6, <2>1
  <2>3. dev_token = NoDevice /\ dev_token' = license /\ license # NoDevice /\ user_info = NoUser
    BY <2>1, <2>2, NamesAssumption DEF Knows, DeviceAgrees
  <2>4. ~Authenticated /\ Authenticated'
    BY <2>1, <2>3 DEF Authenticated
  <2>5. /\ SeenDeviceToken = NoDevice /\ SeenDeviceToken' = license
        /\ SeenUser = NoUser /\ SeenUser' = NoUser
    BY <2>1, <2>3, <2>4 DEF SeenDeviceToken, SeenUser
  <2>6. UNCHANGED SeenTokens
    BY <2>2, <2>5 DEF TokensSeen
  <2>7. Store!Authenticate
    BY <2>1, <2>3, <2>5, <2>6 DEF Store!Authenticate
  <2>8. QED
    BY <2>7 DEF Store!Next
<1>17. ASSUME NEW p \in Procs, NEW u \in Users, NEW tokens \in IssuedTokens, WebIssued(p, u, tokens)
       PROVE  [Store!Next]_(Store!vars)
  <2>1. /\ pc[p] = "web" /\ pc' = [pc EXCEPT ![p] = "save"] /\ user_info' = u
        /\ run' = [run EXCEPT ![p].acct = u, ![p].todo = tokens]
        /\ clean /\ tokens = <<"service", "sts">> /\ UNCHANGED <<license, dev_token, user_tokens>>
    BY <1>17 DEF WebIssued, deviceVars
  <2>2. /\ TokensSeen /\ TokensSeen' /\ Knows(p) /\ DeviceAgrees(p)
        /\ pc'[p] = "save" /\ \A q \in Procs \ {p} : pc[q] = "idle" /\ pc'[q] = "idle"
    BY <1>3, <1>6, <2>1
  <2>3. Authenticated /\ Authenticated'
    BY <2>1, <2>2 DEF Knows, DeviceAgrees, Authenticated
  <2>4. SeenDeviceToken = license /\ SeenDeviceToken' = license /\ license # NoDevice /\ SeenUser' = u
    BY <2>1, <2>3 DEF SeenDeviceToken, SeenUser, Authenticated
  <2>5. ASSUME NEW a \in Requested PROVE SeenTokens'[a] = SeenTokens[a]
    <3>1. run'[p].todo = <<"service", "sts">>
      BY <1>1, <2>1 DEF Runs
    <3>2. DOMAIN run'[p].todo = {1, 2} /\ run'[p].todo[1] = "service" /\ run'[p].todo[2] = "sts"
      BY <3>1
    <3>3. a \notin {"service", "sts"} /\ a \in Addresses
      BY RequestedAssumption DEF LoginAddresses, Addresses
    <3>4. \A i \in DOMAIN run'[p].todo : run'[p].todo[i] # a
      BY <3>2, <3>3
    <3>5. ~(\E q \in Procs : AwaitsSave(q, a)) /\ ~(\E q \in Procs : AwaitsSave(q, a)')
      BY <2>1, <2>2, <3>4 DEF AwaitsSave
    <3>6. TokenAt(a)' = TokenAt(a)
      BY <2>1, <3>5 DEF TokenAt
    <3>7. QED
      BY <2>3, <3>3, <3>6 DEF SeenTokens
  <2>6. SeenTokens' = [a \in Addresses |-> IF a \in LoginAddresses THEN SeenUser' ELSE SeenTokens[a]]
    <3>1. \A a \in LoginAddresses : SeenTokens'[a] = SeenUser'
      BY <2>2 DEF TokensSeen
    <3>2. QED
      BY <2>5, <3>1 DEF SeenTokens, Addresses
  <2>7. Store!SignIn
    BY <2>1, <2>4, <2>6 DEF Store!SignIn
  <2>8. QED
    BY <2>7 DEF Store!Next
<1>18. ASSUME NEW p \in Procs, Exchanged(p) PROVE [Store!Next]_(Store!vars)
  <2>1. PICK a \in Addresses : run' = [run EXCEPT ![p].todo = <<a>>]
    BY <1>18 DEF Exchanged, Addresses, LoginAddresses
  <2>2. /\ pc[p] = "exchange" /\ pc' = [pc EXCEPT ![p] = "save"] /\ clean /\ run[p].acct \in Users
        /\ UNCHANGED <<license, dev_token, user_tokens, user_info>>
    BY <1>18 DEF Exchanged, deviceVars, userVars, history, TypeOK
  <2>3. /\ Knows(p) /\ DeviceAgrees(p)
        /\ pc'[p] = "save" /\ \A q \in Procs \ {p} : pc[q] = "idle" /\ pc'[q] = "idle"
    BY <1>3, <1>6, <2>2
  <2>4. user_info # NoUser
    BY <2>2, <2>3, NamesAssumption DEF Knows
  <2>5. Authenticated /\ Authenticated'
    BY <2>2, <2>3, <2>4 DEF DeviceAgrees, Authenticated
  <2>6. UNCHANGED <<license, SeenDeviceToken, SeenUser>> /\ SeenUser = user_info
    BY <2>2, <2>5 DEF SeenDeviceToken, SeenUser
  <2>7. run'[p].todo = <<a>>
    BY <1>1, <2>1 DEF Runs
  <2>8. DOMAIN run'[p].todo = {1} /\ run'[p].todo[1] = a
    BY <2>7
  <2>9. \A b \in Addresses : ~\E q \in Procs : AwaitsSave(q, b)
    BY <2>2, <2>3 DEF AwaitsSave
  <2>10. \A b \in Addresses : (\E q \in Procs : AwaitsSave(q, b)') <=> b = a
    BY <2>3, <2>8 DEF AwaitsSave
  <2>11. \A b \in Addresses : TokenAt(b)' = IF b = a THEN user_info ELSE TokenAt(b)
    BY <2>2, <2>9, <2>10 DEF TokenAt
  <2>12. SeenTokens' = [SeenTokens EXCEPT ![a] = SeenUser]
    BY <2>5, <2>6, <2>11 DEF SeenTokens
  <2>13. Store!Keep(a)
    BY <2>4, <2>6, <2>12 DEF Store!Keep
  <2>14. QED
    BY <2>13 DEF Store!Next
<1>19. ASSUME NEW p \in Procs, RemoveLicense(p) PROVE [Store!Next]_(Store!vars)
  <2>1. /\ pc[p] = "remove_license" /\ license' = NoDevice
        /\ pc' = [pc EXCEPT ![p] = IF license = NoDevice THEN "failed" ELSE "remove_device_tokens"]
        /\ clean /\ UNCHANGED <<dev_token, user_tokens, user_info, clean>>
    BY <1>19 DEF RemoveLicense, userVars, history
  <2>2. CASE license = NoDevice
    BY <1>8, <2>1, <2>2
  <2>3. CASE license # NoDevice
    <3>1. SeenDeviceToken' = NoDevice /\ SeenUser' = NoUser /\ SeenTokens' = NoTokens
      BY <2>1 DEF SeenDeviceToken, SeenUser, SeenTokens, Authenticated
    <3>2. Store!Retire
      BY <2>1, <2>3, <3>1 DEF Store!Retire, Store!SignedOut, Store!NoTokens
    <3>3. QED
      BY <3>2 DEF Store!Next
  <2>4. QED
    BY <2>2, <2>3
<1>20. ASSUME NEW p \in Procs, RemoveDeviceTokens(p) PROVE [Store!Next]_(Store!vars)
  <2>1. /\ dev_token' = NoDevice /\ UNCHANGED license
    BY <1>20 DEF RemoveDeviceTokens
  <2>2. SeenDeviceToken' = NoDevice /\ SeenUser' = NoUser /\ SeenTokens' = NoTokens
    BY <2>1 DEF SeenDeviceToken, SeenUser, SeenTokens, Authenticated
  <2>3. CASE Authenticated
    <3>1. SeenDeviceToken # NoDevice
      BY <2>3 DEF SeenDeviceToken, Authenticated
    <3>2. Store!SignOut
      BY <2>1, <2>2, <3>1 DEF Store!SignOut, Store!SignedOut, Store!NoTokens
    <3>3. QED
      BY <3>2 DEF Store!Next
  <2>4. CASE ~Authenticated
    <3>1. UNCHANGED <<license, SeenDeviceToken, SeenUser, SeenTokens>>
      BY <2>1, <2>2, <2>4 DEF SeenDeviceToken, SeenUser, SeenTokens
    <3>2. QED
      BY <3>1 DEF Store!vars
  <2>5. QED
    BY <2>3, <2>4
<1>21. ASSUME NEW p \in Procs, RemoveUser(p) PROVE [Store!Next]_(Store!vars)
  <2>1. /\ pc[p] = "remove_user" /\ clean /\ UNCHANGED <<license, dev_token>>
        /\ \E l \in {"failed", "logged_out"} : pc' = [pc EXCEPT ![p] = l]
    BY <1>21 DEF RemoveUser, deviceVars, history
  <2>2. Knows(p)
    BY <1>3, <1>6, <2>1
  <2>3. ~Authenticated /\ ~Authenticated'
    BY <2>1, <2>2 DEF Knows, Authenticated
  <2>4. UNCHANGED <<license, SeenDeviceToken, SeenUser, SeenTokens>>
    BY <2>1, <2>3 DEF SeenDeviceToken, SeenUser, SeenTokens
  <2>5. QED
    BY <2>4 DEF Store!vars
<1>22. QED
  BY <1>2, <1>5, <1>9, <1>7, <1>10, <1>11, <1>12, <1>13, <1>14, <1>15, <1>16, <1>17, <1>19, <1>20,
     <1>21, <1>18 DEF Next

LEMMA StoreInitial == Init => Store!Init
<1> SUFFICES ASSUME Init PROVE Store!Init
  OBVIOUS
<1>1. ~Authenticated
  BY DEF Init, Authenticated
<1>2. QED
  BY <1>1 DEF Init, Store!Init, Store!NoTokens, SeenDeviceToken, SeenUser, SeenTokens

\* Commands that run alone and to their ends are transactions: each changes the
\* keychain as if at once.
THEOREM Transactions == Spec => OneAfterAnother
<1>1. Init => Store!Init
  BY StoreInitial
<1>2. TypeOK /\ CleanInv /\ CleanInv' /\ [Next]_vars
        => [clean' => [Store!Next]_(Store!vars)]_vars
  BY StoreStep
<1>3. QED
  BY <1>1, <1>2, InitInvs, NextTypeOK, NextCleanInv, PTL DEF Spec, OneAfterAnother

\* So, where nothing interferes, the keychain is a store of one device and one
\* account.
THEOREM StoreRefinement == Spec /\ []clean => Store!Spec
<1>1. Init => Store!Init
  BY StoreInitial
<1>2. TypeOK /\ CleanInv /\ CleanInv' /\ clean' /\ [Next]_vars => [Store!Next]_(Store!vars)
  BY StoreStep
<1>3. QED
  BY <1>1, <1>2, InitInvs, NextTypeOK, NextCleanInv, PTL DEF Spec, Store!Spec
=============================================================================
