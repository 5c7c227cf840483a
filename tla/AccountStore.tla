---------------------------- MODULE AccountStore ----------------------------
(***************************************************************************)
(* What the keychain holds for commands that run one after another: each   *)
(* command changes it at once or not at all.  A device is provisioned,     *)
(* then authenticated; an account signs in on an authenticated device and  *)
(* has its tokens at the addresses of a login from then on; requests keep  *)
(* tokens of the account at any address, and at those that are not a       *)
(* login's a token outlives the next sign-in; signing out takes account,   *)
(* tokens and device token away together.  Credentials implements it.      *)
(***************************************************************************)
CONSTANTS Devices, Users, Addresses, LoginAddresses, NoDevice, NoUser

VARIABLES
  device,        \* the device that was provisioned
  device_token,  \* the device the token is for
  user,          \* the account that is signed in
  tokens         \* the account of the token at each address

NoTokens == [a \in Addresses |-> NoUser]

Init ==
  /\ device = NoDevice /\ device_token = NoDevice
  /\ user = NoUser /\ tokens = NoTokens

Provision ==
  /\ device = NoDevice
  /\ device' \in Devices
  /\ UNCHANGED <<device_token, user, tokens>>

Authenticate ==
  /\ device # NoDevice /\ device_token = NoDevice
  /\ device_token' = device
  /\ UNCHANGED <<device, user, tokens>>

SignIn ==
  /\ device_token # NoDevice
  /\ user' \in Users
  /\ tokens' = [a \in Addresses |-> IF a \in LoginAddresses THEN user' ELSE tokens[a]]
  /\ UNCHANGED <<device, device_token>>

Keep(a) ==
  /\ user # NoUser
  /\ tokens' = [tokens EXCEPT ![a] = user]
  /\ UNCHANGED <<device, device_token, user>>

SignedOut == device_token' = NoDevice /\ user' = NoUser /\ tokens' = NoTokens

SignOut == device_token # NoDevice /\ SignedOut /\ UNCHANGED device

Retire == device # NoDevice /\ SignedOut /\ device' = NoDevice

Next ==
  \/ Provision \/ Authenticate \/ SignIn \/ SignOut \/ Retire
  \/ \E a \in Addresses : Keep(a)

vars == <<device, device_token, user, tokens>>

Spec == Init /\ [][Next]_vars
=============================================================================
