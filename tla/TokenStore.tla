----------------------------- MODULE TokenStore -----------------------------
(***************************************************************************)
(* The user's entries of the keychain as a login and the requests of the   *)
(* service write them at once (tokens/manager.rs of src/crates/xodus):     *)
(* user-DA holds the user, user-tokens a map from addresses to tokens: the *)
(* two addresses that a login asks for, and one for each scope and client  *)
(* id that a request of the service asks for.                              *)
(* Saving one token gets the whole map, merges and sets it; only a single  *)
(* get or set is atomic.  A token is represented by its user.  Login and   *)
(* Service extend this module; Credentials has the other entries and       *)
(* commands.                                                               *)
(***************************************************************************)
EXTENDS Integers, Sequences

CONSTANTS
  Users,     \* accounts
  Conns,     \* connections to the service
  Requested, \* addresses that requests ask for: a scope and a client id
  NoUser

\* The scope of Xbox Live, without the client id that a request adds to it, and
\* PASSPORT_STS.
LoginAddresses == {"service", "sts"}

ASSUME StoreAssumption == NoUser \notin Users /\ "login" \notin Conns

\* Who saves tokens: the login command and the tasks of the service.
Savers == {"login"} \cup Conns

Addresses == LoginAddresses \cup Requested
NoTokens  == [a \in Addresses |-> NoUser]

VARIABLES
  user_tokens, \* entry user-tokens: the user of the token at each address
  user_info,   \* entry user-DA
  saving,      \* the user whose tokens a saver has, the addresses still to be
               \* saved, and the map while it is between get and set
  overtaken,   \* history: requests that read the user's token before or while a
               \* login wrote
  torn         \* history: why the entries need not be of one user

storeVars == <<user_tokens, user_info, saving, overtaken, torn>>

NotSaving == [acct |-> NoUser, todo |-> <<>>, reading |-> FALSE, buf |-> NoTokens]

StoreInit ==
  /\ user_tokens = NoTokens /\ user_info = NoUser
  /\ saving = [w \in Savers |-> NotSaving]
  /\ overtaken = {} /\ torn = {}

\* Requests that have read the user's token.
Reading == {c \in Conns : saving[c].acct # NoUser}

\* A saver begins with the user's token u.
Begin(w, u) ==
  /\ saving' = [saving EXCEPT ![w].acct = u]
  /\ overtaken' = IF saving["login"].acct = NoUser THEN overtaken ELSE overtaken \cup {w}

\* save_user: what is stored is of one user only when the tokens follow.
SaveUser(u) ==
  /\ user_info' = u
  /\ overtaken' = overtaken \cup Reading
  /\ torn' = {"unfinished"}

\* write_token_store, the get ...
GetStore(w) ==
  /\ saving[w].todo # <<>> /\ ~saving[w].reading
  /\ saving' = [saving EXCEPT ![w].reading = TRUE, ![w].buf = user_tokens]
  /\ UNCHANGED <<user_tokens, user_info, overtaken, torn>>

\* ... and the set.
SetStore(w) ==
  /\ saving[w].reading
  /\ user_tokens' = [saving[w].buf EXCEPT ![Head(saving[w].todo)] = saving[w].acct]
  /\ saving' = [saving EXCEPT ![w].todo = Tail(@), ![w].reading = FALSE, ![w].buf = NoTokens]
  /\ overtaken' = IF w = "login" THEN overtaken \cup Reading ELSE overtaken

\* A saver has ended or is gone.
Forget(w) ==
  /\ saving' = [saving EXCEPT ![w] = NotSaving]
  /\ overtaken' = overtaken \ {w}
-----------------------------------------------------------------------------
StoreTypeOK ==
  /\ user_tokens \in [Addresses -> Users \cup {NoUser}] /\ user_info \in Users \cup {NoUser}
  /\ \A w \in Savers :
       /\ saving[w].acct \in Users \cup {NoUser}
       /\ saving[w].todo \in {<<>>, <<"service", "sts">>} \cup {<<a>> : a \in Addresses}
       /\ saving[w].reading \in BOOLEAN
       /\ saving[w].buf \in [Addresses -> Users \cup {NoUser}]
       /\ saving[w].todo # <<>> => saving[w].acct \in Users
       /\ saving[w].reading => saving[w].todo # <<>>
  /\ overtaken \subseteq Reading
  /\ torn \subseteq {"unfinished", "no_sts", "overtaken"}

\* The user and the tokens at the addresses of a login are of one account,
\* whatever sessions a login went through and whichever of them its tokens came
\* from, and whatever the service saved meanwhile; except while a login is saving
\* or after one that was cut short, after one whose first exchange was answered at
\* once (it asks for no STS token), and after a request that read the user's token
\* before a login was done and saved afterwards.  A login that brings both tokens
\* alone mends them.  The addresses that only requests ask for are left out: no
\* login writes them, and the token there may be of an account that signed in
\* before.
TokensAgree ==
  torn = {} => \A a \in LoginAddresses : user_tokens[a] \in {NoUser, user_info}
=============================================================================
