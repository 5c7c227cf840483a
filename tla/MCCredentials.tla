--------------------------- MODULE MCCredentials ---------------------------
(***************************************************************************)
(* Two processes that run any commands, two accounts, two devices: enough  *)
(* for a login to replace another account's, for two provisions to race    *)
(* and for a request to overlap a login or a logout.  One address that     *)
(* requests ask for: a request writes one address, so that a token at a    *)
(* second would only add other accounts' stale ones.                       *)
(***************************************************************************)
EXTENDS Credentials, TLC

CONSTANTS p1, p2, u1, u2, d1, d2, r1

MCProcs   == {p1, p2}
MCUsers   == {u1, u2}
MCDevices == {d1, d2}
MCRequested == {r1}

Symmetry == Permutations(MCProcs) \cup Permutations(MCUsers) \cup Permutations(MCDevices)
=============================================================================
