----------------------------- MODULE MCSession -----------------------------
(***************************************************************************)
(* Two logins of either of two accounts, of up to three and two sessions,  *)
(* whose pages may post a token twice; one connection with two requests;   *)
(* one address that requests ask for; two processes of the service, of     *)
(* which one may crash.                                                    *)
(***************************************************************************)
EXTENDS Session

CONSTANTS u1, u2, c1, s1, s2, r1

MCUsers    == {u1, u2}
MCConns    == {c1}
MCServices == {s1, s2}
MCRequested == {r1}
\* One fits sixteen bits, one does not.
MCSizes    == {3000, 70000}

\* Bound: crashes, the other service and a second request on a connection
\* belong to the time before the first login, a third session to the first login.
Bounded ==
  /\ logins > 0 => crashes = 0 /\ service[s2] = "off" /\ conn[c1].sent <= 1
  /\ logins = 2 => next_session_id <= 3

MCSpec == Init /\ [][Next /\ Bounded']_vars /\ Fairness
=============================================================================
