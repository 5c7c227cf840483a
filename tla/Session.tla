------------------------------ MODULE Session ------------------------------
(***************************************************************************)
(* Logins and the service at once, over one keychain.                      *)
(***************************************************************************)
EXTENDS Login, Service

vars == <<storeVars, loginVars, serviceVars>>

Init == StoreInit /\ LoginInit /\ ServiceInit

Next ==
  \/ LoginNext /\ UNCHANGED serviceVars
  \/ ServiceNext /\ UNCHANGED loginVars

\* The runtime polls the tasks, and servers answer.
Fairness == \A c \in Conns : WF_vars(Task(c) /\ UNCHANGED loginVars)

Spec     == Init /\ [][Next]_vars
FairSpec == Spec /\ Fairness

\* Type invariant.
TypeOK == StoreTypeOK /\ LoginTypeOK /\ ServiceTypeOK
=============================================================================
