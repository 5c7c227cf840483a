-------------------------- MODULE ServiceContract --------------------------
(***************************************************************************)
(* What xodus-service promises its clients: one process at a time holds    *)
(* the socket, a socket left behind by a crash keeps the next one out      *)
(* until somebody removes it, and each dialog is with a process that held  *)
(* the socket, which answers what it was asked, once each, or ends the     *)
(* dialog.  Session implements it.                                         *)
(***************************************************************************)
EXTENDS Integers

CONSTANTS Services, Conns, NoService

VARIABLES
  holders,  \* the processes that hold the socket
  stale,    \* whether a process left it behind
  dialogs   \* for each connection its service, and how many requests were
            \* sent and answered

NoDialog == [with |-> NoService, asked |-> 0, answered |-> 0]

Init ==
  /\ holders = {} /\ stale = FALSE
  /\ dialogs = [c \in Conns |-> NoDialog]

Acquire(s) ==
  /\ holders = {} /\ ~stale
  /\ holders' = {s}
  /\ UNCHANGED <<stale, dialogs>>

Release(s) ==
  /\ holders = {s}
  /\ holders' = {}
  /\ UNCHANGED <<stale, dialogs>>

\* A process ends, and its dialogs with it.
Stop(s) ==
  /\ holders' = holders \ {s}
  /\ stale' = (stale \/ s \in holders)
  /\ dialogs' = [c \in Conns |-> IF dialogs[c].with = s THEN NoDialog ELSE dialogs[c]]

Clear ==
  /\ stale /\ holders = {}
  /\ stale' = FALSE
  /\ UNCHANGED <<holders, dialogs>>

Open(c, s) ==
  /\ dialogs[c] = NoDialog /\ holders = {s}
  /\ dialogs' = [dialogs EXCEPT ![c].with = s]
  /\ UNCHANGED <<holders, stale>>

Ask(c) ==
  /\ dialogs[c].with # NoService
  /\ dialogs' = [dialogs EXCEPT ![c].asked = @ + 1]
  /\ UNCHANGED <<holders, stale>>

Answer(c) ==
  /\ dialogs[c].with # NoService /\ dialogs[c].answered < dialogs[c].asked
  /\ dialogs' = [dialogs EXCEPT ![c].answered = @ + 1]
  /\ UNCHANGED <<holders, stale>>

Close(c) ==
  /\ dialogs[c].with # NoService
  /\ dialogs' = [dialogs EXCEPT ![c] = NoDialog]
  /\ UNCHANGED <<holders, stale>>

Next ==
  \/ \E s \in Services : Acquire(s) \/ Release(s) \/ Stop(s)
  \/ Clear
  \/ \E c \in Conns : Ask(c) \/ Answer(c) \/ Close(c) \/ \E s \in Services : Open(c, s)

Spec == Init /\ [][Next]_<<holders, stale, dialogs>>
=============================================================================
