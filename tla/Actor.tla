------------------------------- MODULE Actor --------------------------------
(***************************************************************************)
(* What skynet promises the services it runs, and what every module of the *)
(* game relies on: a service has one mailbox, handles one message at a     *)
(* time and the messages in the order of their arrival; no message is      *)
(* dropped while the service lives, and nothing reaches a service that is   *)
(* gone.                                                                   *)
(***************************************************************************)
EXTENDS Sequences

CONSTANTS Handles,      \* the services
          Messages

VARIABLES mail,         \* what waits for each service
          busy,         \* is a handler of the service running?
          life          \* "none" before the launch, "alive", "gone"

vars == <<mail, busy, life>>

Init ==
  /\ mail = [h \in Handles |-> <<>>]
  /\ busy = [h \in Handles |-> FALSE]
  /\ life \in [Handles -> {"none", "alive"}]

Launch(h) ==
  /\ life[h] = "none"
  /\ life' = [life EXCEPT ![h] = "alive"]
  /\ UNCHANGED <<mail, busy>>

Arrive(h, m) ==
  /\ life[h] = "alive"
  /\ mail' = [mail EXCEPT ![h] = Append(@, m)]
  /\ UNCHANGED <<busy, life>>

Handle(h) ==
  /\ life[h] = "alive" /\ ~busy[h] /\ mail[h] # <<>>
  /\ mail' = [mail EXCEPT ![h] = Tail(@)]
  /\ busy' = [busy EXCEPT ![h] = TRUE]
  /\ UNCHANGED life

Finish(h) ==
  /\ busy[h]
  /\ busy' = [busy EXCEPT ![h] = FALSE]
  /\ UNCHANGED <<mail, life>>

(* A service goes only between two messages.                               *)
Exit(h) ==
  /\ life[h] = "alive" /\ ~busy[h]
  /\ life' = [life EXCEPT ![h] = "gone"]
  /\ UNCHANGED <<mail, busy>>

Discard(h) ==
  /\ life[h] = "gone" /\ mail[h] # <<>>
  /\ mail' = [mail EXCEPT ![h] = Tail(@)]
  /\ UNCHANGED <<busy, life>>

Next ==
  \E h \in Handles :
    \/ Launch(h) \/ Handle(h) \/ Finish(h) \/ Exit(h) \/ Discard(h)
    \/ \E m \in Messages : Arrive(h, m)

Spec == Init /\ [][Next]_vars
=============================================================================
