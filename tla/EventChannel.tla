----------------------------- MODULE EventChannel -----------------------------
(***************************************************************************)
(* What the event queue of nvdisk promises, without nodes, lists, thread   *)
(* or client: while the channel is open the events that were accepted are  *)
(* sent once each, in the order in which they were accepted.               *)
(***************************************************************************)
EXTENDS Sequences

CONSTANT Event

VARIABLES
    open,    \* whether events are accepted and sent
    pending  \* events accepted and not sent yet

vars == <<open, pending>>

Init ==
    /\ open = FALSE
    /\ pending = <<>>

Open ==
    /\ ~open
    /\ open' = TRUE
    /\ pending' = pending

Accept ==
    /\ open
    /\ open' = open
    /\ \E e \in Event : pending' = Append(pending, e)

\* Its first event is sent.
Send ==
    /\ pending # <<>>
    /\ pending' = Tail(pending)
    /\ open' = open

\* The only way to lose what was accepted.
Close ==
    /\ open
    /\ open' = FALSE
    /\ pending' = <<>>

Next == Open \/ Accept \/ Send \/ Close

Spec == Init /\ [][Next]_vars
=============================================================================
