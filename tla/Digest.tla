-------------------------------- MODULE Digest --------------------------------
(***************************************************************************)
(* What the event server promises its NATS subscribers, without handlers,  *)
(* channel, timer or counters: a message lists, each once, exactly the     *)
(* events that were accepted since the message before.                     *)
(***************************************************************************)
EXTENDS Sequences

CONSTANT Event    \* events, one for each id and subject

VARIABLES
    linked,       \* whether the server is connected to NATS
    pending,      \* events accepted since the last message
    message       \* the last message

vars == <<linked, pending, message>>

\* The sequence m lists every event of the set s once.
Lists(m, s) ==
    /\ {m[i] : i \in DOMAIN m} = s
    /\ \A i, j \in DOMAIN m : m[i] = m[j] => i = j

Init ==
    /\ linked \in BOOLEAN
    /\ pending = {}
    /\ message = <<>>

Accept ==
    /\ \E e \in Event : pending' = pending \cup {e}
    /\ UNCHANGED <<linked, message>>

\* A server without a connection drops what it should send.
Send ==
    /\ pending # {}
    /\ pending' = {}
    /\ IF linked THEN Lists(message', pending) ELSE message' = message
    /\ linked' = linked

\* The server ends, and what is pending with it; the next one connects anew.
Restart ==
    /\ pending' = {}
    /\ linked' \in BOOLEAN
    /\ message' = message

Next == Accept \/ Send \/ Restart

Spec == Init /\ [][Next]_vars

=============================================================================
