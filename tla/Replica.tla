------------------------------- MODULE Replica -------------------------------
(***************************************************************************)
(* What replication of one namespace promises, without workers, listings   *)
(* or a docker daemon: every target only ever receives contents the source *)
(* published, never an older one than it has, and loses an image only if   *)
(* the source withdrew that image at some time.                            *)
(***************************************************************************)
EXTENDS Naturals

CONSTANTS
    Image,     \* images (repository:tag) of the namespace
    Target     \* target registries

VARIABLES
    latest,    \* number of contents the source has published of each image
    withdrawn, \* images the source has once withdrawn
    dest       \* content each target has of each image, 0 for none

vars == <<latest, withdrawn, dest>>

Init ==
    /\ latest \in [Image -> Nat]
    /\ withdrawn = {}
    /\ dest = [t \in Target |-> [i \in Image |-> 0]]

Publish(i) ==
    /\ latest' = [latest EXCEPT ![i] = @ + 1]
    /\ UNCHANGED <<withdrawn, dest>>

Withdraw(i) ==
    /\ withdrawn' = withdrawn \cup {i}
    /\ UNCHANGED <<latest, dest>>

Copy(t, i) ==
    /\ \E v \in 1..latest[i] :
         /\ dest[t][i] <= v
         /\ dest' = [dest EXCEPT ![t][i] = v]
    /\ UNCHANGED <<latest, withdrawn>>

Drop(t, i) ==
    /\ i \in withdrawn
    /\ dest' = [dest EXCEPT ![t][i] = 0]
    /\ UNCHANGED <<latest, withdrawn>>

Next ==
    \E i \in Image :
        \/ Publish(i) \/ Withdraw(i)
        \/ \E t \in Target : Copy(t, i) \/ Drop(t, i)

Spec == Init /\ [][Next]_vars

=============================================================================
