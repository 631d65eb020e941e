----------------------------- MODULE VolumeStamps -----------------------------
(***************************************************************************)
(* How the comet tests find out whether a volume has lost data when its    *)
(* container is moved: writetime.sh, in the container, appends a stamp to  *)
(* a file of the volume and stores the stamp in etcd, from where the next  *)
(* container goes on; check-vol.py looks whether the stamps in the file    *)
(* follow each other.                                                      *)
(***************************************************************************)
EXTENDS Integers, Sequences

CONSTANTS
    MaxStamp,    \* stamps check-vol.py expects to be below
    TimeLoop,    \* stamps a container writes
    MaxStarts    \* bound: containers

VARIABLES
    file,     \* stamps in the file
    key,      \* the value in etcd, -1 if there is none
    pc,       \* where writetime.sh stands; "off" without a container
    stamp,    \* the stamp it writes next
    i,        \* how many it has written
    starts,   \* containers started
    cut,      \* history: etcd was not told of a stamp, or not asked for it
    lost      \* history: the volume lost stamps

vars == <<file, key, pc, stamp, i, starts, cut, lost>>

-----------------------------------------------------------------------------
(* check-vol.py                                                            *)

\* What is looked for in the last m members of b, and then in one less.
is_sublist(a, b) ==
    LET rest(m) == SubSeq(b, Len(b) - m + 1, Len(b))
        found[m \in 0 .. Len(b)] ==
            \/ a = <<>>
            \/ /\ m # 0
               /\ \/ Len(a) <= m /\ SubSeq(rest(m), 1, Len(a)) = a
                  \/ found[m - 1]
    IN found[Len(b)]

\* check_stamp says Check-Stamp-Good.
check_stamp == is_sublist(file, [k \in 1..MaxStamp |-> k - 1])

-----------------------------------------------------------------------------
(* writetime.sh                                                            *)

\* A container is started.  Without an answer from etcd that is a number the
\* stamps begin with 0.
StartContainer ==
    /\ pc = "off"
    /\ starts < MaxStarts
    /\ starts' = starts + 1
    /\ \/ stamp' = key + 1 /\ cut' = cut
       \/ stamp' = 0 /\ cut' = TRUE
    /\ i' = 0
    /\ pc' = "append"
    /\ UNCHANGED <<file, key, lost>>

AppendStamp ==
    /\ pc = "append"
    /\ file' = Append(file, stamp)
    /\ pc' = "put"
    /\ UNCHANGED <<key, stamp, i, starts, cut, lost>>

\* What curl returns is not looked at.
PutStamp ==
    /\ pc = "put"
    /\ \/ key' = stamp /\ cut' = cut
       \/ key' = key /\ cut' = TRUE
    /\ stamp' = stamp + 1
    /\ i' = i + 1
    /\ pc' = IF i' = TimeLoop THEN "off" ELSE "append"
    /\ UNCHANGED <<file, starts, lost>>

\* The container is killed, before or after etcd was told.
Kill ==
    /\ pc \in {"append", "put"}
    /\ pc' = "off"
    /\ cut' = (cut \/ pc = "put")
    /\ UNCHANGED <<file, key, stamp, i, starts, lost>>

\* What the test is there to find: the file comes back without the stamps
\* from one place on, or without one of them, or without the first ones.
Lose ==
    /\ pc = "off"
    /\ ~lost /\ lost' = TRUE
    /\ \E a \in 1..Len(file), b \in 1..Len(file) :
         /\ a <= b
         /\ file' = SubSeq(file, 1, a - 1) \o SubSeq(file, b + 1, Len(file))
    /\ UNCHANGED <<key, pc, stamp, i, starts, cut>>

-----------------------------------------------------------------------------

Init ==
    /\ file = <<>>
    /\ key = -1
    /\ pc = "off"
    /\ stamp = 0 /\ i = 0 /\ starts = 0
    /\ cut = FALSE /\ lost = FALSE

Next == StartContainer \/ AppendStamp \/ PutStamp \/ Kill \/ Lose

Spec == Init /\ [][Next]_vars

-----------------------------------------------------------------------------
(* Properties.                                                             *)

TypeOK ==
    /\ file \in Seq(0..(TimeLoop * MaxStarts))
    /\ key \in -1..(TimeLoop * MaxStarts)
    /\ pc \in {"off", "append", "put"}
    /\ stamp \in 0..(TimeLoop * MaxStarts) /\ i \in 0..TimeLoop
    /\ starts \in 0..MaxStarts
    /\ cut \in BOOLEAN /\ lost \in BOOLEAN

\* The check is passed by a file in which every stamp is followed by the next
\* one, and by no other: what was lost between two stamps, and what was
\* written twice, is found.  (Stamps lost at either end, or all of them, are
\* not.)
GoodIsGapless ==
    check_stamp <=>
        \A k \in 1..Len(file) : file[k] = file[1] + k - 1 /\ file[k] < MaxStamp

\* No false alarm: a volume that lost nothing passes, however often its
\* container was killed, provided that etcd was told of every stamp.
NoFalseAlarm == (~cut /\ ~lost /\ Len(file) <= MaxStamp) => check_stamp

=============================================================================
