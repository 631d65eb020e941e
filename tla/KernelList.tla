------------------------------ MODULE KernelList ------------------------------
(***************************************************************************)
(* The circular doubly linked lists of the Linux kernel (linux/list.h).  A *)
(* memory of lists is a record of two functions, next and prev, on list    *)
(* heads and members.                                                      *)
(***************************************************************************)
EXTENDS Naturals, Sequences, FiniteSets

CONSTANTS
    Cell,    \* members and heads
    Poison   \* where an entry that was deleted points, which is no cell

\* The type of such a memory.
Links == [next : [Cell -> Cell \cup {Poison}], prev : [Cell -> Cell \cup {Poison}]]

ListEmpty(l, h) == l.next[h] = h

\* An entry that was deleted is in no list.
Linked(l, c) == l.next[c] # Poison /\ l.prev[c] # Poison

\* list_add_tail; it follows h.prev, which must be a cell.
AddTail(l, c, h) ==
    [next |-> [l.next EXCEPT ![c] = h, ![l.prev[h]] = c],
     prev |-> [l.prev EXCEPT ![h] = c, ![c] = l.prev[h]]]

\* list_del; it follows both links of c.
Del(l, c) ==
    [next |-> [l.next EXCEPT ![l.prev[c]] = l.next[c], ![c] = Poison],
     prev |-> [l.prev EXCEPT ![l.next[c]] = l.prev[c], ![c] = Poison]]

\* What a walk from h meets before it is back at h or at an entry that was
\* deleted, or has met too much.
Members(l, h) ==
    LET walk[k \in Nat] ==
            [c \in Cell \cup {Poison} |->
                IF k = 0 \/ c = h \/ c = Poison THEN <<>>
                                            ELSE <<c>> \o walk[k - 1][l.next[c]]]
    IN walk[Cardinality(Cell)][l.next[h]]

\* The cell at place i of the ring of h and the members m.
Around(m, h, i) == IF i \in 1 .. Len(m) THEN m[i] ELSE h

\* The members of h's list are m: the links lead from h through m back to h,
\* and prev is the inverse of next along them.
Ring(l, h, m) ==
    /\ \A i, j \in 1 .. Len(m) : m[i] = m[j] => i = j
    /\ \A i \in 0 .. Len(m) :
           /\ l.next[Around(m, h, i)] = Around(m, h, i + 1)
           /\ l.prev[Around(m, h, i + 1)] = Around(m, h, i)

\* The list of h is sound.
Sound(l, h) == Ring(l, h, Members(l, h))

\* A memory with one empty list for each of the heads hs, and nothing else.
Fresh(hs) ==
    [next |-> [c \in Cell |-> IF c \in hs THEN c ELSE Poison],
     prev |-> [c \in Cell |-> IF c \in hs THEN c ELSE Poison]]
=============================================================================
