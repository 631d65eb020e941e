-------------------------- MODULE NetlinkQueue_proofs --------------------------
(***************************************************************************)
(* What the event queue of nvdisk promises, for every number of nodes,     *)
(* processors and events: that the two lists of pointers stay sound and    *)
(* hold every node once, that every answer a client gets was asked for,    *)
(* and that the queue implements EventChannel.                             *)
(*                                                                         *)
(* The links are compared with two sequences, q and p, that they spell out *)
(* (Lists).  What list_del and list_add_tail do to such a ring, and that a *)
(* walk over it finds its members, is shown first; the latter, and the     *)
(* building of the pool, by induction over the natural numbers.            *)
(***************************************************************************)
EXTENDS NetlinkQueue, TLAPS, FiniteSetTheorems, SequenceTheorems, WellFoundedInduction

-----------------------------------------------------------------------------
(* Induction and recursion over Nat, with sets and functions in the place  *)
(* of predicates and definitions.                                          *)

LEMMA NatLeast ==
    ASSUME NEW F \in SUBSET Nat, F # {}
    PROVE  \E x \in F : \A y \in F : x <= y
<1>1. PICK n \in F : TRUE
  OBVIOUS
<1> DEFINE T == 0 .. n
           G == {0 .. k : k \in {j \in F : j <= n}}
<1>2. IsWellFoundedOn(StrictSubsetOrdering(T), FiniteSubsetsOf(T))
  BY FS_StrictSubsetOrderingWellFounded
<1>3. IsFiniteSet(T)
  BY <1>1, FS_Interval
<1>4. G \subseteq FiniteSubsetsOf(T) /\ G # {}
  <2>1. G \subseteq SUBSET T /\ (0 .. n) \in G
    BY <1>1
  <2> QED  BY <1>3, <2>1, FS_FiniteSubsetsOfFinite
<1>5. PICK s \in G : \A t \in G : ~ (<<t, s>> \in StrictSubsetOrdering(T))
  BY <1>2, <1>4, WFMin
<1>6. PICK x \in F : x <= n /\ s = 0 .. x
  BY <1>5
<1>7. ASSUME NEW y \in F, y < x
      PROVE  FALSE
  <2> DEFINE t == 0 .. y
  <2>1. t \in G /\ t \subseteq T /\ s \subseteq T
    BY <1>1, <1>6, <1>7
  <2>2. t \subseteq s /\ t # s
    BY <1>6, <1>7
  <2> QED  BY <1>5, <2>1, <2>2 DEF StrictSubsetOrdering
<1> QED  BY <1>6, <1>7

LEMMA NatInd ==
    ASSUME NEW P \in SUBSET Nat, 0 \in P, \A n \in P : n + 1 \in P
    PROVE  P = Nat
<1> SUFFICES ASSUME Nat \ P # {}
             PROVE  FALSE
  OBVIOUS
<1>1. PICK x \in Nat \ P : \A y \in Nat \ P : x <= y
  BY NatLeast
<1>2. x # 0 /\ x - 1 \in Nat /\ x - 1 \in P /\ x = (x - 1) + 1
  BY <1>1
<1> QED  BY <1>1, <1>2

\* g is a and what step makes of it, up to n.
Iterates(g, a, step, n) ==
    /\ g[0] = a
    /\ \A i \in 1 .. n : g[i] = step[i][g[i - 1]]

LEMMA IteratesAgree ==
    ASSUME NEW a, NEW step, NEW n \in Nat, NEW g, Iterates(g, a, step, n),
           NEW m \in Nat, NEW f, Iterates(f, a, step, m),
           NEW i \in Nat, i <= n, i <= m
    PROVE  g[i] = f[i]
<1> DEFINE P == {j \in Nat : j <= i => g[j] = f[j]}
<1>1. 0 \in P
  BY DEF Iterates
<1>2. ASSUME NEW j \in P
      PROVE  j + 1 \in P
  <2> SUFFICES ASSUME j + 1 <= i
               PROVE  g[j + 1] = f[j + 1]
    OBVIOUS
  <2>1. j \in Nat /\ j + 1 \in 1 .. n /\ j + 1 \in 1 .. m /\ (j + 1) - 1 = j /\ g[j] = f[j]
    OBVIOUS
  <2>2. g[j + 1] = step[j + 1][g[(j + 1) - 1]] /\ f[j + 1] = step[j + 1][f[(j + 1) - 1]]
    BY <2>1 DEF Iterates
  <2> QED  BY <2>1, <2>2
<1>3. P = Nat
  BY <1>1, <1>2, NatInd
<1> QED  BY <1>3

Closed(step, S) == \A n \in Nat, x \in S : step[n][x] \in S

Runs(f, a, step) == f[0] = a /\ \A n \in Nat : f[n + 1] = step[n + 1][f[n]]

LEMMA Recursion ==
    ASSUME NEW S, NEW a \in S, NEW step, Closed(step, S)
    PROVE  \E f \in [Nat -> S] : Runs(f, a, step)
<1> USE DEF Closed
<1> DEFINE P == {n \in Nat : \E g \in [0 .. n -> S] : Iterates(g, a, step, n)}
<1>1. 0 \in P
  <2>1. [i \in 0 .. 0 |-> a] \in [0 .. 0 -> S] /\ Iterates([i \in 0 .. 0 |-> a], a, step, 0)
    BY DEF Iterates
  <2> QED  BY <2>1
<1>2. ASSUME NEW n \in P
      PROVE  n + 1 \in P
  <2>1. PICK g \in [0 .. n -> S] : Iterates(g, a, step, n)
    OBVIOUS
  <2> DEFINE f == [i \in 0 .. n + 1 |-> IF i = n + 1 THEN step[n + 1][g[n]] ELSE g[i]]
  <2>2. f \in [0 .. n + 1 -> S]
    <3>1. g[n] \in S /\ step[n + 1][g[n]] \in S
      OBVIOUS
    <3> QED  BY <3>1
  <2>3. f[0] = a
    BY <2>1 DEF Iterates
  <2>4. ASSUME NEW i \in 1 .. n + 1
        PROVE  f[i] = step[i][f[i - 1]]
    <3>1. CASE i = n + 1
      BY <3>1
    <3>2. CASE i # n + 1
      <4>1. f[i] = g[i] /\ f[i - 1] = g[i - 1]
        BY <3>2
      <4> QED  BY <2>1, <3>2, <4>1 DEF Iterates
    <3> QED  BY <3>1, <3>2
  <2>5. Iterates(f, a, step, n + 1)
    BY <2>3, <2>4 DEF Iterates
  <2> QED  BY <2>2, <2>5
<1>3. P = Nat
  BY <1>1, <1>2, NatInd
<1> DEFINE G(n) == CHOOSE g \in [0 .. n -> S] : Iterates(g, a, step, n)
           f == [n \in Nat |-> G(n)[n]]
<1>4. ASSUME NEW n \in Nat
      PROVE  G(n) \in [0 .. n -> S] /\ Iterates(G(n), a, step, n)
  BY <1>3
<1> HIDE DEF G
<1>5. f \in [Nat -> S]
  BY <1>4
<1>6. f[0] = a
  BY <1>4 DEF Iterates
<1>7. ASSUME NEW n \in Nat
      PROVE  f[n + 1] = step[n + 1][f[n]]
  <2>1. Iterates(G(n), a, step, n) /\ Iterates(G(n + 1), a, step, n + 1) /\ n + 1 \in Nat
    BY <1>4
  <2>2. G(n + 1)[n] = G(n)[n]
    BY <2>1, IteratesAgree
  <2>3. n + 1 \in 1 .. n + 1 /\ (n + 1) - 1 = n
    OBVIOUS
  <2>4. G(n + 1)[n + 1] = step[n + 1][G(n + 1)[(n + 1) - 1]]
    BY <2>1, <2>3 DEF Iterates
  <2> QED  BY <2>2, <2>3, <2>4
<1> HIDE DEF f
<1>8. Runs(f, a, step)
  BY <1>6, <1>7 DEF Runs
<1> QED  BY <1>5, <1>8

-----------------------------------------------------------------------------
(* The operators on lists.                                                 *)

LEMMA Cells ==
    /\ IsFiniteSet(Cell) /\ Poison \notin Cell
    /\ MsgHead \in Cell /\ FreeHead \in Cell /\ MsgHead # FreeHead
    /\ Node = Cell \ {MsgHead, FreeHead} /\ Cardinality(Node) \in Nat
<1>1. IsFiniteSet({MsgHead, FreeHead})
  <2>1. IsFiniteSet({MsgHead}) /\ IsFiniteSet({FreeHead})
    BY FS_Singleton
  <2>2. {MsgHead, FreeHead} = {MsgHead} \cup {FreeHead}
    OBVIOUS
  <2> QED  BY <2>1, <2>2, FS_Union
<1>2. IsFiniteSet(Cell)
  BY <1>1, NodeAssumption, FS_Union DEF Cell
<1>3. Cardinality(Node) \in Nat
  BY NodeAssumption, FS_CardinalityType
<1> QED  BY <1>2, <1>3, NodeAssumption DEF Cell

\* A sequence of distinct members of a finite set is no longer than the set.
LEMMA DistinctIsShort ==
    ASSUME NEW S, IsFiniteSet(S), NEW m \in Seq(S),
           \A i, j \in 1 .. Len(m) : m[i] = m[j] => i = j
    PROVE  /\ Len(m) <= Cardinality(S)
           /\ Cardinality(ToSet(m)) = Len(m)
<1>1. Len(m) \in Nat /\ DOMAIN m = 1 .. Len(m) /\ m \in [1 .. Len(m) -> S]
  BY LenProperties
<1>2. m \in Bijection(1 .. Len(m), ToSet(m))
  BY <1>1 DEF Bijection, Injection, Surjection, IsInjective, ToSet
<1>3. ToSet(m) \subseteq S
  BY <1>1 DEF ToSet
<1>4. IsFiniteSet(ToSet(m)) /\ Cardinality(ToSet(m)) <= Cardinality(S)
  BY <1>3, FS_Subset
<1>5. IsFiniteSet(1 .. Len(m)) /\ Cardinality(1 .. Len(m)) = Len(m)
  BY <1>1, FS_Interval
<1>6. Cardinality(ToSet(m)) = Len(m)
  BY <1>2, <1>5, FS_Bijection DEF ExistsBijection
<1> QED  BY <1>4, <1>6

\* A walk through l from h, from each cell, with one bound more each time.
Walks(l, h, w) ==
    \A k \in Nat :
        w[k] = [c \in Cell \cup {Poison} |->
                   IF k = 0 \/ c = h \/ c = Poison THEN <<>>
                                               ELSE <<c>> \o w[k - 1][l.next[c]]]

LEMMA MembersWalk ==
    ASSUME NEW l \in Links, NEW h
    PROVE  \E w : Walks(l, h, w) /\ Members(l, h) = w[Cardinality(Cell)][l.next[h]]
<1> DEFINE C == Cell \cup {Poison}
           S == [C -> Seq(C)]
           none == [c \in C |-> <<>>]
           further(x) == [c \in C |-> IF c = h \/ c = Poison THEN <<>>
                                                        ELSE <<c>> \o x[l.next[c]]]
           step == [n \in Nat |-> [x \in S |-> further(x)]]
<1>1. none \in S
  OBVIOUS
<1>2. ASSUME NEW x \in S
      PROVE  further(x) \in S
  <2>1. ASSUME NEW c \in C, c # h, c # Poison
        PROVE  <<c>> \o x[l.next[c]] \in Seq(C)
    <3>1. l.next[c] \in C
      BY <2>1 DEF Links
    <3>2. x[l.next[c]] \in Seq(C) /\ <<c>> \in Seq(C)
      BY <3>1
    <3> QED  BY <3>2, ConcatProperties
  <2>2. <<>> \in Seq(C)
    OBVIOUS
  <2> QED  BY <2>1, <2>2
<1> HIDE DEF further, none, S
<1>3. \A n \in Nat, x \in S : step[n][x] = further(x)
  OBVIOUS
<1> HIDE DEF step
<1>30. Closed(step, S)
  BY <1>2, <1>3 DEF Closed
<1>4. PICK f \in [Nat -> S] : Runs(f, none, step)
  BY <1>1, <1>30, Recursion
<1> DEFINE body(k) == [c \in C |-> IF k = 0 \/ c = h \/ c = Poison THEN <<>>
                                              ELSE <<c>> \o f[k - 1][l.next[c]]]
<1>5. ASSUME NEW k \in Nat
      PROVE  f[k] = body(k)
  <2>1. CASE k = 0
    BY <1>4, <2>1 DEF none, Runs
  <2>2. CASE k # 0
    <3>1. k - 1 \in Nat /\ k = (k - 1) + 1 /\ f[k - 1] \in S
      BY <2>2
    <3>2. f[k] = step[k][f[k - 1]]
      BY <1>4, <3>1 DEF Runs
    <3>3. f[k] = further(f[k - 1])
      BY <1>3, <3>1, <3>2
    <3> QED  BY <2>2, <3>3 DEF further
  <2> QED  BY <2>1, <2>2
<1>6. f = [k \in Nat |-> body(k)]
  BY <1>5
<1> DEFINE Def(g) == [k \in Nat |-> [c \in C |-> IF k = 0 \/ c = h \/ c = Poison THEN <<>>
                                              ELSE <<c>> \o g[k - 1][l.next[c]]]]
           w == CHOOSE g : g = Def(g)
<1>7. f = Def(f)
  BY <1>6
<1>8. w = Def(w)
  BY <1>7
<1>9. Walks(l, h, w)
  <2> HIDE DEF w
  <2> QED  BY <1>8 DEF Walks
<1>10. Members(l, h) = w[Cardinality(Cell)][l.next[h]]
  BY DEF Members
<1> QED  BY <1>9, <1>10

\* The walk through a ring meets its members.
LEMMA MembersOfRing ==
    ASSUME NEW l \in Links, NEW h \in Cell, NEW m \in Seq(Cell \ {h}), Ring(l, h, m)
    PROVE  Members(l, h) = m
<1>1. PICK w : Walks(l, h, w) /\ Members(l, h) = w[Cardinality(Cell)][l.next[h]]
  BY MembersWalk
<1>2. PICK L \in Nat : L = Len(m) /\ m \in [1 .. L -> Cell \ {h}]
  BY LenProperties
<1>3. PICK N \in Nat : N = Cardinality(Cell) /\ L <= N
  <2>1. m \in Seq(Cell)
    BY SeqMonotonic
  <2>2. Len(m) <= Cardinality(Cell) /\ Cardinality(Cell) \in Nat
    BY <2>1, Cells, DistinctIsShort, FS_CardinalityType DEF Ring
  <2> QED  BY <1>2, <2>2
<1> DEFINE P == {j \in Nat : j <= L =>
                    \A k \in Nat : j <= k =>
                        w[k][Around(m, h, L + 1 - j)] = SubSeq(m, L + 1 - j, L)}
<1>4. 0 \in P
  <2> SUFFICES ASSUME NEW k \in Nat
               PROVE  w[k][Around(m, h, L + 1)] = SubSeq(m, L + 1, L)
    OBVIOUS
  <2>1. Around(m, h, L + 1) = h
    BY <1>2 DEF Around
  <2>2. SubSeq(m, L + 1, L) = <<>>
    BY SubSeqEmpty
  <2>3. w[k][h] = <<>>
    BY <1>1 DEF Walks
  <2> QED  BY <2>1, <2>2, <2>3
<1>5. ASSUME NEW j \in P
      PROVE  j + 1 \in P
  <2> SUFFICES ASSUME j + 1 <= L, NEW k \in Nat, j + 1 <= k
               PROVE  w[k][Around(m, h, L + 1 - (j + 1))] = SubSeq(m, L + 1 - (j + 1), L)
    OBVIOUS
  <2>1. PICK i \in 1 .. L : i = L - j /\ L + 1 - (j + 1) = i /\ L + 1 - j = i + 1
    OBVIOUS
  <2>2. m[i] \in Cell /\ m[i] # h /\ m[i] # Poison
    BY <1>2, Cells
  <2>3. Around(m, h, i) = m[i]
    BY <1>2 DEF Around
  <2>4. l.next[m[i]] = Around(m, h, i + 1)
    BY <1>2, <2>3 DEF Ring
  <2>5. w[k][m[i]] = <<m[i]>> \o w[k - 1][l.next[m[i]]]
    <3>1. PICK x \in Cell : x = m[i] /\ x # h /\ x # Poison
      BY <2>2
    <3>2. w[k] = [c \in Cell \cup {Poison} |->
                    IF k = 0 \/ c = h \/ c = Poison THEN <<>>
                                                ELSE <<c>> \o w[k - 1][l.next[c]]]
      BY <1>1 DEF Walks
    <3>3. k # 0
      OBVIOUS
    <3>4. w[k][x] = <<x>> \o w[k - 1][l.next[x]]
      BY <3>1, <3>2, <3>3
    <3> QED  BY <3>1, <3>4
  <2>6. w[k - 1][Around(m, h, i + 1)] = SubSeq(m, i + 1, L)
    BY <2>1
  <2>7. SubSeq(m, i, L) = <<m[i]>> \o SubSeq(m, i + 1, L)
    BY <1>2, SubSeqRecursiveFirst
  <2> QED  BY <2>1, <2>3, <2>4, <2>5, <2>6, <2>7
<1>6. P = Nat
  <2> HIDE DEF P
  <2>1. P \in SUBSET Nat
    BY DEF P
  <2> QED  BY <1>4, <1>5, <2>1, NatInd
<1>7. w[N][Around(m, h, 1)] = SubSeq(m, 1, L)
  <2>1. L \in P
    BY <1>2, <1>6
  <2>2. \A k \in Nat : L <= k =>
            w[k][Around(m, h, L + 1 - L)] = SubSeq(m, L + 1 - L, L)
    BY <2>1
  <2>3. L + 1 - L = 1
    OBVIOUS
  <2> QED  BY <1>3, <2>2, <2>3
<1>8. l.next[h] = Around(m, h, 1)
  <2>1. Around(m, h, 0) = h /\ 0 + 1 = 1
    BY DEF Around
  <2> QED  BY <1>2, <2>1 DEF Ring
<1> QED  BY <1>1, <1>2, <1>3, <1>7, <1>8, SubSeqFull

\* list_add_tail appends to the one list and leaves the other.
LEMMA AddTailRing ==
    ASSUME NEW l \in Links, NEW h \in Cell, NEW m \in Seq(Cell \ {h}), Ring(l, h, m),
           NEW c \in Cell \ {h}, c \notin ToSet(m)
    PROVE  Ring(AddTail(l, c, h), h, Append(m, c))
<1> DEFINE k == AddTail(l, c, h)
           t == Append(m, c)
<1>1. PICK L \in Nat : L = Len(m) /\ m \in [1 .. L -> Cell \ {h}]
  BY LenProperties
<1>2. t \in Seq(Cell \ {h}) /\ Len(t) = L + 1 /\ t[L + 1] = c
         /\ \A i \in 1 .. L : t[i] = m[i]
  BY <1>1, AppendProperties
<1>3. \A i \in 1 .. L : m[i] # c
  BY <1>1 DEF ToSet
<1>4. /\ \A i \in 0 .. L : Around(t, h, i) = Around(m, h, i)
      /\ Around(t, h, L + 1) = c /\ Around(t, h, L + 2) = h /\ Around(m, h, L + 1) = h
      /\ Around(m, h, 0) = h
  BY <1>1, <1>2 DEF Around
<1>5. /\ \A i \in 1 .. L : Around(m, h, i) = m[i]
      /\ \A i \in 0 .. L : Around(m, h, i) \in Cell
  BY <1>1 DEF Around
<1>6. /\ \A i, j \in 1 .. L : m[i] = m[j] => i = j
      /\ \A i \in 0 .. L :
             /\ l.next[Around(m, h, i)] = Around(m, h, i + 1)
             /\ l.prev[Around(m, h, i + 1)] = Around(m, h, i)
  BY <1>1 DEF Ring
<1>7. l.prev[h] = Around(m, h, L)
  BY <1>4, <1>6
<1>8. PICK e \in Cell : e = Around(m, h, L)
  BY <1>5
<1>9. /\ k.next = [l.next EXCEPT ![c] = h, ![e] = c]
      /\ k.prev = [l.prev EXCEPT ![h] = c, ![c] = e]
  BY <1>7, <1>8 DEF AddTail
<1>10. e # c
  BY <1>3, <1>4, <1>5, <1>8
<1>11. /\ k.next[c] = h /\ k.next[e] = c /\ k.prev[h] = c /\ k.prev[c] = e
       /\ \A d \in Cell : d # c /\ d # e => k.next[d] = l.next[d]
       /\ \A d \in Cell : d # c /\ d # h => k.prev[d] = l.prev[d]
  BY <1>9, <1>10 DEF Links
<1>12. ASSUME NEW i \in 0 .. L + 1
       PROVE  /\ k.next[Around(t, h, i)] = Around(t, h, i + 1)
              /\ k.prev[Around(t, h, i + 1)] = Around(t, h, i)
  <2>1. CASE i = L + 1
    BY <1>4, <1>11, <2>1
  <2>2. CASE i = L
    BY <1>4, <1>8, <1>11, <2>2
  <2>3. CASE i < L
    <3>1. i \in 0 .. L /\ i + 1 \in 1 .. L /\ L \in 0 .. L
      BY <2>3
    <3>2. PICK x \in Cell, y \in Cell : /\ x = Around(m, h, i) /\ y = Around(m, h, i + 1)
                                      /\ y = m[i + 1] /\ y # h /\ y # c
      BY <1>1, <1>3, <1>5, <3>1
    <3>3. x # e /\ x # c
      <4>1. CASE i = 0
        <5>1. x = h /\ e = m[L] /\ m[L] # h /\ c # h
          BY <1>1, <1>4, <1>5, <1>8, <2>3, <3>2, <4>1
        <5> QED  BY <5>1
      <4>2. CASE i # 0
        <5>1. i \in 1 .. L /\ L \in 1 .. L /\ i # L /\ x = m[i] /\ e = m[L]
          BY <1>5, <1>8, <2>3, <3>2, <4>2
        <5> QED  BY <1>3, <1>6, <5>1
      <4> QED  BY <4>1, <4>2
    <3>4. l.next[x] = y /\ l.prev[y] = x
      BY <1>6, <3>1, <3>2
    <3>5. k.next[x] = y /\ k.prev[y] = x
      BY <1>11, <3>2, <3>3, <3>4
    <3> QED  BY <1>4, <3>1, <3>2, <3>5
  <2> QED  BY <2>1, <2>2, <2>3
<1>13. ASSUME NEW i \in 1 .. L + 1, NEW j \in 1 .. L + 1, t[i] = t[j]
       PROVE  i = j
  <2>1. CASE i = L + 1 \/ j = L + 1
    BY <1>2, <1>3, <1>13, <2>1
  <2>2. CASE i \in 1 .. L /\ j \in 1 .. L
    BY <1>2, <1>6, <1>13, <2>2
  <2> QED  BY <2>1, <2>2
<1> QED  BY <1>2, <1>12, <1>13 DEF Ring

LEMMA AddTailType ==
    ASSUME NEW l \in Links, NEW h \in Cell, NEW c \in Cell
    PROVE  AddTail(l, c, h) \in Links
BY DEF AddTail, Links

\* The cells of a ring.
Ringed(h, m) == {h} \cup ToSet(m)

LEMMA AroundRing ==
    ASSUME NEW h \in Cell, NEW m \in Seq(Cell \ {h}), NEW i
    PROVE  Around(m, h, i) \in Ringed(h, m)
<1>1. m \in [1 .. Len(m) -> Cell \ {h}] /\ DOMAIN m = 1 .. Len(m)
  BY LenProperties
<1> QED  BY <1>1 DEF Around, Ringed, ToSet

\* A ring stays while no cell of it is written.
LEMMA RingFrame ==
    ASSUME NEW l, NEW k, NEW h \in Cell, NEW m \in Seq(Cell \ {h}), Ring(l, h, m),
           \A d \in Ringed(h, m) : k.next[d] = l.next[d] /\ k.prev[d] = l.prev[d]
    PROVE  Ring(k, h, m)
<1>1. \A i : Around(m, h, i) \in Ringed(h, m)
  BY AroundRing
<1> QED  BY <1>1 DEF Ring

LEMMA AddTailOther ==
    ASSUME NEW l \in Links,
           NEW h \in Cell, NEW m \in Seq(Cell \ {h}), Ring(l, h, m),
           NEW g \in Cell, NEW n \in Seq(Cell \ {g}), Ring(l, g, n),
           Ringed(h, m) \cap Ringed(g, n) = {},
           NEW c \in Cell, c \notin Ringed(g, n)
    PROVE  Ring(AddTail(l, c, h), g, n)
<1>1. PICK L \in Nat : L = Len(m) /\ L \in 0 .. Len(m)
  BY LenProperties
<1>2. Around(m, h, L + 1) = h
  BY <1>1 DEF Around
<1>3. PICK e \in Ringed(h, m) : e = l.prev[h]
  <2>1. l.prev[h] = Around(m, h, L)
    BY <1>1, <1>2 DEF Ring
  <2> QED  BY <2>1, AroundRing
<1>4. /\ AddTail(l, c, h).next = [l.next EXCEPT ![c] = h, ![e] = c]
      /\ AddTail(l, c, h).prev = [l.prev EXCEPT ![h] = c, ![c] = e]
  BY <1>3 DEF AddTail
<1>5. ASSUME NEW d \in Ringed(g, n)
      PROVE  AddTail(l, c, h).next[d] = l.next[d] /\ AddTail(l, c, h).prev[d] = l.prev[d]
  <2>1. d # c /\ d # e /\ d # h
    BY DEF Ringed
  <2>2. d \in Cell
    <3>1. n \in [1 .. Len(n) -> Cell \ {g}] /\ DOMAIN n = 1 .. Len(n)
      BY LenProperties
    <3> QED  BY <3>1 DEF Ringed, ToSet
  <2> QED  BY <1>4, <2>1, <2>2 DEF Links
<1> QED  BY <1>5, RingFrame

\* list_del of the first member.
LEMMA DelFirst ==
    ASSUME NEW l \in Links, NEW h \in Cell, NEW m \in Seq(Cell \ {h}), Ring(l, h, m),
           m # <<>>
    PROVE  /\ Ring(Del(l, m[1]), h, Tail(m))
           /\ l.next[h] = m[1] /\ l.prev[m[1]] = h
           /\ l.next[m[1]] = Around(m, h, 2)
           /\ Around(m, h, 2) \in Cell
           /\ m[1] \in Cell /\ m[1] # h
<1> DEFINE t == Tail(m)
<1>1. PICK L \in Nat : L = Len(m) /\ m \in [1 .. L -> Cell \ {h}] /\ L >= 1
  BY LenProperties, EmptySeq
<1>2. /\ t \in Seq(Cell \ {h}) /\ Len(t) = L - 1
      /\ \A i \in 1 .. L - 1 : t[i] = m[i + 1]
  BY <1>1, HeadTailProperties
<1>3. PICK c \in Cell : c = m[1] /\ c # h
  BY <1>1
<1>4. PICK d \in Cell : d = Around(m, h, 2) /\ d # c
  <2>1. CASE L = 1
    BY <1>1, <1>3, <2>1 DEF Around
  <2>2. CASE L > 1
    <3>1. 1 \in 1 .. L /\ 2 \in 1 .. L /\ Around(m, h, 2) = m[2]
      BY <1>1, <2>2 DEF Around
    <3>2. m[2] # m[1]
      BY <1>1, <3>1 DEF Ring
    <3> QED  BY <1>1, <1>3, <3>1, <3>2
  <2> QED  BY <1>1, <2>1, <2>2
<1>5. /\ \A i, j \in 1 .. L : m[i] = m[j] => i = j
      /\ \A i \in 0 .. L :
             /\ l.next[Around(m, h, i)] = Around(m, h, i + 1)
             /\ l.prev[Around(m, h, i + 1)] = Around(m, h, i)
  BY <1>1 DEF Ring
<1>6. Around(m, h, 0) = h /\ Around(m, h, 1) = c /\ Around(m, h, L + 1) = h
  BY <1>1, <1>3 DEF Around
<1>7. l.next[h] = c /\ l.prev[c] = h /\ l.next[c] = d /\ l.prev[d] = c
  <2>1. 0 \in 0 .. L /\ 1 \in 0 .. L /\ 0 + 1 = 1 /\ 1 + 1 = 2
    BY <1>1
  <2> QED  BY <1>4, <1>5, <1>6, <2>1
<1> DEFINE k == Del(l, c)
<1>8. /\ k.next = [l.next EXCEPT ![h] = d, ![c] = Poison]
      /\ k.prev = [l.prev EXCEPT ![d] = h, ![c] = Poison]
  BY <1>7 DEF Del
<1>9. /\ k.next[h] = d /\ k.prev[d] = h
      /\ \A x \in Cell : x # c /\ x # h => k.next[x] = l.next[x]
      /\ \A x \in Cell : x # c /\ x # d => k.prev[x] = l.prev[x]
  BY <1>3, <1>4, <1>8 DEF Links
<1>10. \A i \in 1 .. L : Around(t, h, i) = Around(m, h, i + 1)
  BY <1>1, <1>2 DEF Around
<1>11. Around(t, h, 0) = h
  BY <1>2 DEF Around
<1>12. ASSUME NEW i \in 0 .. L - 1
       PROVE  /\ k.next[Around(t, h, i)] = Around(t, h, i + 1)
              /\ k.prev[Around(t, h, i + 1)] = Around(t, h, i)
  <2>1. CASE i = 0
    <3>1. Around(t, h, 1) = d
      BY <1>1, <1>4, <1>10
    <3> QED  BY <1>9, <1>11, <2>1, <3>1
  <2>2. CASE i # 0
    <3>1. i \in 1 .. L /\ i + 1 \in 1 .. L /\ i + 1 \in 0 .. L /\ 1 \in 1 .. L
             /\ 2 \in 1 .. L /\ i + 2 # 2
      BY <2>2
    <3>2. PICK x \in Cell : x = m[i + 1] /\ x = Around(m, h, i + 1) /\ x # h /\ x # c
      <4>1. m[i + 1] # m[1] /\ Around(m, h, i + 1) = m[i + 1]
        BY <1>1, <1>5, <3>1 DEF Around
      <4> QED  BY <1>1, <1>3, <3>1, <4>1
    <3>3. PICK y \in Cell : y = Around(m, h, i + 2) /\ y # c /\ y # d
      <4>1. CASE i = L - 1
        <5>1. Around(m, h, i + 2) = h
          BY <1>6, <4>1
        <5>2. d = m[2]
          BY <1>1, <1>4, <3>1 DEF Around
        <5> QED  BY <1>1, <1>3, <3>1, <5>1, <5>2
      <4>2. CASE i # L - 1
        <5>1. i + 2 \in 1 .. L
          BY <4>2
        <5>2. m[i + 2] # m[1] /\ m[i + 2] # m[2]
          BY <1>5, <3>1, <5>1
        <5>3. Around(m, h, i + 2) = m[i + 2] /\ d = m[2]
          BY <1>1, <1>4, <3>1, <5>1 DEF Around
        <5> QED  BY <1>1, <1>3, <5>1, <5>2, <5>3
      <4> QED  BY <4>1, <4>2
    <3>4. l.next[x] = y /\ l.prev[y] = x
      <4>1. (i + 1) + 1 = i + 2
        OBVIOUS
      <4> QED  BY <1>5, <3>1, <3>2, <3>3, <4>1
    <3>5. k.next[x] = y /\ k.prev[y] = x
      BY <1>9, <3>2, <3>3, <3>4
    <3>6. Around(t, h, i) = x /\ Around(t, h, i + 1) = y
      <4>1. (i + 1) + 1 = i + 2
        OBVIOUS
      <4> QED  BY <1>10, <3>1, <3>2, <3>3, <4>1
    <3> QED  BY <3>5, <3>6
  <2> QED  BY <2>1, <2>2
<1>13. ASSUME NEW i \in 1 .. L - 1, NEW j \in 1 .. L - 1, t[i] = t[j]
       PROVE  i = j
  <2>1. i + 1 \in 1 .. L /\ j + 1 \in 1 .. L /\ m[i + 1] = m[j + 1]
    BY <1>2, <1>13
  <2>2. i + 1 = j + 1
    BY <1>5, <2>1
  <2> QED  BY <2>2
<1>14. Ring(k, h, t)
  BY <1>2, <1>12, <1>13 DEF Ring
<1> QED  BY <1>3, <1>4, <1>7, <1>14

LEMMA DelFirstOther ==
    ASSUME NEW l \in Links,
           NEW h \in Cell, NEW m \in Seq(Cell \ {h}), Ring(l, h, m), m # <<>>,
           NEW g \in Cell, NEW n \in Seq(Cell \ {g}), Ring(l, g, n),
           Ringed(h, m) \cap Ringed(g, n) = {}
    PROVE  Ring(Del(l, m[1]), g, n)
<1>1. PICK c \in Ringed(h, m), d \in Ringed(h, m) :
          c = m[1] /\ l.prev[c] = h /\ l.next[c] = d
  <2>1. m[1] = Around(m, h, 1)
    BY LenProperties, EmptySeq DEF Around
  <2> QED  BY <2>1, AroundRing, DelFirst
<1>2. /\ Del(l, m[1]).next = [l.next EXCEPT ![h] = d, ![c] = Poison]
      /\ Del(l, m[1]).prev = [l.prev EXCEPT ![d] = h, ![c] = Poison]
  BY <1>1 DEF Del
<1>3. ASSUME NEW x \in Ringed(g, n)
      PROVE  Del(l, m[1]).next[x] = l.next[x] /\ Del(l, m[1]).prev[x] = l.prev[x]
  <2>1. x # c /\ x # d /\ x # h
    BY DEF Ringed
  <2>2. x \in Cell
    <3>1. n \in [1 .. Len(n) -> Cell \ {g}] /\ DOMAIN n = 1 .. Len(n)
      BY LenProperties
    <3> QED  BY <3>1 DEF Ringed, ToSet
  <2> QED  BY <1>2, <2>1, <2>2 DEF Links
<1> QED  BY <1>3, RingFrame

LEMMA DelType ==
    ASSUME NEW l \in Links, NEW c \in Cell, Linked(l, c)
    PROVE  Del(l, c) \in Links
BY DEF Del, Links, Linked

LEMMA FreshType ==
    /\ Fresh({MsgHead, FreeHead}) \in Links
    /\ Ring(Fresh({MsgHead, FreeHead}), MsgHead, <<>>)
    /\ Ring(Fresh({MsgHead, FreeHead}), FreeHead, <<>>)
    /\ \A h \in {MsgHead, FreeHead} : /\ Fresh({MsgHead, FreeHead}).next[h] = h
                                    /\ Fresh({MsgHead, FreeHead}).prev[h] = h
<1> DEFINE l == Fresh({MsgHead, FreeHead})
<1>1. \A h \in {MsgHead, FreeHead} : l.next[h] = h /\ l.prev[h] = h
  BY Cells DEF Fresh
<1>2. \A h, i : Around(<<>>, h, i) = h
  BY DEF Around
<1>3. l \in Links
  BY DEF Fresh, Links
<1> HIDE DEF l
<1>4. \A h \in {MsgHead, FreeHead} : Ring(l, h, <<>>)
  BY <1>1, <1>2 DEF Ring
<1> QED  BY <1>1, <1>3, <1>4 DEF l

\* The nodes in the order in which they are allocated.
LEMMA NodeOrder ==
    /\ SetToSeq(Node) \in [1 .. Cardinality(Node) -> Node]
    /\ \A i, j \in 1 .. Cardinality(Node) : SetToSeq(Node)[i] = SetToSeq(Node)[j] => i = j
    /\ \A n \in Node : \E i \in 1 .. Cardinality(Node) : SetToSeq(Node)[i] = n
<1> DEFINE N == Cardinality(Node)
<1>1. IsFiniteSet(Node) /\ N \in Nat /\ ExistsBijection(1 .. N, Node)
  BY NodeAssumption, FS_CardinalityType
<1>2. PICK b : b \in [1 .. N -> Node] /\ IsInjective(b)
  BY <1>1 DEF ExistsBijection, Bijection, Injection
<1> DEFINE s == SetToSeq(Node)
<1>3. s \in [1 .. N -> Node] /\ IsInjective(s)
  BY <1>2 DEF SetToSeq
<1> HIDE DEF s
<1>4. s \in Injection(1 .. N, Node)
  BY <1>3 DEF Injection
<1>5. IsFiniteSet(1 .. N) /\ Cardinality(1 .. N) = N
  BY <1>1, FS_Interval
<1>6. s \in Surjection(1 .. N, Node)
  BY <1>1, <1>4, <1>5, FS_Injection
<1>7. \A i, j \in 1 .. N : s[i] = s[j] => i = j
  BY <1>3 DEF IsInjective
<1> QED  BY <1>3, <1>6, <1>7 DEF Surjection, s

\* The pool grows by a node at a time.
LEMMA PoolGrows ==
    /\ PoolOf(0) = Fresh({MsgHead, FreeHead})
    /\ \A k \in 1 .. Cardinality(Node) :
           PoolOf(k) = AddTail(PoolOf(k - 1), SetToSeq(Node)[k], FreeHead)
<1>1. PICK N \in Nat : N = Cardinality(Node)
  BY Cells
<1> DEFINE s == SetToSeq(Node)
           F == Fresh({MsgHead, FreeHead})
           step == [n \in Nat |-> [l \in Links |->
                       IF n \in 1 .. N THEN AddTail(l, s[n], FreeHead) ELSE l]]
<1>2. \A n \in 1 .. N : s[n] \in Cell
  BY <1>1, NodeOrder, Cells
<1>3. F \in Links
  BY FreshType
<1> HIDE DEF s, F
<1>4. \A n \in Nat, l \in Links : step[n][l] = IF n \in 1 .. N THEN AddTail(l, s[n], FreeHead) ELSE l
  OBVIOUS
<1> HIDE DEF step
<1>5. Closed(step, Links)
  BY <1>2, <1>4, Cells, AddTailType DEF Closed
<1>6. PICK f \in [Nat -> Links] : Runs(f, F, step)
  BY <1>3, <1>5, Recursion
<1> DEFINE Def(g) == [n \in 0 .. N |-> IF n = 0 THEN F ELSE AddTail(g[n - 1], s[n], FreeHead)]
           g0 == [n \in 0 .. N |-> f[n]]
           g1 == CHOOSE g : g = Def(g)
<1>7. g0 = Def(g0)
  <2>1. f[0] = F
    BY <1>6 DEF Runs
  <2>2. ASSUME NEW n \in 1 .. N
        PROVE  f[n] = AddTail(f[n - 1], s[n], FreeHead)
    <3>1. n - 1 \in Nat /\ (n - 1) + 1 = n /\ n \in Nat /\ f[n - 1] \in Links
      OBVIOUS
    <3>2. f[n] = step[n][f[n - 1]]
      BY <1>6, <3>1 DEF Runs
    <3> QED  BY <1>4, <3>1, <3>2
  <2>3. \A n \in 0 .. N : g0[n] = IF n = 0 THEN F ELSE AddTail(g0[n - 1], s[n], FreeHead)
    <3> SUFFICES ASSUME NEW n \in 0 .. N
                 PROVE  g0[n] = IF n = 0 THEN F ELSE AddTail(g0[n - 1], s[n], FreeHead)
      OBVIOUS
    <3>1. CASE n = 0
      BY <2>1, <3>1
    <3>2. CASE n # 0
      <4>1. n \in 1 .. N /\ n - 1 \in 0 .. N
        BY <3>2
      <4> QED  BY <2>2, <3>2, <4>1
    <3> QED  BY <3>1, <3>2
  <2> QED  BY <2>3
<1>8. g1 = Def(g1)
  BY <1>7
<1>9. \A k : PoolOf(k) = g1[k]
  BY <1>1 DEF PoolOf, F, s
<1> HIDE DEF g1
<1>10. g1[0] = F
  BY <1>8
<1>11. ASSUME NEW k \in 1 .. N
       PROVE  g1[k] = AddTail(g1[k - 1], s[k], FreeHead)
  <2>1. k \in 0 .. N /\ k # 0
    OBVIOUS
  <2> QED  BY <1>8, <2>1
<1> QED  BY <1>1, <1>9, <1>10, <1>11 DEF F, s

LEMMA PoolRing ==
    ASSUME NEW k \in 0 .. Cardinality(Node)
    PROVE  /\ PoolOf(k) \in Links
           /\ Ring(PoolOf(k), MsgHead, <<>>)
           /\ \E m \in Seq(Node) :
                 /\ Ring(PoolOf(k), FreeHead, m) /\ Len(m) = k
                 /\ k = Cardinality(Node) => ToSet(m) = Node
<1>1. PICK N \in Nat : N = Cardinality(Node)
  BY Cells
<1> DEFINE s == SetToSeq(Node)
           Good(n, m) == /\ m \in Seq(Node) /\ Len(m) = n
                         /\ \A i \in 1 .. n : m[i] = s[i]
                         /\ PoolOf(n) \in Links /\ Ring(PoolOf(n), FreeHead, m)
                         /\ Ring(PoolOf(n), MsgHead, <<>>)
           P == {n \in Nat : n <= N => \E m : Good(n, m)}
<1>2. /\ s \in [1 .. N -> Node]
      /\ \A i, j \in 1 .. N : s[i] = s[j] => i = j
      /\ \A n \in Node : \E i \in 1 .. N : s[i] = n
  BY <1>1, NodeOrder
<1> HIDE DEF s
<1>3. Good(0, <<>>)
  BY FreshType, PoolGrows, EmptySeq
<1>4. ASSUME NEW n \in Nat, n + 1 <= N, NEW m, Good(n, m)
      PROVE  Good(n + 1, Append(m, s[n + 1]))
  <2> DEFINE l == PoolOf(n)
             c == s[n + 1]
             t == Append(m, c)
  <2>1. n + 1 \in 1 .. N /\ c \in Node /\ (n + 1) - 1 = n
    BY <1>2, <1>4
  <2>2. PoolOf(n + 1) = AddTail(l, c, FreeHead)
    BY <1>1, <2>1, PoolGrows DEF s
  <2>3. /\ m \in Seq(Node) /\ Len(m) = n /\ \A i \in 1 .. n : m[i] = s[i]
        /\ l \in Links /\ Ring(l, FreeHead, m) /\ Ring(l, MsgHead, <<>>)
    BY <1>4
  <2> HIDE DEF l, c
  <2>4. t \in Seq(Node) /\ Len(t) = n + 1 /\ t[n + 1] = c /\ \A i \in 1 .. n : t[i] = m[i]
    BY <2>1, <2>3, AppendProperties
  <2>5. \A i \in 1 .. n + 1 : t[i] = s[i]
    BY <2>3, <2>4 DEF c
  <2>6. ToSet(m) \subseteq Node /\ c \notin ToSet(m)
    <3>1. DOMAIN m = 1 .. n /\ \A i \in 1 .. n : m[i] \in Node
      BY <2>3, LenProperties
    <3>2. \A i \in 1 .. n : m[i] # c
      <4> SUFFICES ASSUME NEW i \in 1 .. n, m[i] = c
                   PROVE  FALSE
        OBVIOUS
      <4>1. i \in 1 .. N /\ s[i] = s[n + 1]
        BY <2>1, <2>3 DEF c
      <4> QED  BY <1>2, <2>1, <4>1
    <3> QED  BY <3>1, <3>2 DEF ToSet
  <2>7. /\ m \in Seq(Cell \ {FreeHead}) /\ <<>> \in Seq(Cell \ {MsgHead})
        /\ c \in Cell \ {FreeHead} /\ FreeHead \in Cell /\ MsgHead \in Cell
    <3>1. Node \subseteq Cell \ {FreeHead}
      BY Cells
    <3> QED  BY <2>1, <2>3, <3>1, Cells, SeqMonotonic, EmptySeq
  <2>8. ToSet(<<>>) = {}
    BY DEF ToSet
  <2>9. /\ Ringed(FreeHead, m) \cap Ringed(MsgHead, <<>>) = {}
        /\ c \notin Ringed(MsgHead, <<>>)
    BY <2>1, <2>6, <2>8, Cells DEF Ringed
  <2>10. Ring(AddTail(l, c, FreeHead), FreeHead, t)
    BY <2>3, <2>6, <2>7, AddTailRing
  <2>11. Ring(AddTail(l, c, FreeHead), MsgHead, <<>>)
    BY <2>3, <2>7, <2>9, AddTailOther
  <2>12. AddTail(l, c, FreeHead) \in Links
    BY <2>3, <2>7, AddTailType
  <2> QED  BY <2>2, <2>4, <2>5, <2>10, <2>11, <2>12
<1>5. P = Nat
  <2> HIDE DEF Good
  <2>1. 0 \in P
    BY <1>3
  <2>2. ASSUME NEW n \in P
        PROVE  n + 1 \in P
    BY <1>4
  <2> HIDE DEF P
  <2>3. P \in SUBSET Nat
    BY DEF P
  <2> QED  BY <2>1, <2>2, <2>3, NatInd
<1>6. k \in Nat /\ k <= N
  BY <1>1
<1>7. PICK m : Good(k, m)
  BY <1>5, <1>6
<1>8. k = N => ToSet(m) = Node
  <2>1. DOMAIN m = 1 .. k /\ \A i \in 1 .. k : m[i] \in Node
    BY <1>7, LenProperties
  <2> QED  BY <1>2, <1>7, <2>1 DEF ToSet
<1> QED  BY <1>1, <1>7, <1>8

-----------------------------------------------------------------------------
(* The inductive invariant.                                                *)

ListHead == {MsgHead, FreeHead}

\* The heads of the lists are never deleted,
Heads == \A h \in ListHead : link.next[h] \in Cell /\ link.prev[h] \in Cell

\* the thread lives no longer than its module, and sends nothing after its time,
Phases ==
    /\ module.pc \notin {"on", "stop"} => thread.pc \in {"none", "ended"}
    /\ module.pc = "absent" => thread.pc = "none"
    /\ module.pc = "kfree" => module.pos \in Node
    /\ limited => expired
    /\ thread.pc \in {"del", "put"} => ~limited
    /\ thread.pc = "lapse" => limited
    /\ thread.pc = "none" => ~hooked /\ module.pc # "stop"
    /\ thread.pc = "none" /\ ~broken => \A c \in Cpu : enq[c].pc = "idle"

\* a call has an event and, from the pool to the queue, a node,
Filled(c) == enq[c].pc = "fill"

Calls ==
    \A c \in Cpu : /\ enq[c].pc \in {"get", "fill"} => enq[c].event \in Event
                   /\ Filled(c) => enq[c].node \in Node

\* and what is asked for stays within its bound.
Credits ==
    /\ UnderWay + (IF client = "ask" THEN 1 ELSE 0) <= MaxCredit
    /\ client = "down" => answers = 0

\* The queue is q and the pool is p.  The thread is at the first of the queue,
\* or has just taken it out, and has seen the one behind it or the end.
Lists(q, p) ==
    /\ Ring(link, MsgHead, q) /\ Ring(link, FreeHead, p)
    /\ ToSet(q) \cap ToSet(p) = {}
    /\ Hands \cap (ToSet(q) \cup ToSet(p)) = {}
    /\ thread.pc # "none" => ToSet(q) \cup ToSet(p) \cup Hands = Node
    /\ thread.pc = "none" => q = <<>>
    /\ \A c, d \in Cpu : Filled(c) /\ Filled(d) /\ enq[c].node = enq[d].node => c = d
    /\ thread.pc = "put" =>
          thread.pos \in Node /\ \A c \in Cpu : Filled(c) => enq[c].node # thread.pos
    /\ thread.pc \in {"wait", "check", "del"} =>
          /\ q # <<>> /\ thread.pos = q[1]
          /\ thread.nxt \in {MsgHead, Around(q, MsgHead, 2)}
    /\ thread.pc \in {"put", "advance"} =>
          thread.nxt \in {MsgHead, Around(q, MsgHead, 1)}

ListsOK == Working => \E q, p \in Seq(Node) : Lists(q, p)

IndInv == TypeOK /\ Heads /\ Phases /\ Calls /\ Credits /\ ListsOK

LEMMA NodeSeq ==
    ASSUME NEW q \in Seq(Node), NEW h \in ListHead
    PROVE  /\ q \in Seq(Cell \ {h}) /\ ToSet(q) \subseteq Node
           /\ h \in Cell /\ Len(q) \in Nat
           /\ \A i : Around(q, h, i) \in Node \cup {h}
<1>1. Node \subseteq Cell \ {h} /\ h \in Cell
  BY Cells DEF ListHead
<1>2. q \in Seq(Cell \ {h})
  BY <1>1, SeqMonotonic
<1>3. Len(q) \in Nat /\ q \in [1 .. Len(q) -> Node] /\ DOMAIN q = 1 .. Len(q)
  BY LenProperties
<1> QED  BY <1>1, <1>2, <1>3 DEF ToSet, Around

LEMMA Rings ==
    ASSUME NEW q \in Seq(Node), NEW p \in Seq(Node), ToSet(q) \cap ToSet(p) = {}
    PROVE  Ringed(MsgHead, q) \cap Ringed(FreeHead, p) = {}
BY NodeSeq, Cells DEF Ringed, ListHead

\* list_add_tail never meets a poisoned head.
LEMMA PutAdds ==
    ASSUME TypeOK, Heads, NEW c \in Cell, NEW h \in ListHead, Put(c, h)
    PROVE  /\ link' = AddTail(link, c, h) /\ broken' = broken
           /\ link' \in Links /\ Heads'
<1>1. h \in Cell /\ ListHead \subseteq Cell
  BY Cells DEF ListHead
<1>2. link.prev[h] \in Cell /\ link.prev[h] # Poison /\ link \in Links
  BY Cells DEF TypeOK, Heads
<1>3. link' = AddTail(link, c, h) /\ broken' = broken
  BY <1>2 DEF Put
<1>4. link' \in Links
  BY <1>1, <1>2, <1>3, AddTailType
<1>5. PICK e \in Cell : e = link.prev[h]
  BY <1>2
<1>6. /\ link'.next = [link.next EXCEPT ![c] = h, ![e] = c]
      /\ link'.prev = [link.prev EXCEPT ![h] = c, ![c] = e]
  BY <1>3, <1>5 DEF AddTail
<1>7. ASSUME NEW g \in ListHead
      PROVE  link'.next[g] \in Cell /\ link'.prev[g] \in Cell
  <2>1. g \in Cell /\ link.next[g] \in Cell /\ link.prev[g] \in Cell
    BY <1>1 DEF Heads
  <2> QED  BY <1>1, <1>2, <1>5, <1>6, <2>1 DEF Links
<1> QED  BY <1>3, <1>4, <1>7 DEF Heads

LEMMA DelKeeps ==
    ASSUME TypeOK, Heads, NEW c \in Node, Linked(link, c), link' = Del(link, c)
    PROVE  link' \in Links /\ Heads'
<1>1. c \in Cell /\ link \in Links /\ ListHead \subseteq Cell /\ c \notin ListHead
  BY Cells DEF TypeOK, ListHead
<1>2. PICK d \in Cell, e \in Cell : d = link.next[c] /\ e = link.prev[c]
  BY <1>1 DEF Linked, Links
<1>3. /\ link'.next = [link.next EXCEPT ![e] = d, ![c] = Poison]
      /\ link'.prev = [link.prev EXCEPT ![d] = e, ![c] = Poison]
  BY <1>2 DEF Del
<1>4. ASSUME NEW g \in ListHead
      PROVE  link'.next[g] \in Cell /\ link'.prev[g] \in Cell
  <2>1. g \in Cell /\ link.next[g] \in Cell /\ link.prev[g] \in Cell /\ g # c
    BY <1>1 DEF Heads
  <2> QED  BY <1>1, <1>2, <1>3, <2>1 DEF Links
<1> QED  BY <1>1, <1>4, DelType DEF Heads

\* The thread deletes the first of a sound queue.
LEMMA AtDel ==
    ASSUME IndInv, ThreadDel
    PROVE  /\ Working
           /\ thread.pos \in Node /\ Linked(link, thread.pos)
           /\ thread.nxt \in Cell
<1>1. Working
  <2>1. thread.pc = "del" /\ ~broken
    BY DEF ThreadDel, ThreadGoes
  <2>2. module.pc \in {"on", "stop"} /\ ~limited
    BY <2>1 DEF IndInv, Phases
  <2> QED  BY <2>1, <2>2 DEF Working
<1>2. PICK q, p \in Seq(Node) : Lists(q, p)
  BY <1>1 DEF IndInv, ListsOK
<1>3. /\ q # <<>> /\ thread.pos = q[1] /\ Ring(link, MsgHead, q)
      /\ thread.nxt \in {MsgHead, Around(q, MsgHead, 2)}
  BY <1>2 DEF Lists, ThreadDel, ThreadGoes
<1>4. link \in Links /\ q \in Seq(Cell \ {MsgHead}) /\ MsgHead \in Cell
  BY NodeSeq DEF IndInv, TypeOK, ListHead
<1>5. /\ link.next[q[1]] \in Cell /\ link.prev[q[1]] \in Cell
      /\ Around(q, MsgHead, 2) \in Cell
  BY <1>3, <1>4, DelFirst
<1>6. q[1] \in Node
  BY <1>3, LenProperties, EmptySeq, ElementOfSeq
<1> QED  BY <1>1, <1>3, <1>4, <1>5, <1>6, Cells DEF Linked

-----------------------------------------------------------------------------
(* Every step preserves the parts of the invariant.                        *)

\* The head of a ring of nodes links to cells.
LEMMA RingHead ==
    ASSUME NEW l, NEW h \in ListHead, NEW q \in Seq(Node), Ring(l, h, q)
    PROVE  l.next[h] \in Cell /\ l.prev[h] \in Cell
<1>1. PICK L \in Nat : L = Len(q) /\ 0 \in 0 .. L /\ L \in 0 .. L
  BY NodeSeq
<1>2. Around(q, h, 0) = h /\ Around(q, h, L + 1) = h
  BY <1>1 DEF Around
<1>3. l.next[h] = Around(q, h, 0 + 1) /\ l.prev[h] = Around(q, h, L)
  BY <1>1, <1>2 DEF Ring
<1> QED  BY <1>3, NodeSeq, Cells DEF ListHead

LEMMA NextType ==
    ASSUME IndInv, [Next]_vars
    PROVE  TypeOK' /\ Heads'
<1> DEFINE G == TypeOK' /\ Heads'
<1>0. TypeOK /\ Heads /\ Calls /\ Credits
  BY DEF IndInv
<1> SUFFICES G
  OBVIOUS
<1>1. ASSUME NEW c \in Cpu, NEW e \in Event, EnqTest(c, e)
      PROVE  G
  BY <1>1, <1>0 DEF EnqTest, TypeOK, Heads, moduleVars, clientVars, history
<1>2. ASSUME NEW c \in Cpu, EnqGet(c)
      PROVE  G
  <2>1. PICK n : n = link.next[FreeHead]
    OBVIOUS
  <2>2. CASE n \in Node /\ Linked(link, n)
    <3>1. /\ link' = Del(link, n) /\ broken' = broken
          /\ enq' = [enq EXCEPT ![c].pc = "fill", ![c].node = n]
      BY <1>2, <2>1, <2>2 DEF EnqGet
    <3>2. link' \in Links /\ Heads'
      BY <1>0, <2>2, <3>1, DelKeeps
    <3> QED  BY <1>2, <1>0, <2>2, <3>1, <3>2 DEF EnqGet, TypeOK, moduleVars, clientVars, history
  <2>3. CASE ~(n \in Node /\ Linked(link, n))
    <3>1. broken' = TRUE /\ link' = link /\ enq' = enq
      BY <1>2, <2>1, <2>3 DEF EnqGet
    <3> QED  BY <1>2, <1>0, <3>1 DEF EnqGet, TypeOK, Heads, moduleVars, clientVars, history
  <2> QED  BY <2>2, <2>3
<1>3. ASSUME NEW c \in Cpu, EnqAdd(c)
      PROVE  G
  <2>1. enq[c].node \in Node /\ enq[c].node \in Cell /\ MsgHead \in ListHead /\ enq[c].event \in Event
    BY <1>3, <1>0, Cells DEF EnqAdd, Calls, Filled, ListHead
  <2>2. link' \in Links /\ Heads' /\ broken' = broken
    BY <1>3, <1>0, <2>1, PutAdds DEF EnqAdd
  <2> QED  BY <1>3, <1>0, <2>1, <2>2
              DEF EnqAdd, NoCall, TypeOK, moduleVars, clientVars, history
<1>4. ASSUME NEW c \in Cpu, EnqWake(c)
      PROVE  G
  <2>1. broken' \in BOOLEAN
    BY <1>4 DEF EnqWake
  <2> QED  BY <1>4, <1>0, <2>1 DEF EnqWake, NoCall, TypeOK, Heads, moduleVars, clientVars, history
<1>5. CASE ThreadLoop
  <2>1. thread'.pc \in {"ended", "mark"} /\ thread' = [thread EXCEPT !.pc = thread'.pc]
    BY <1>5, <1>0 DEF ThreadLoop, ThreadGoes, TypeOK
  <2> QED  BY <1>5, <1>0, <2>1 DEF ThreadLoop, ThreadGoes, TypeOK, Heads, moduleVars, clientVars, history
<1>6. CASE ThreadMark
  BY <1>0, <1>6 DEF ThreadMark, TypeOK, Heads, moduleVars, clientVars, history
<1>7. CASE ThreadTest
  BY <1>0, <1>7 DEF ThreadTest, ThreadGoes, TypeOK, Heads, moduleVars, clientVars, history
<1>8. CASE ThreadSleep
  BY <1>0, <1>8 DEF ThreadSleep, ThreadGoes, TypeOK, Heads, moduleVars, clientVars, history
<1>9. CASE ThreadScan
  <2>1. link.next[MsgHead] \in Cell /\ MsgHead \in Cell
    BY <1>0, Cells DEF Heads, ListHead
  <2>2. link.next[link.next[MsgHead]] \in Cell \cup {Poison}
    BY <1>0, <2>1 DEF TypeOK, Links
  <2> QED  BY <1>9, <1>0, <2>1, <2>2 DEF ThreadScan, AtLoop, TypeOK, Heads, moduleVars, clientVars, history
<1>10. CASE ThreadWait
  <2>1. credit - 1 \in 0 .. MaxCredit
    BY <1>10, <1>0, CreditAssumption DEF ThreadWait, TypeOK
  <2> QED  BY <1>10, <1>0, <2>1 DEF ThreadWait, ThreadGoes, TypeOK, Heads, moduleVars, clientVars, history
<1>11. CASE ThreadLimit
  BY <1>0, <1>11 DEF ThreadLimit, ThreadGoes, TypeOK, Heads, moduleVars, clientVars, history
<1>12. CASE ThreadLapse
  <2>1. thread.pos \in Cell /\ FreeHead \in ListHead
    BY <1>0 DEF TypeOK, ListHead
  <2>2. link' \in Links /\ Heads' /\ broken' = broken
    BY <1>12, <1>0, <2>1, PutAdds DEF ThreadLapse
  <2> QED  BY <1>12, <1>0, <2>2 DEF ThreadLapse, TypeOK, moduleVars, clientVars, history
<1>13. CASE ThreadSend
  <2>1. answers' \in 0 .. MaxCredit
    <3>1. credit \in Nat /\ answers \in Nat /\ UnderWay = credit + 1 + answers
      BY <1>13, <1>0 DEF ThreadSend, ThreadGoes, UnderWay, TypeOK
    <3>2. UnderWay <= MaxCredit /\ MaxCredit \in Nat
      BY <1>0, <3>1, CreditAssumption DEF Credits
    <3>3. answers' \in {answers, answers + 1}
      BY <1>13 DEF ThreadSend
    <3> QED  BY <3>1, <3>2, <3>3
  <2> QED  BY <1>13, <1>0, <2>1 DEF ThreadSend, ThreadGoes, TypeOK, Heads, moduleVars, clientVars, history
<1>14. CASE ThreadFail
  BY <1>0, <1>14 DEF ThreadFail, ThreadGoes, TypeOK, Heads, moduleVars, clientVars, history
<1>15. CASE ThreadDel
  <2>1. thread.pos \in Node /\ Linked(link, thread.pos)
    BY <1>15, AtDel
  <2>2. link' \in Links /\ Heads'
    BY <1>15, <1>0, <2>1, DelKeeps DEF ThreadDel
  <2> QED  BY <1>15, <1>0, <2>2 DEF ThreadDel, ThreadGoes, TypeOK, moduleVars, clientVars, history
<1>16. CASE ThreadPut
  <2>1. thread.pos \in Cell /\ FreeHead \in ListHead
    BY <1>0 DEF TypeOK, ListHead
  <2>2. link' \in Links /\ Heads' /\ broken' = broken
    BY <1>16, <1>0, <2>1, PutAdds DEF ThreadPut
  <2> QED  BY <1>16, <1>0, <2>2 DEF ThreadPut, TypeOK, moduleVars, clientVars, history
<1>17. CASE ThreadAdvance
  <2>1. CASE thread.nxt = Poison \/ thread.nxt = MsgHead
    <3>1. broken' \in BOOLEAN /\ thread' \in {thread, AtLoop}
      BY <1>17, <1>0, <2>1 DEF ThreadAdvance, TypeOK
    <3>2. thread' = thread \/ thread' = AtLoop
      BY <3>1
    <3>3. CASE thread' = thread
      BY <1>17, <1>0, <3>1, <3>3 DEF ThreadAdvance, TypeOK, Heads, moduleVars, clientVars, history
    <3>4. CASE thread' = AtLoop
      BY <1>17, <1>0, <3>1, <3>4, Cells
         DEF ThreadAdvance, AtLoop, TypeOK, Heads, moduleVars, clientVars, history
    <3> QED  BY <3>2, <3>3, <3>4
  <2>2. CASE thread.nxt # Poison /\ thread.nxt # MsgHead
    <3>1. thread.nxt \in Cell /\ link.next[thread.nxt] \in Cell \cup {Poison}
      BY <1>0, <2>2 DEF TypeOK, Links
    <3>2. thread' = [thread EXCEPT !.pc = "wait", !.pos = thread.nxt, !.nxt = link.next[thread.nxt]]
             /\ broken' = broken
      BY <1>17, <2>2 DEF ThreadAdvance
    <3> QED  BY <1>17, <1>0, <3>1, <3>2 DEF ThreadAdvance, TypeOK, Heads, moduleVars, clientVars, history
  <2> QED  BY <2>1, <2>2
<1>18. CASE ClientStart
  BY <1>0, <1>18 DEF ClientStart, TypeOK, Heads, moduleVars, clientVars, history
<1>19. CASE ClientAsk
  <2>1. credit' \in 0 .. MaxCredit
    <3>1. PICK u \in {0, 1} : u = IF thread.pc = "check" THEN 1 ELSE 0
      OBVIOUS
    <3>2. credit \in Nat /\ answers \in Nat /\ MaxCredit \in Nat
             /\ credit + u + answers + 1 <= MaxCredit
      BY <1>19, <1>0, <3>1, CreditAssumption DEF ClientAsk, Credits, UnderWay, TypeOK
    <3>3. credit' \in {credit, credit + 1}
      BY <1>19 DEF ClientAsk
    <3> QED  BY <3>2, <3>3
  <2> QED  BY <1>19, <1>0, <2>1 DEF ClientAsk, TypeOK, Heads, moduleVars, clientVars, history
<1>20. CASE ClientReceive
  <2>1. answers - 1 \in 0 .. MaxCredit
    BY <1>20, <1>0, CreditAssumption DEF ClientReceive, TypeOK
  <2> QED  BY <1>20, <1>0, <2>1 DEF ClientReceive, TypeOK, Heads, moduleVars, clientVars, history
<1>21. CASE ClientEnd
  <2>1. 0 \in 0 .. MaxCredit
    BY CreditAssumption
  <2> QED  BY ZenonT(60), <1>21, <1>0, <2>1 DEF ClientEnd, TypeOK, Heads, moduleVars, clientVars, history
<1>22. CASE Load
  <2>1. PICK k \in 0 .. Cardinality(Node) :
           /\ link' = PoolOf(k)
           /\ thread' = IF k = Cardinality(Node) THEN AtLoop ELSE [AtLoop EXCEPT !.pc = "none"]
           /\ hooked' = (k = Cardinality(Node) /\ ~expired)
    BY <1>22 DEF Load
  <2>2. link' \in Links /\ Heads'
    <3>1. link' \in Links /\ Ring(link', MsgHead, <<>>)
      BY <2>1, PoolRing
    <3>2. PICK m \in Seq(Node) : Ring(link', FreeHead, m)
      BY <2>1, PoolRing
    <3>3. <<>> \in Seq(Node)
      OBVIOUS
    <3>4. \A h \in ListHead, q \in Seq(Node) : Ring(link', h, q) =>
              link'.next[h] \in Cell /\ link'.prev[h] \in Cell
      BY RingHead
    <3> QED  BY <3>1, <3>2, <3>3, <3>4 DEF Heads, ListHead
  <2>3. 0 \in 0 .. MaxCredit /\ MsgHead \in Cell
    BY CreditAssumption, Cells
  <2>4. /\ thread' \in [pc : {"none", "loop"}, pos : Cell, nxt : Cell \cup {Poison},
                          task : {"running", "interruptible"}]
        /\ hooked' \in BOOLEAN
    BY <2>1, <2>3 DEF AtLoop
  <2>5. module' \in [pc : {"on"}, pos : {FreeHead}, nxt : {FreeHead}] /\ FreeHead \in Cell
    BY <1>22, Cells DEF Load
  <2>6. /\ limited' \in BOOLEAN /\ orphan' \in BOOLEAN /\ restarted' \in BOOLEAN
        /\ msg' \in [Node -> Event \cup {NoEvent}]
    BY <1>22, <1>0 DEF Load, TypeOK
  <2>7. module' \in [pc : {"absent", "on", "stop", "first", "walk", "kfree", "unhook"},
                     pos : Node \cup {FreeHead}, nxt : Cell \cup {Poison}]
    BY <2>5
  <2>8. thread' \in [pc : {"none", "loop", "mark", "test", "sleep", "scan", "wait", "check",
                            "lapse", "del", "put", "advance", "dead", "ended"},
                      pos : Cell, nxt : Cell \cup {Poison}, task : {"running", "interruptible"}]
    BY <2>4
  <2>9. credit' \in 0 .. MaxCredit /\ UNCHANGED <<enq, expired, client, answers, broken>>
    BY <1>22, <2>3 DEF Load, clientVars
  <2> QED  BY <1>0, <2>2, <2>4, <2>6, <2>7, <2>8, <2>9 DEF TypeOK
<1>23. CASE ExitStop
  BY <1>0, <1>23 DEF ExitStop, TypeOK, Heads, moduleVars, clientVars, history
<1>24. CASE ExitJoin
  BY <1>0, <1>24 DEF ExitJoin, TypeOK, Heads, moduleVars, clientVars, history
<1>25. CASE ExitWalk
  <2>1. PICK p : p = IF module.pc = "first" THEN link.next[FreeHead] ELSE module.nxt
    OBVIOUS
  <2>2. CASE p \notin Node \cup {FreeHead}
    BY <1>25, <1>0, <2>1, <2>2 DEF ExitWalk, TypeOK, Heads, clientVars, history
  <2>3. CASE p \in Node \cup {FreeHead}
    <3>1. link.next[p] \in Cell \cup {Poison}
      BY <1>0, <2>3, Cells DEF TypeOK, Links
    <3>2. /\ broken' = broken
          /\ module' = [pc |-> IF p = FreeHead THEN "unhook" ELSE "kfree", pos |-> p,
                        nxt |-> link.next[p]]
      BY <1>25, <2>1, <2>3 DEF ExitWalk
    <3>3. module' \in [pc : {"absent", "on", "stop", "first", "walk", "kfree", "unhook"},
                       pos : Node \cup {FreeHead}, nxt : Cell \cup {Poison}]
      BY <2>3, <3>1, <3>2
    <3> QED  BY <1>25, <1>0, <3>2, <3>3 DEF ExitWalk, TypeOK, Heads, clientVars, history
  <2> QED  BY <2>2, <2>3
<1>26. CASE ExitFree
  <2>1. module.pos \in Node
    BY <1>26 DEF ExitFree, IndInv, Phases
  <2>2. link' \in Links /\ Heads' /\ broken' \in BOOLEAN
    <3>1. CASE Linked(link, module.pos)
      BY <1>26, <1>0, <2>1, <3>1, DelKeeps DEF ExitFree, TypeOK
    <3>2. CASE ~Linked(link, module.pos)
      BY <1>26, <1>0, <3>2 DEF ExitFree, TypeOK, Heads
    <3> QED  BY <3>1, <3>2
  <2> QED  BY <1>26, <1>0, <2>2 DEF ExitFree, TypeOK, clientVars, history
<1>27. CASE ExitUnhook
  <2>1. link' \in Links /\ Heads'
    BY <1>27, FreshType, Cells DEF ExitUnhook, Heads, ListHead
  <2>2. 0 \in 0 .. MaxCredit /\ MsgHead \in Cell
    BY CreditAssumption, Cells
  <2>3. broken' \in BOOLEAN
    BY <1>27 DEF ExitUnhook
  <2>4. module' \in [pc : {"absent"}, pos : {FreeHead}, nxt : {FreeHead}] /\ FreeHead \in Cell
    BY <1>27, Cells DEF ExitUnhook
  <2>5. thread' \in [pc : {"none"}, pos : {MsgHead}, nxt : {MsgHead}, task : {"running"}]
    BY <1>27 DEF ExitUnhook, AtLoop
  <2> QED  BY <1>27, <1>0, <2>1, <2>2, <2>3, <2>4, <2>5
              DEF ExitUnhook, TypeOK, clientVars, history
<1>28. CASE Expire
  BY <1>0, <1>28 DEF Expire, TypeOK, Heads, moduleVars, clientVars, history
<1>29. CASE UNCHANGED vars
  BY <1>0, <1>29 DEF vars, moduleVars, clientVars, history, TypeOK, Heads
<1> QED
  BY <1>1, <1>2, <1>3, <1>4, <1>5, <1>6, <1>7, <1>8, <1>9, <1>10, <1>11, <1>12, <1>13, <1>14, <1>15, <1>16, <1>17, <1>18, <1>19, <1>20, <1>21, <1>22, <1>23, <1>24, <1>25, <1>26, <1>27, <1>28, <1>29
     DEF Next, EnqOn, Thread, ClientOn, Exit

LEMMA AdvanceGoes ==
    ASSUME TypeOK, ThreadAdvance
    PROVE  thread.pc = "advance" /\ thread'.pc \in {"loop", "wait", "advance"}
<1>1. CASE thread.nxt = Poison
  BY <1>1 DEF ThreadAdvance
<1>2. CASE thread.nxt # Poison /\ thread.nxt = MsgHead
  BY <1>2 DEF ThreadAdvance, AtLoop
<1>3. CASE thread.nxt # Poison /\ thread.nxt # MsgHead
  BY <1>3 DEF ThreadAdvance, TypeOK
<1> QED  BY <1>1, <1>2, <1>3

LEMMA NextPhases ==
    ASSUME IndInv, [Next]_vars
    PROVE  Phases' /\ Calls'
<1> DEFINE G == Phases' /\ Calls'
<1>0. TypeOK /\ Phases /\ Calls
  BY DEF IndInv
<1>100. thread.pc = "none" /\ ~broken => \A c \in Cpu : enq[c].pc = "idle"
  BY <1>0 DEF Phases
<1> SUFFICES G
  OBVIOUS
<1>1. ASSUME NEW c \in Cpu, NEW e \in Event, EnqTest(c, e)
      PROVE  G
  <2>1. thread.pc # "none" /\ enq' = [enq EXCEPT ![c] = [pc |-> "get", node |-> FreeHead, event |-> e]]
    BY <1>1, <1>0 DEF EnqTest, Phases
  <2>2. Calls'
    BY <1>0, <2>1 DEF TypeOK, Calls, Filled
  <2>3. Phases'
    BY <1>1, <1>0, <2>1 DEF EnqTest, Phases, moduleVars
  <2> QED  BY <2>2, <2>3
<1>2. ASSUME NEW c \in Cpu, EnqGet(c)
      PROVE  G
  <2>1. enq[c].pc = "get" /\ ~broken
    BY <1>2 DEF EnqGet
  <2>2. thread.pc # "none"
    BY <1>100, <2>1
  <2>3. Phases'
    BY <1>2, <1>0, <2>2 DEF EnqGet, Phases, moduleVars
  <2>4. PICK n : n = link.next[FreeHead]
    OBVIOUS
  <2>5. CASE n \in Node /\ Linked(link, n)
    <3>1. enq' = [enq EXCEPT ![c].pc = "fill", ![c].node = n]
      BY <1>2, <2>4, <2>5 DEF EnqGet
    <3>2. /\ enq'[c].node = n /\ enq'[c].event = enq[c].event
          /\ \A d \in Cpu : d # c => enq'[d] = enq[d]
      BY <1>0, <3>1 DEF TypeOK
    <3>3. Calls'
      BY <1>0, <2>1, <2>5, <3>2 DEF Calls, Filled
    <3> QED  BY <2>3, <3>3
  <2>6. CASE ~(n \in Node /\ Linked(link, n))
    <3>1. enq' = enq
      BY <1>2, <2>4, <2>6 DEF EnqGet
    <3> QED  BY <1>0, <2>3, <3>1 DEF Calls, Filled
  <2> QED  BY <2>5, <2>6
<1>3. ASSUME NEW c \in Cpu, EnqAdd(c)
      PROVE  G
  <2>1. enq[c].pc # "idle" /\ ~broken
    BY <1>3 DEF EnqAdd
  <2>2. thread.pc # "none"
    BY <1>100, <2>1
  <2>3. enq' = [enq EXCEPT ![c] = [NoCall EXCEPT !.pc = "wake"]]
    BY <1>3 DEF EnqAdd
  <2>4. enq'[c].pc \notin {"get", "fill"} /\ \A d \in Cpu : d # c => enq'[d] = enq[d]
    BY <1>0, <2>3 DEF TypeOK, NoCall
  <2>5. Calls'
    BY <1>3, <1>0, <2>3, <2>4 DEF EnqAdd, Calls, Filled
  <2>6. Phases'
    BY <1>3, <1>0, <2>2 DEF EnqAdd, TypeOK, Phases, moduleVars
  <2> QED  BY <2>5, <2>6
<1>4. ASSUME NEW c \in Cpu, EnqWake(c)
      PROVE  G
  <2>1. enq[c].pc # "idle" /\ ~broken
    BY <1>4 DEF EnqWake
  <2>2. thread.pc # "none"
    BY <1>100, <2>1
  <2>3. enq' = [enq EXCEPT ![c] = NoCall]
    BY <1>4 DEF EnqWake
  <2>4. enq'[c].pc \notin {"get", "fill"} /\ \A d \in Cpu : d # c => enq'[d] = enq[d]
    BY <1>0, <2>3 DEF TypeOK, NoCall
  <2>5. Calls'
    BY <1>4, <1>0, <2>3, <2>4 DEF EnqWake, Calls, Filled
  <2>6. Phases'
    BY <1>4, <1>0, <2>2 DEF EnqWake, TypeOK, Phases, moduleVars
  <2> QED  BY <2>5, <2>6
<1>5. CASE ThreadLoop
  <2>1. Calls'
    BY <1>5, <1>0 DEF ThreadLoop, ThreadGoes, Calls, Filled
  <2>2. Phases'
    BY <1>5, <1>0 DEF ThreadLoop, ThreadGoes, TypeOK, Phases, moduleVars, clientVars
  <2> QED  BY <2>1, <2>2
<1>6. CASE ThreadMark
  <2>1. Calls'
    BY <1>6, <1>0 DEF ThreadMark, Calls, Filled
  <2>2. Phases'
    BY <1>6, <1>0 DEF ThreadMark, TypeOK, Phases, moduleVars, clientVars
  <2> QED  BY <2>1, <2>2
<1>7. CASE ThreadTest
  <2>1. Calls'
    BY <1>7, <1>0 DEF ThreadTest, ThreadGoes, Calls, Filled
  <2>2. Phases'
    BY <1>7, <1>0 DEF ThreadTest, ThreadGoes, TypeOK, Phases, moduleVars, clientVars
  <2> QED  BY <2>1, <2>2
<1>8. CASE ThreadSleep
  <2>1. Calls'
    BY <1>8, <1>0 DEF ThreadSleep, ThreadGoes, Calls, Filled
  <2>2. Phases'
    BY <1>8, <1>0 DEF ThreadSleep, ThreadGoes, TypeOK, Phases, moduleVars, clientVars
  <2> QED  BY <2>1, <2>2
<1>9. CASE ThreadScan
  <2>1. thread.pc = "scan" /\ thread'.pc \in {"loop", "wait"}
    BY <1>9 DEF ThreadScan, AtLoop
  <2> QED  BY <1>9, <1>0, <2>1 DEF ThreadScan, Phases, Calls, Filled, moduleVars
<1>10. CASE ThreadWait
  <2>1. Calls'
    BY <1>10, <1>0 DEF ThreadWait, ThreadGoes, Calls, Filled
  <2>2. Phases'
    BY <1>10, <1>0 DEF ThreadWait, ThreadGoes, TypeOK, Phases, moduleVars, clientVars
  <2> QED  BY <2>1, <2>2
<1>11. CASE ThreadLimit
  <2>1. Calls'
    BY <1>11, <1>0 DEF ThreadLimit, ThreadGoes, Calls, Filled
  <2>2. Phases'
    BY <1>11, <1>0 DEF ThreadLimit, ThreadGoes, TypeOK, Phases, moduleVars, clientVars
  <2> QED  BY <2>1, <2>2
<1>12. CASE ThreadLapse
  <2>1. Calls'
    BY <1>12, <1>0 DEF ThreadLapse, Calls, Filled
  <2>2. Phases'
    BY <1>12, <1>0 DEF ThreadLapse, TypeOK, Phases, moduleVars, clientVars
  <2> QED  BY <2>1, <2>2
<1>13. CASE ThreadSend
  <2>1. Calls'
    BY <1>13, <1>0 DEF ThreadSend, ThreadGoes, Calls, Filled
  <2>2. Phases'
    BY <1>13, <1>0 DEF ThreadSend, ThreadGoes, TypeOK, Phases, moduleVars, clientVars
  <2> QED  BY <2>1, <2>2
<1>14. CASE ThreadFail
  <2>1. Calls'
    BY <1>14, <1>0 DEF ThreadFail, ThreadGoes, Calls, Filled
  <2>2. Phases'
    BY <1>14, <1>0 DEF ThreadFail, ThreadGoes, TypeOK, Phases, moduleVars, clientVars
  <2> QED  BY <2>1, <2>2
<1>15. CASE ThreadDel
  <2>1. Calls'
    BY <1>15, <1>0 DEF ThreadDel, ThreadGoes, Calls, Filled
  <2>2. Phases'
    BY <1>15, <1>0 DEF ThreadDel, ThreadGoes, TypeOK, Phases, moduleVars, clientVars
  <2> QED  BY <2>1, <2>2
<1>16. CASE ThreadPut
  <2>1. Calls'
    BY <1>16, <1>0 DEF ThreadPut, Calls, Filled
  <2>2. Phases'
    BY <1>16, <1>0 DEF ThreadPut, TypeOK, Phases, moduleVars, clientVars
  <2> QED  BY <2>1, <2>2
<1>17. CASE ThreadAdvance
  BY <1>17, <1>0, AdvanceGoes DEF ThreadAdvance, Phases, Calls, Filled, moduleVars
<1>18. CASE ClientStart
  <2>1. Calls'
    BY <1>18, <1>0 DEF ClientStart, Calls, Filled
  <2>2. Phases'
    BY <1>18, <1>0 DEF ClientStart, TypeOK, Phases, moduleVars, clientVars
  <2> QED  BY <2>1, <2>2
<1>19. CASE ClientAsk
  <2>1. Calls'
    BY <1>19, <1>0 DEF ClientAsk, Calls, Filled
  <2>2. Phases'
    BY <1>19, <1>0 DEF ClientAsk, TypeOK, Phases, moduleVars, clientVars
  <2> QED  BY <2>1, <2>2
<1>20. CASE ClientReceive
  <2>1. Calls'
    BY <1>20, <1>0 DEF ClientReceive, Calls, Filled
  <2>2. Phases'
    BY <1>20, <1>0 DEF ClientReceive, TypeOK, Phases, moduleVars, clientVars
  <2> QED  BY <2>1, <2>2
<1>21. CASE ClientEnd
  <2>1. Calls'
    BY <1>21, <1>0 DEF ClientEnd, Calls, Filled
  <2>2. Phases'
    BY <1>21, <1>0 DEF ClientEnd, TypeOK, Phases, moduleVars, clientVars
  <2> QED  BY <2>1, <2>2
<1>22. CASE Load
  <2>1. thread.pc = "none" /\ (\A c \in Cpu : enq[c].pc = "idle")
    <3>1. module.pc = "absent" /\ ~broken
      BY <1>22 DEF Load, Loaded
    <3>2. thread.pc = "none"
      BY <1>0, <3>1 DEF Phases
    <3> QED  BY <1>100, <3>1, <3>2
  <2>2. thread'.pc \in {"none", "loop"} /\ (thread'.pc = "none" => hooked' = FALSE)
    <3>1. PICK k \in 0 .. Cardinality(Node) :
             /\ thread' = IF k = Cardinality(Node) THEN AtLoop ELSE [AtLoop EXCEPT !.pc = "none"]
             /\ hooked' = (k = Cardinality(Node) /\ ~expired)
      BY <1>22 DEF Load
    <3>2. CASE k = Cardinality(Node)
      BY <3>1, <3>2 DEF AtLoop
    <3>3. CASE k # Cardinality(Node)
      BY <3>1, <3>3 DEF AtLoop
    <3> QED  BY <3>2, <3>3
  <2>3. /\ module'.pc = "on" /\ enq' = enq /\ limited' = expired /\ expired' = expired
        /\ broken' = broken
    BY <1>22 DEF Load
  <2>4. Calls'
    BY <1>0, <2>3 DEF Calls, Filled
  <2> QED  BY <2>1, <2>2, <2>3, <2>4 DEF Phases
<1>23. CASE ExitStop
  <2>1. Calls'
    BY <1>23, <1>0 DEF ExitStop, Calls, Filled
  <2>2. Phases'
    BY <1>23, <1>0 DEF ExitStop, TypeOK, Phases, moduleVars, clientVars
  <2> QED  BY <2>1, <2>2
<1>24. CASE ExitJoin
  <2>1. Calls'
    BY <1>24, <1>0 DEF ExitJoin, Calls, Filled
  <2>2. Phases'
    BY <1>24, <1>0 DEF ExitJoin, TypeOK, Phases, moduleVars, clientVars
  <2> QED  BY <2>1, <2>2
<1>25. CASE ExitWalk
  <2>1. PICK p : p = IF module.pc = "first" THEN link.next[FreeHead] ELSE module.nxt
    OBVIOUS
  <2>2. module.pc \in {"first", "walk"} /\ ~broken
    BY <1>25 DEF ExitWalk
  <2>3. CASE p \notin Node \cup {FreeHead}
    <3>1. broken' = TRUE /\ module' = module
      BY <1>25, <2>1, <2>3 DEF ExitWalk
    <3> QED  BY <1>25, <1>0, <3>1 DEF ExitWalk, Phases, Calls, Filled
  <2>4. CASE p \in Node \cup {FreeHead}
    <3>1. /\ broken' = broken
          /\ module' = [pc |-> IF p = FreeHead THEN "unhook" ELSE "kfree", pos |-> p,
                        nxt |-> link.next[p]]
      BY <1>25, <2>1, <2>4 DEF ExitWalk
    <3>2. /\ module'.pc \in {"unhook", "kfree"}
          /\ module'.pc = "kfree" => module'.pos \in Node
      BY <2>4, <3>1
    <3> QED  BY <1>25, <1>0, <2>2, <3>1, <3>2 DEF ExitWalk, Phases, Calls, Filled
  <2> QED  BY <2>3, <2>4
<1>26. CASE ExitFree
  <2>1. Calls'
    BY <1>26, <1>0 DEF ExitFree, Calls, Filled
  <2>2. Phases'
    BY <1>26, <1>0 DEF ExitFree, TypeOK, Phases, moduleVars, clientVars
  <2> QED  BY <2>1, <2>2
<1>27. CASE ExitUnhook
  <2>1. /\ thread'.pc = "none" /\ module'.pc = "absent" /\ hooked' = FALSE /\ limited' = FALSE
        /\ enq' = enq
    BY <1>27 DEF ExitUnhook, AtLoop
  <2>2. ~broken' => \A c \in Cpu : enq[c].pc = "idle"
    BY <1>27 DEF ExitUnhook
  <2>3. Calls'
    BY <1>0, <2>1 DEF Calls, Filled
  <2> QED  BY <2>1, <2>2, <2>3 DEF Phases
<1>28. CASE Expire
  <2>1. Calls'
    BY <1>28, <1>0 DEF Expire, Calls, Filled
  <2>2. Phases'
    BY <1>28, <1>0 DEF Expire, TypeOK, Phases, moduleVars, clientVars
  <2> QED  BY <2>1, <2>2
<1>29. CASE UNCHANGED vars
  BY <1>0, <1>29 DEF vars, moduleVars, clientVars, history, Phases, Calls, Filled
<1> QED
  BY <1>1, <1>2, <1>3, <1>4, <1>5, <1>6, <1>7, <1>8, <1>9, <1>10, <1>11, <1>12, <1>13, <1>14, <1>15, <1>16, <1>17, <1>18, <1>19, <1>20, <1>21, <1>22, <1>23, <1>24, <1>25, <1>26, <1>27, <1>28, <1>29
     DEF Next, EnqOn, Thread, ClientOn, Exit

\* Only loading a module makes one that works.
LEMMA StaysWorking ==
    ASSUME IndInv, [Next]_vars, ~Load, Working'
    PROVE  Working
<1> DEFINE G == Working
<1>0. TypeOK
  BY DEF IndInv
<1> SUFFICES ASSUME ~(module.pc \in {"on", "stop"} /\ ~limited /\ ~broken)
             PROVE  G
  BY DEF Working
<1>100. module'.pc \in {"on", "stop"} /\ ~limited' /\ ~broken'
  BY DEF Working
<1>1. ASSUME NEW c \in Cpu, NEW e \in Event, EnqTest(c, e)
      PROVE  G
  BY <1>100, <1>1 DEF EnqTest, moduleVars
<1>2. ASSUME NEW c \in Cpu, EnqGet(c)
      PROVE  G
  BY <1>100, <1>2 DEF EnqGet, moduleVars
<1>3. ASSUME NEW c \in Cpu, EnqAdd(c)
      PROVE  G
  BY <1>100, <1>3 DEF EnqAdd, Put, moduleVars
<1>4. ASSUME NEW c \in Cpu, EnqWake(c)
      PROVE  G
  BY <1>100, <1>4 DEF EnqWake, moduleVars
<1>5. CASE ThreadLoop
  BY <1>100, <1>5 DEF ThreadLoop, ThreadGoes, moduleVars
<1>6. CASE ThreadMark
  BY <1>100, <1>6 DEF ThreadMark, moduleVars
<1>7. CASE ThreadTest
  BY <1>100, <1>7 DEF ThreadTest, ThreadGoes, moduleVars
<1>8. CASE ThreadSleep
  BY <1>100, <1>8 DEF ThreadSleep, ThreadGoes, moduleVars
<1>9. CASE ThreadScan
  BY <1>100, <1>9 DEF ThreadScan, moduleVars
<1>10. CASE ThreadWait
  BY <1>100, <1>10 DEF ThreadWait, ThreadGoes, moduleVars
<1>11. CASE ThreadLimit
  BY <1>100, <1>11 DEF ThreadLimit, ThreadGoes, moduleVars
<1>12. CASE ThreadLapse
  BY <1>100, <1>12 DEF ThreadLapse, moduleVars
<1>13. CASE ThreadSend
  BY <1>100, <1>13 DEF ThreadSend, ThreadGoes, moduleVars
<1>14. CASE ThreadFail
  BY <1>100, <1>14 DEF ThreadFail, ThreadGoes, moduleVars
<1>15. CASE ThreadDel
  BY <1>100, <1>15 DEF ThreadDel, ThreadGoes, moduleVars
<1>16. CASE ThreadPut
  BY <1>100, <1>16 DEF ThreadPut, moduleVars
<1>17. CASE ThreadAdvance
  BY <1>100, <1>17 DEF ThreadAdvance, moduleVars
<1>18. CASE ClientStart
  BY <1>100, <1>18 DEF ClientStart, moduleVars
<1>19. CASE ClientAsk
  BY <1>100, <1>19 DEF ClientAsk, moduleVars
<1>20. CASE ClientReceive
  BY <1>100, <1>20 DEF ClientReceive, moduleVars
<1>21. CASE ClientEnd
  BY <1>100, <1>21 DEF ClientEnd, moduleVars
<1>22. CASE Load
  BY <1>22
<1>23. CASE ExitStop
  BY <1>100, <1>23, <1>0 DEF ExitStop, TypeOK
<1>24. CASE ExitJoin
  BY <1>100, <1>24, <1>0 DEF ExitJoin, TypeOK
<1>25. CASE ExitWalk
  <2>1. module.pc \in {"first", "walk"} /\ module'.pc \notin {"on", "stop"}
    BY <1>25 DEF ExitWalk
  <2> QED  BY <1>100, <2>1
<1>26. CASE ExitFree
  BY <1>100, <1>26, <1>0 DEF ExitFree, TypeOK
<1>27. CASE ExitUnhook
  BY <1>100, <1>27 DEF ExitUnhook, moduleVars
<1>28. CASE Expire
  BY <1>100, <1>28 DEF Expire, moduleVars
<1>29. CASE UNCHANGED vars
  BY <1>100, <1>29 DEF vars, moduleVars
<1> QED
  BY <1>1, <1>2, <1>3, <1>4, <1>5, <1>6, <1>7, <1>8, <1>9, <1>10, <1>11, <1>12, <1>13, <1>14, <1>15, <1>16, <1>17, <1>18, <1>19, <1>20, <1>21, <1>22, <1>23, <1>24, <1>25, <1>26, <1>27, <1>28, <1>29
     DEF Next, EnqOn, Thread, ClientOn, Exit

Checking == IF thread.pc = "check" THEN 1 ELSE 0
Asking == IF client = "ask" THEN 1 ELSE 0

LEMMA NextCredits ==
    ASSUME IndInv, OneAnswerEach, [Next]_vars
    PROVE  Credits' /\ OneAnswerEach'
<1> DEFINE G == Credits' /\ OneAnswerEach'
<1>0. TypeOK /\ Credits /\ Phases
  BY DEF IndInv
<1>100. PICK r \in Nat, k \in {0, 1}, a \in {0, 1}, n \in Nat, max \in Nat :
            /\ r = credit /\ k = Checking /\ a = Asking /\ n = answers /\ max = MaxCredit
            /\ UnderWay = r + k + n /\ r + k + n + a <= max
  <2>1. credit \in Nat /\ answers \in Nat /\ MaxCredit \in Nat
    BY <1>0, CreditAssumption DEF TypeOK
  <2>2. Checking \in {0, 1} /\ Asking \in {0, 1}
    BY DEF Checking, Asking
  <2>3. UnderWay = credit + Checking + answers
    BY <2>1, <2>2 DEF UnderWay, Checking
  <2>4. UnderWay + Asking <= MaxCredit
    BY <1>0 DEF Credits, Asking
  <2> QED  BY <2>1, <2>2, <2>3, <2>4
<1>101. UnderWay' = credit' + Checking' + answers'
  <2>1. credit' \in Nat /\ answers' \in Nat
    BY NextType, CreditAssumption DEF TypeOK
  <2> QED  BY <2>1 DEF UnderWay, Checking
<1>102. ASSUME credit' = credit, answers' = answers, client' = client,
               Checking' = Checking
        PROVE  UnderWay' = UnderWay /\ Credits'
  <2>1. UnderWay' = UnderWay /\ Asking' = Asking
    BY <1>100, <1>101, <1>102 DEF Asking
  <2> QED  BY <1>0, <1>102, <2>1 DEF Credits, Asking
<1>103. ASSUME credit' = credit, answers' = answers, client' = client,
               Checking' = Checking, restarted' = restarted, ~Load,
               thread'.pc # "dead" => thread.pc # "dead"
        PROVE  G
  <2>1. UnderWay' = UnderWay /\ Credits'
    BY <1>102, <1>103
  <2>2. Working' => Working
    BY <1>103, StaysWorking
  <2> QED  BY <1>103, <2>1, <2>2 DEF OneAnswerEach
<1>104. Credits' <=> (UnderWay' + Asking' <= MaxCredit /\ (client' = "down" => answers' = 0))
  BY DEF Credits, Asking
<1>105. CASE Load
  <2>1. /\ client' = client /\ credit' = 0 /\ answers' = n /\ Checking' = 0
        /\ restarted' = (client # "down")
    BY <1>105, <1>100 DEF Load, Checking, AtLoop, clientVars
  <2>2. UnderWay' = n /\ Asking' = a
    BY <1>100, <1>101, <2>1 DEF Asking
  <2>3. Credits'
    BY <1>0, <1>100, <1>104, <2>1, <2>2 DEF Credits
  <2>4. OneAnswerEach'
    BY <1>0, <1>100, <2>1, <2>2 DEF OneAnswerEach, Credits
  <2> QED  BY <2>3, <2>4
<1>106. SUFFICES ASSUME ~Load
                 PROVE  G
  BY <1>105
<1>1. ASSUME NEW c \in Cpu, NEW e \in Event, EnqTest(c, e)
      PROVE  G
  <2>1. /\ credit' = credit /\ answers' = answers /\ client' = client
        /\ Checking' = Checking /\ restarted' = restarted
        /\ thread'.pc # "dead" => thread.pc # "dead"
    BY <1>1, <1>0 DEF EnqTest, TypeOK, Checking, moduleVars, clientVars, history
  <2> QED  BY <1>103, <2>1, <1>106
<1>2. ASSUME NEW c \in Cpu, EnqGet(c)
      PROVE  G
  <2>1. /\ credit' = credit /\ answers' = answers /\ client' = client
        /\ Checking' = Checking /\ restarted' = restarted
        /\ thread'.pc # "dead" => thread.pc # "dead"
    BY <1>2, <1>0 DEF EnqGet, TypeOK, Checking, moduleVars, clientVars, history
  <2> QED  BY <1>103, <2>1, <1>106
<1>3. ASSUME NEW c \in Cpu, EnqAdd(c)
      PROVE  G
  <2>1. /\ credit' = credit /\ answers' = answers /\ client' = client
        /\ Checking' = Checking /\ restarted' = restarted
        /\ thread'.pc # "dead" => thread.pc # "dead"
    BY <1>3, <1>0 DEF EnqAdd, TypeOK, Checking, moduleVars, clientVars, history
  <2> QED  BY <1>103, <2>1, <1>106
<1>4. ASSUME NEW c \in Cpu, EnqWake(c)
      PROVE  G
  <2>1. /\ credit' = credit /\ answers' = answers /\ client' = client
        /\ Checking' = Checking /\ restarted' = restarted
        /\ thread'.pc # "dead" => thread.pc # "dead"
    BY <1>4, <1>0 DEF EnqWake, TypeOK, Checking, moduleVars, clientVars, history
  <2> QED  BY <1>103, <2>1, <1>106
<1>5. CASE ThreadLoop
  <2>1. /\ credit' = credit /\ answers' = answers /\ client' = client
        /\ Checking' = Checking /\ restarted' = restarted
        /\ thread'.pc # "dead" => thread.pc # "dead"
    BY <1>5, <1>0 DEF ThreadLoop, ThreadGoes, TypeOK, Checking, moduleVars, clientVars, history
  <2> QED  BY <1>103, <2>1, <1>106
<1>6. CASE ThreadMark
  <2>1. /\ credit' = credit /\ answers' = answers /\ client' = client
        /\ Checking' = Checking /\ restarted' = restarted
        /\ thread'.pc # "dead" => thread.pc # "dead"
    BY <1>6, <1>0 DEF ThreadMark, TypeOK, Checking, moduleVars, clientVars, history
  <2> QED  BY <1>103, <2>1, <1>106
<1>7. CASE ThreadTest
  <2>1. /\ credit' = credit /\ answers' = answers /\ client' = client
        /\ Checking' = Checking /\ restarted' = restarted
        /\ thread'.pc # "dead" => thread.pc # "dead"
    BY <1>7, <1>0 DEF ThreadTest, ThreadGoes, TypeOK, Checking, moduleVars, clientVars, history
  <2> QED  BY <1>103, <2>1, <1>106
<1>8. CASE ThreadSleep
  <2>1. /\ credit' = credit /\ answers' = answers /\ client' = client
        /\ Checking' = Checking /\ restarted' = restarted
        /\ thread'.pc # "dead" => thread.pc # "dead"
    BY <1>8, <1>0 DEF ThreadSleep, ThreadGoes, TypeOK, Checking, moduleVars, clientVars, history
  <2> QED  BY <1>103, <2>1, <1>106
<1>9. CASE ThreadScan
  <2>1. /\ credit' = credit /\ answers' = answers /\ client' = client
        /\ Checking' = Checking /\ restarted' = restarted
        /\ thread'.pc # "dead" => thread.pc # "dead"
    BY <1>9, <1>0 DEF ThreadScan, AtLoop, TypeOK, Checking, moduleVars, clientVars, history
  <2> QED  BY <1>103, <2>1, <1>106
<1>10. CASE ThreadWait
  <2>1. /\ r > 0 /\ k = 0 /\ credit' = r - 1 /\ Checking' = 1 /\ answers' = n
        /\ client' = client /\ restarted' = restarted /\ thread'.pc # "dead"
        /\ thread.pc # "dead"
    BY <1>10, <1>0, <1>100 DEF ThreadWait, ThreadGoes, TypeOK, Checking, clientVars, history
  <2>2. UnderWay' = r + k + n /\ Asking' = a
    BY <1>100, <1>101, <2>1 DEF Asking
  <2>3. Credits'
    BY <1>0, <1>100, <1>104, <2>1, <2>2 DEF Credits
  <2>4. OneAnswerEach'
    BY <1>100, <1>106, <2>1, <2>2, StaysWorking DEF OneAnswerEach
  <2> QED  BY <2>3, <2>4
<1>11. CASE ThreadLimit
  <2>1. /\ k = 1 /\ credit' = r /\ Checking' = 0 /\ answers' = n
        /\ client' = client /\ ~Working'
    BY <1>11, <1>0, <1>100 DEF ThreadLimit, ThreadGoes, TypeOK, Checking, Working, clientVars, history
  <2>2. UnderWay' = r + n /\ Asking' = a
    BY <1>100, <1>101, <2>1 DEF Asking
  <2>3. Credits'
    BY <1>0, <1>100, <1>104, <2>1, <2>2 DEF Credits
  <2> QED  BY <2>1, <2>3 DEF OneAnswerEach
<1>12. CASE ThreadLapse
  <2>1. /\ credit' = credit /\ answers' = answers /\ client' = client
        /\ Checking' = Checking /\ restarted' = restarted
        /\ thread'.pc # "dead" => thread.pc # "dead"
    BY <1>12, <1>0 DEF ThreadLapse, TypeOK, Checking, moduleVars, clientVars, history
  <2> QED  BY <1>103, <2>1, <1>106
<1>13. CASE ThreadSend
  <2>1. /\ k = 1 /\ credit' = r /\ Checking' = 0
        /\ answers' = IF client = "down" THEN n ELSE n + 1
        /\ client' = client /\ restarted' = restarted /\ thread.pc # "dead"
        /\ thread'.pc # "dead"
    BY <1>13, <1>0, <1>100 DEF ThreadSend, ThreadGoes, TypeOK, Checking, clientVars, history
  <2>2. UnderWay' = (IF client = "down" THEN r + n ELSE r + n + 1) /\ Asking' = a
    BY <1>100, <1>101, <2>1 DEF Asking
  <2>3. Credits'
    BY <1>0, <1>100, <1>104, <2>1, <2>2 DEF Credits
  <2>4. ASSUME Working', ~restarted'
        PROVE  UnderWay' = IF client' = "wait" THEN 1 ELSE 0
    <3>1. Working /\ ~restarted
      BY <1>106, <2>1, <2>4, StaysWorking
    <3>2. UnderWay = IF client = "wait" THEN 1 ELSE 0
      BY <2>1, <3>1 DEF OneAnswerEach
    <3>3. client = "wait" /\ r + n = 0
      BY <1>100, <2>1, <3>2
    <3> QED  BY <2>1, <2>2, <3>3
  <2> QED  BY <2>3, <2>4 DEF OneAnswerEach
<1>14. CASE ThreadFail
  <2>1. /\ k = 1 /\ credit' = r /\ Checking' = 0 /\ answers' = n
        /\ client' = client /\ thread'.pc = "dead"
    BY <1>14, <1>0, <1>100 DEF ThreadFail, ThreadGoes, TypeOK, Checking, clientVars, history
  <2>2. UnderWay' = r + n /\ Asking' = a
    BY <1>100, <1>101, <2>1 DEF Asking
  <2>3. Credits'
    BY <1>0, <1>100, <1>104, <2>1, <2>2 DEF Credits
  <2> QED  BY <2>1, <2>3 DEF OneAnswerEach
<1>15. CASE ThreadDel
  <2>1. /\ credit' = credit /\ answers' = answers /\ client' = client
        /\ Checking' = Checking /\ restarted' = restarted
        /\ thread'.pc # "dead" => thread.pc # "dead"
    BY <1>15, <1>0 DEF ThreadDel, ThreadGoes, TypeOK, Checking, moduleVars, clientVars, history
  <2> QED  BY <1>103, <2>1, <1>106
<1>16. CASE ThreadPut
  <2>1. /\ credit' = credit /\ answers' = answers /\ client' = client
        /\ Checking' = Checking /\ restarted' = restarted
        /\ thread'.pc # "dead" => thread.pc # "dead"
    BY <1>16, <1>0 DEF ThreadPut, TypeOK, Checking, moduleVars, clientVars, history
  <2> QED  BY <1>103, <2>1, <1>106
<1>17. CASE ThreadAdvance
  <2>1. Checking' = Checking /\ thread'.pc # "dead"
    BY <1>17, <1>0, AdvanceGoes DEF Checking
  <2>2. /\ credit' = credit /\ answers' = answers /\ client' = client
        /\ restarted' = restarted /\ thread.pc # "dead"
    BY <1>17 DEF ThreadAdvance, clientVars, history
  <2> QED  BY <1>103, <1>106, <2>1, <2>2
<1>18. CASE ClientStart
  <2>1. /\ UnderWay < MaxCredit /\ client = "down" /\ client' = "ask"
        /\ credit' = r /\ answers' = n /\ Checking' = k /\ thread' = thread
        /\ restarted' = restarted
    BY <1>18, <1>100 DEF ClientStart, Checking, history
  <2>2. UnderWay' = r + k + n /\ Asking' = 1
    BY <1>100, <1>101, <2>1 DEF Asking
  <2>3. Credits'
    BY <1>100, <1>104, <2>1, <2>2
  <2>4. OneAnswerEach'
    BY <1>100, <1>106, <2>1, <2>2, StaysWorking DEF OneAnswerEach
  <2> QED  BY <2>3, <2>4
<1>19. CASE ClientAsk
  <2>1. /\ client = "ask" /\ client' = "wait" /\ a = 1
        /\ credit' = IF Loaded THEN r + 1 ELSE r
        /\ answers' = n /\ Checking' = k /\ thread' = thread /\ restarted' = restarted
    BY <1>19, <1>100 DEF ClientAsk, Checking, Asking, history
  <2>2. UnderWay' = (IF Loaded THEN r + k + n + 1 ELSE r + k + n) /\ Asking' = 0
    BY <1>100, <1>101, <2>1 DEF Asking
  <2>3. Credits'
    BY <1>100, <1>104, <2>1, <2>2
  <2>4. Working' => Working /\ Loaded
    BY <1>106, StaysWorking DEF Working, Loaded
  <2>5. OneAnswerEach'
    BY <1>100, <2>1, <2>2, <2>4 DEF OneAnswerEach
  <2> QED  BY <2>3, <2>5
<1>20. CASE ClientReceive
  <2>1. /\ client = "wait" /\ client' = "ask" /\ a = 0 /\ n > 0
        /\ credit' = r /\ answers' = n - 1 /\ Checking' = k /\ thread' = thread
        /\ restarted' = restarted
    BY <1>20, <1>100 DEF ClientReceive, Checking, Asking, history
  <2>2. UnderWay' = r + k + n - 1 /\ Asking' = 1
    BY <1>100, <1>101, <2>1 DEF Asking
  <2>3. Credits'
    BY <1>100, <1>104, <2>1, <2>2
  <2>4. OneAnswerEach'
    BY <1>100, <1>106, <2>1, <2>2, StaysWorking DEF OneAnswerEach
  <2> QED  BY <2>3, <2>4
<1>21. CASE ClientEnd
  <2>1. /\ client' = "down" /\ credit' = r /\ answers' = 0 /\ Checking' = k
        /\ restarted' = TRUE
    BY <1>21, <1>100 DEF ClientEnd, Checking
  <2>2. UnderWay' = r + k /\ Asking' = 0
    BY <1>100, <1>101, <2>1 DEF Asking
  <2>3. Credits'
    BY <1>100, <1>104, <2>1, <2>2
  <2> QED  BY <2>1, <2>3 DEF OneAnswerEach
<1>22. CASE Load
  BY <1>22, <1>106
<1>23. CASE ExitStop
  <2>1. /\ credit' = credit /\ answers' = answers /\ client' = client
        /\ Checking' = Checking /\ restarted' = restarted
        /\ thread'.pc # "dead" => thread.pc # "dead"
    BY <1>23, <1>0 DEF ExitStop, TypeOK, Checking, moduleVars, clientVars, history
  <2> QED  BY <1>103, <2>1, <1>106
<1>24. CASE ExitJoin
  <2>1. /\ credit' = credit /\ answers' = answers /\ client' = client
        /\ Checking' = Checking /\ restarted' = restarted
        /\ thread'.pc # "dead" => thread.pc # "dead"
    BY <1>24, <1>0 DEF ExitJoin, TypeOK, Checking, moduleVars, clientVars, history
  <2> QED  BY <1>103, <2>1, <1>106
<1>25. CASE ExitWalk
  <2>1. /\ credit' = credit /\ answers' = answers /\ client' = client
        /\ Checking' = Checking /\ restarted' = restarted
        /\ thread'.pc # "dead" => thread.pc # "dead"
    BY <1>25, <1>0 DEF ExitWalk, TypeOK, Checking, moduleVars, clientVars, history
  <2> QED  BY <1>103, <2>1, <1>106
<1>26. CASE ExitFree
  <2>1. /\ credit' = credit /\ answers' = answers /\ client' = client
        /\ Checking' = Checking /\ restarted' = restarted
        /\ thread'.pc # "dead" => thread.pc # "dead"
    BY <1>26, <1>0 DEF ExitFree, TypeOK, Checking, moduleVars, clientVars, history
  <2> QED  BY <1>103, <2>1, <1>106
<1>27. CASE ExitUnhook
  <2>1. /\ client' = client /\ credit' = 0 /\ answers' = n /\ Checking' = 0
        /\ ~Working'
    BY <1>27, <1>100 DEF ExitUnhook, Checking, AtLoop, Working, clientVars
  <2>2. UnderWay' = n /\ Asking' = a
    BY <1>100, <1>101, <2>1 DEF Asking
  <2>3. Credits'
    BY <1>0, <1>100, <1>104, <2>1, <2>2 DEF Credits
  <2> QED  BY <2>1, <2>3 DEF OneAnswerEach
<1>28. CASE Expire
  <2>1. /\ credit' = credit /\ answers' = answers /\ client' = client
        /\ Checking' = Checking /\ restarted' = restarted
        /\ thread'.pc # "dead" => thread.pc # "dead"
    BY <1>28, <1>0 DEF Expire, TypeOK, Checking, moduleVars, clientVars, history
  <2> QED  BY <1>103, <2>1, <1>106
<1>29. CASE UNCHANGED vars
  <2> QED  BY <1>29, <1>103, <1>106 DEF Checking, vars, clientVars, history
<1> QED
  BY <1>1, <1>2, <1>3, <1>4, <1>5, <1>6, <1>7, <1>8, <1>9, <1>10, <1>11, <1>12, <1>13, <1>14, <1>15, <1>16, <1>17, <1>18, <1>19, <1>20, <1>21, <1>22, <1>23, <1>24, <1>25, <1>26, <1>27, <1>28, <1>29
     DEF Next, EnqOn, Thread, ClientOn, Exit

-----------------------------------------------------------------------------
(* The lists.                                                              *)

LEMMA TailSet ==
    ASSUME NEW S, NEW m \in Seq(S), m # <<>>,
           \A i, j \in 1 .. Len(m) : m[i] = m[j] => i = j
    PROVE  /\ Tail(m) \in Seq(S) /\ m[1] \in S
           /\ m[1] \in ToSet(m)
           /\ ToSet(Tail(m)) = ToSet(m) \ {m[1]}
           /\ \A h : Around(Tail(m), h, 1) = Around(m, h, 2)
<1>1. PICK L \in Nat : L = Len(m) /\ m \in [1 .. L -> S] /\ DOMAIN m = 1 .. L /\ L >= 1
  BY LenProperties, EmptySeq
<1> DEFINE t == Tail(m)
<1>2. t \in Seq(S) /\ Len(t) = L - 1 /\ \A i \in 1 .. L - 1 : t[i] = m[i + 1]
  BY <1>1, HeadTailProperties
<1>3. DOMAIN t = 1 .. L - 1
  BY <1>2, LenProperties
<1> HIDE DEF t
<1>4. ASSUME NEW x \in ToSet(t)
      PROVE  x \in ToSet(m) \ {m[1]}
  <2>1. PICK i \in 1 .. L - 1 : x = t[i]
    BY <1>3 DEF ToSet
  <2>2. i + 1 \in 1 .. L /\ 1 \in 1 .. L /\ x = m[i + 1] /\ i + 1 # 1
    BY <1>1, <1>2, <2>1
  <2>3. x # m[1]
    BY <1>1, <2>2
  <2> QED  BY <1>1, <2>2, <2>3 DEF ToSet
<1>5. ASSUME NEW x \in ToSet(m), x # m[1]
      PROVE  x \in ToSet(t)
  <2>1. PICK i \in 1 .. L : x = m[i]
    BY <1>1 DEF ToSet
  <2>2. i # 1
    BY <1>5, <2>1
  <2>3. i - 1 \in 1 .. L - 1 /\ (i - 1) + 1 = i
    BY <2>2
  <2>4. x = t[i - 1]
    BY <1>2, <2>1, <2>3
  <2> QED  BY <1>3, <2>3, <2>4 DEF ToSet
<1>6. \A h : Around(t, h, 1) = Around(m, h, 2)
  BY <1>1, <1>2 DEF Around
<1> QED  BY <1>1, <1>2, <1>4, <1>5, <1>6 DEF ToSet, t

LEMMA AppendSet ==
    ASSUME NEW S, NEW m \in Seq(S), NEW n \in S
    PROVE  /\ Append(m, n) \in Seq(S) /\ Append(m, n) # <<>>
           /\ ToSet(Append(m, n)) = ToSet(m) \cup {n}
           /\ m # <<>> => Append(m, n)[1] = m[1]
           /\ \A h : \A i \in {1, 2} :
                 Around(m, h, i) \in {h, Around(Append(m, n), h, i)}
<1>1. PICK L \in Nat : L = Len(m) /\ m \in [1 .. L -> S] /\ DOMAIN m = 1 .. L
  BY LenProperties
<1> DEFINE t == Append(m, n)
<1>2. /\ t \in Seq(S) /\ t # <<>> /\ Len(t) = L + 1 /\ t[L + 1] = n
      /\ \A i \in 1 .. L : t[i] = m[i]
  BY <1>1, AppendProperties
<1>3. DOMAIN t = 1 .. L + 1
  BY <1>2, LenProperties
<1>4. m # <<>> => 1 \in 1 .. L
  BY <1>1, EmptySeq
<1> HIDE DEF t
<1>5. ToSet(t) = ToSet(m) \cup {n}
  <2>1. \A i \in 1 .. L + 1 : i \in 1 .. L \/ i = L + 1
    OBVIOUS
  <2>2. ToSet(t) \subseteq ToSet(m) \cup {n}
    BY <1>1, <1>2, <1>3, <2>1 DEF ToSet
  <2>3. ToSet(m) \subseteq ToSet(t) /\ n \in ToSet(t)
    <3>1. L + 1 \in 1 .. L + 1 /\ \A i \in 1 .. L : i \in 1 .. L + 1
      OBVIOUS
    <3> QED  BY <1>1, <1>2, <1>3, <3>1 DEF ToSet
  <2> QED  BY <2>2, <2>3
<1>6. \A h : \A i \in {1, 2} : Around(m, h, i) \in {h, Around(t, h, i)}
  BY <1>1, <1>2 DEF Around
<1> QED  BY <1>2, <1>4, <1>5, <1>6 DEF t

LEMMA InHands ==
    \A n : n \in Hands <=> \/ \E c \in Cpu : Filled(c) /\ enq[c].node = n
                           \/ thread.pc = "put" /\ n = thread.pos
BY DEF Hands, Filled

LEMMA InHandsNext ==
    \A n : n \in Hands' <=> \/ \E c \in Cpu : Filled(c)' /\ enq'[c].node = n
                            \/ thread'.pc = "put" /\ n = thread'.pos
BY DEF Hands, Filled

\* The lists stay with what fills and sends their nodes.
LEMMA ListsFrame ==
    ASSUME NEW q, NEW p, Lists(q, p), link' = link,
           thread'.pc = thread.pc, thread'.pos = thread.pos, thread'.nxt = thread.nxt,
           \A c \in Cpu : /\ Filled(c)' <=> Filled(c)
                          /\ Filled(c) => enq'[c].node = enq[c].node
    PROVE  Lists(q, p)'
<1>1. Hands' = Hands
  BY InHands, InHandsNext
<1>2. \A c \in Cpu : Filled(c)' => Filled(c) /\ enq'[c].node = enq[c].node
  OBVIOUS
<1> QED  BY <1>1, <1>2 DEF Lists

\* The thread goes on without taking a node or putting one back.
LEMMA ThreadFrame ==
    ASSUME NEW q, NEW p, Lists(q, p), link' = link, enq' = enq,
           thread.pc \notin {"none", "put"}, thread'.pc \notin {"none", "put"},
           thread'.pc \in {"wait", "check", "del"} =>
               /\ q # <<>> /\ thread'.pos = q[1]
               /\ thread'.nxt \in {MsgHead, Around(q, MsgHead, 2)},
           thread'.pc = "advance" => thread'.nxt \in {MsgHead, Around(q, MsgHead, 1)}
    PROVE  Lists(q, p)'
<1>1. \A c \in Cpu : (Filled(c)' <=> Filled(c)) /\ enq'[c].node = enq[c].node
  BY DEF Filled
<1>2. Hands' = Hands
  BY ZenonT(60), <1>1, InHands, InHandsNext
<1> QED  BY <1>1, <1>2 DEF Lists

\* What the lists say of the first member of each.
LEMMA Firsts ==
    ASSUME TypeOK, NEW q \in Seq(Node), NEW p \in Seq(Node), Lists(q, p)
    PROVE  /\ link.next[MsgHead] = Around(q, MsgHead, 1)
           /\ link.next[FreeHead] = Around(p, FreeHead, 1)
           /\ q = <<>> <=> link.next[MsgHead] = MsgHead
           /\ q # <<>> => /\ link.next[MsgHead] = q[1]
                          /\ link.next[q[1]] = Around(q, MsgHead, 2)
           /\ p = <<>> <=> link.next[FreeHead] = FreeHead
           /\ p # <<>> => link.next[FreeHead] = p[1] /\ Linked(link, p[1])
<1>1. /\ link \in Links /\ MsgHead \in ListHead /\ FreeHead \in ListHead
      /\ MsgHead \in Cell /\ FreeHead \in Cell /\ Poison \notin Cell
  BY Cells DEF TypeOK, ListHead
<1>2. q \in Seq(Cell \ {MsgHead}) /\ p \in Seq(Cell \ {FreeHead})
  BY <1>1, NodeSeq
<1>3. Ring(link, MsgHead, q) /\ Ring(link, FreeHead, p)
  BY DEF Lists
<1>4. ASSUME NEW h \in Cell, NEW m \in Seq(Cell \ {h}), Ring(link, h, m)
      PROVE  link.next[h] = Around(m, h, 1) /\ (m = <<>> => link.next[h] = h)
  <2>1. 0 \in 0 .. Len(m) /\ Around(m, h, 0) = h /\ 0 + 1 = 1
    BY LenProperties DEF Around
  <2>2. Around(<<>>, h, 1) = h
    BY DEF Around
  <2> QED  BY <1>4, <2>1, <2>2 DEF Ring
<1>5. ASSUME NEW h \in Cell, NEW m \in Seq(Cell \ {h}), Ring(link, h, m), m # <<>>
      PROVE  /\ link.next[h] = m[1] /\ m[1] # h /\ Linked(link, m[1])
             /\ link.next[m[1]] = Around(m, h, 2)
  BY <1>1, <1>5, DelFirst DEF Linked
<1> QED  BY <1>1, <1>2, <1>3, <1>4, <1>5

LEMMA EnqGetLists ==
    ASSUME IndInv, NEW q \in Seq(Node), NEW p \in Seq(Node), Lists(q, p),
           NEW c \in Cpu, EnqGet(c), ~broken'
    PROVE  p # <<>> /\ Lists(q, Tail(p))'
<1>0. TypeOK
  BY DEF IndInv
<1>1. PICK n \in Node : /\ n = link.next[FreeHead] /\ link' = Del(link, n)
                        /\ enq' = [enq EXCEPT ![c].pc = "fill", ![c].node = n]
  BY DEF EnqGet
<1>2. p # <<>> /\ n = p[1]
  BY <1>0, <1>1, Firsts, Cells
<1>3. /\ \A i, j \in 1 .. Len(p) : p[i] = p[j] => i = j
      /\ Ring(link, MsgHead, q) /\ Ring(link, FreeHead, p) /\ link \in Links
  BY <1>0 DEF Lists, Ring, TypeOK
<1>4. /\ Tail(p) \in Seq(Node) /\ ToSet(Tail(p)) = ToSet(p) \ {n} /\ n \in ToSet(p)
  BY <1>2, <1>3, TailSet
<1>5. /\ q \in Seq(Cell \ {MsgHead}) /\ p \in Seq(Cell \ {FreeHead})
      /\ MsgHead \in Cell /\ FreeHead \in Cell
  BY NodeSeq DEF ListHead
<1>6. Ringed(FreeHead, p) \cap Ringed(MsgHead, q) = {}
  <2>1. ToSet(q) \cap ToSet(p) = {}
    BY DEF Lists
  <2> QED  BY <2>1, Rings
<1>7. Ring(link', FreeHead, Tail(p))
  BY <1>1, <1>2, <1>3, <1>5, DelFirst
<1>8. Ring(link', MsgHead, q)
  BY <1>1, <1>2, <1>3, <1>5, <1>6, DelFirstOther
<1>9. /\ enq[c].pc = "get" /\ thread' = thread
      /\ enq'[c].pc = "fill" /\ enq'[c].node = n
      /\ \A d \in Cpu : d # c => enq'[d] = enq[d]
  BY <1>0, <1>1 DEF EnqGet, TypeOK
<1>10. /\ ~Filled(c) /\ Filled(c)'
       /\ \A d \in Cpu : d # c => (Filled(d)' <=> Filled(d))
  BY <1>9 DEF Filled
<1>11. Hands' = Hands \cup {n}
  BY <1>9, <1>10, InHands, InHandsNext
<1>12. n \notin Hands
  BY <1>4 DEF Lists
<1>13. \A d \in Cpu : Filled(d) => enq[d].node # n
  BY <1>12, InHands
<1>14. thread.pc = "put" => thread.pos # n
  BY <1>12, InHands
<1>15. /\ ToSet(q) \cap ToSet(Tail(p)) = {}
       /\ Hands' \cap (ToSet(q) \cup ToSet(Tail(p))) = {}
       /\ thread'.pc # "none" => ToSet(q) \cup ToSet(Tail(p)) \cup Hands' = Node
  BY <1>4, <1>9, <1>11 DEF Lists
<1>16. \A d, e \in Cpu :
           Filled(d)' /\ Filled(e)' /\ enq'[d].node = enq'[e].node => d = e
  BY <1>9, <1>10, <1>13 DEF Lists
<1>17. thread'.pc = "put" =>
           thread'.pos \in Node /\ \A d \in Cpu : Filled(d)' => enq'[d].node # thread'.pos
  BY <1>9, <1>10, <1>14 DEF Lists
<1> QED  BY <1>2, <1>7, <1>8, <1>9, <1>15, <1>16, <1>17 DEF Lists

LEMMA EnqAddLists ==
    ASSUME IndInv, NEW q \in Seq(Node), NEW p \in Seq(Node), Lists(q, p),
           NEW c \in Cpu, EnqAdd(c)
    PROVE  /\ enq[c].node \in Node /\ enq[c].node \notin ToSet(q)
           /\ \E t \in Seq(Node) : t = Append(q, enq[c].node) /\ Lists(t, p)'
<1>0. TypeOK /\ Heads /\ Calls /\ Phases
  BY DEF IndInv
<1>1. PICK n \in Node : n = enq[c].node
  BY <1>0 DEF EnqAdd, Calls, Filled
<1> DEFINE t == Append(q, n)
<1>2. Filled(c) /\ n \in Hands
  BY <1>1, InHands DEF EnqAdd, Filled
<1>3. n \notin ToSet(q) /\ n \notin ToSet(p)
  BY <1>2 DEF Lists
<1>4. /\ n \in Cell /\ n # MsgHead /\ n # FreeHead /\ MsgHead \in ListHead
      /\ MsgHead \in Cell /\ FreeHead \in Cell
  BY Cells DEF ListHead
<1>5. link' = AddTail(link, n, MsgHead)
  BY <1>0, <1>1, <1>4, PutAdds DEF EnqAdd
<1>6. q \in Seq(Cell \ {MsgHead}) /\ p \in Seq(Cell \ {FreeHead})
  BY NodeSeq DEF ListHead
<1>7. Ring(link, MsgHead, q) /\ Ring(link, FreeHead, p) /\ link \in Links
  BY <1>0 DEF Lists, TypeOK
<1>8. Ring(link', MsgHead, t)
  BY <1>3, <1>4, <1>5, <1>6, <1>7, AddTailRing
<1>9. Ring(link', FreeHead, p)
  <2>1. Ringed(MsgHead, q) \cap Ringed(FreeHead, p) = {} /\ n \notin Ringed(FreeHead, p)
    BY <1>3, <1>4, Rings DEF Lists, Ringed
  <2> QED  BY <1>4, <1>5, <1>6, <1>7, <2>1, AddTailOther
<1>10. /\ t \in Seq(Node) /\ ToSet(t) = ToSet(q) \cup {n} /\ t # <<>>
       /\ q # <<>> => t[1] = q[1]
       /\ \A i \in {1, 2} : Around(q, MsgHead, i) \in {MsgHead, Around(t, MsgHead, i)}
  BY AppendSet
<1> HIDE DEF t
<1>11. /\ thread' = thread /\ enq'[c].pc = "wake"
       /\ \A d \in Cpu : d # c => enq'[d] = enq[d]
  BY <1>0 DEF EnqAdd, NoCall, TypeOK
<1>12. ~Filled(c)' /\ \A d \in Cpu : d # c => (Filled(d)' <=> Filled(d))
  BY <1>11 DEF Filled
<1>13. \A d \in Cpu : d # c /\ Filled(d) => enq[d].node # n
  BY <1>1, <1>2 DEF Lists
<1>14. thread.pc = "put" => thread.pos # n
  BY <1>1, <1>2 DEF Lists
<1>15. Hands' = Hands \ {n}
  BY <1>1, <1>2, <1>11, <1>12, <1>13, <1>14, InHands, InHandsNext
<1>16. /\ ToSet(t) \cap ToSet(p) = {}
       /\ Hands' \cap (ToSet(t) \cup ToSet(p)) = {}
       /\ thread'.pc # "none" => ToSet(t) \cup ToSet(p) \cup Hands' = Node
  BY <1>2, <1>3, <1>10, <1>11, <1>15 DEF Lists
<1>17. thread.pc # "none"
  BY <1>0 DEF EnqAdd, Phases
<1>18. /\ thread'.pc \in {"wait", "check", "del"} =>
             /\ t # <<>> /\ thread'.pos = t[1]
             /\ thread'.nxt \in {MsgHead, Around(t, MsgHead, 2)}
       /\ thread'.pc \in {"put", "advance"} =>
             thread'.nxt \in {MsgHead, Around(t, MsgHead, 1)}
  BY <1>10, <1>11 DEF Lists
<1>19. \A d, e \in Cpu :
           Filled(d)' /\ Filled(e)' /\ enq'[d].node = enq'[e].node => d = e
  BY <1>11, <1>12 DEF Lists
<1>20. thread'.pc = "put" =>
           thread'.pos \in Node /\ \A d \in Cpu : Filled(d)' => enq'[d].node # thread'.pos
  BY <1>11, <1>12 DEF Lists
<1>21. Lists(t, p)'
  BY <1>8, <1>9, <1>11, <1>16, <1>17, <1>18, <1>19, <1>20 DEF Lists
<1> QED  BY <1>1, <1>3, <1>10, <1>21 DEF t

LEMMA ThreadDelLists ==
    ASSUME IndInv, NEW q \in Seq(Node), NEW p \in Seq(Node), Lists(q, p), ThreadDel
    PROVE  q # <<>> /\ thread.pos = q[1] /\ Lists(Tail(q), p)'
<1>0. TypeOK
  BY DEF IndInv
<1>1. thread.pc = "del" /\ link' = Del(link, thread.pos) /\ enq' = enq
  BY DEF ThreadDel, ThreadGoes
<1>2. PICK n \in Node : /\ q # <<>> /\ thread.pos = n /\ n = q[1]
                        /\ thread.nxt \in {MsgHead, Around(q, MsgHead, 2)}
  <2>1. /\ q # <<>> /\ thread.pos = q[1]
        /\ thread.nxt \in {MsgHead, Around(q, MsgHead, 2)}
    BY <1>1 DEF Lists
  <2> QED  BY <2>1, LenProperties, EmptySeq, ElementOfSeq
<1>3. /\ \A i, j \in 1 .. Len(q) : q[i] = q[j] => i = j
      /\ Ring(link, MsgHead, q) /\ Ring(link, FreeHead, p) /\ link \in Links
  BY <1>0 DEF Lists, Ring, TypeOK
<1>4. /\ Tail(q) \in Seq(Node) /\ ToSet(Tail(q)) = ToSet(q) \ {n} /\ n \in ToSet(q)
      /\ Around(Tail(q), MsgHead, 1) = Around(q, MsgHead, 2)
  BY <1>2, <1>3, TailSet
<1>5. /\ q \in Seq(Cell \ {MsgHead}) /\ p \in Seq(Cell \ {FreeHead})
      /\ MsgHead \in Cell /\ FreeHead \in Cell
  BY NodeSeq DEF ListHead
<1>6. Ringed(MsgHead, q) \cap Ringed(FreeHead, p) = {}
  <2>1. ToSet(q) \cap ToSet(p) = {}
    BY DEF Lists
  <2> QED  BY <2>1, Rings
<1>7. Ring(link', MsgHead, Tail(q))
  BY <1>1, <1>2, <1>3, <1>5, DelFirst
<1>8. Ring(link', FreeHead, p)
  BY <1>1, <1>2, <1>3, <1>5, <1>6, DelFirstOther
<1>9. thread'.pc = "put" /\ thread'.pos = n /\ thread'.nxt = thread.nxt
  BY <1>0, <1>2 DEF ThreadDel, ThreadGoes, TypeOK
<1>10. \A d \in Cpu : (Filled(d)' <=> Filled(d)) /\ enq'[d].node = enq[d].node
  BY <1>1 DEF Filled
<1>11. Hands' = Hands \cup {n}
  BY <1>1, <1>9, <1>10, InHands, InHandsNext
<1>12. n \notin Hands
  BY <1>4 DEF Lists
<1>13. \A d \in Cpu : Filled(d) => enq[d].node # n
  BY <1>12, InHands
<1>14. /\ ToSet(Tail(q)) \cap ToSet(p) = {}
       /\ Hands' \cap (ToSet(Tail(q)) \cup ToSet(p)) = {}
       /\ ToSet(Tail(q)) \cup ToSet(p) \cup Hands' = Node
  BY <1>1, <1>4, <1>11, <1>12 DEF Lists
<1>15. \A d, e \in Cpu :
           Filled(d)' /\ Filled(e)' /\ enq'[d].node = enq'[e].node => d = e
  BY <1>10 DEF Lists
<1>16. thread'.pos \in Node /\ \A d \in Cpu : Filled(d)' => enq'[d].node # thread'.pos
  BY <1>9, <1>10, <1>13
<1>17. thread'.nxt \in {MsgHead, Around(Tail(q), MsgHead, 1)}
  BY <1>2, <1>4, <1>9
<1> QED  BY <1>2, <1>7, <1>8, <1>9, <1>14, <1>15, <1>16, <1>17 DEF Lists

LEMMA ThreadPutLists ==
    ASSUME IndInv, NEW q \in Seq(Node), NEW p \in Seq(Node), Lists(q, p), ThreadPut
    PROVE  /\ thread.pos \in Node /\ thread.pos \notin ToSet(q)
           /\ \E t \in Seq(Node) : Lists(q, t)'
<1>0. TypeOK /\ Heads
  BY DEF IndInv
<1>1. PICK n \in Node : n = thread.pos
  BY DEF ThreadPut, Lists
<1> DEFINE t == Append(p, n)
<1>2. thread.pc = "put" /\ n \in Hands
  BY <1>1, InHands DEF ThreadPut
<1>3. n \notin ToSet(q) /\ n \notin ToSet(p)
  BY <1>2 DEF Lists
<1>4. /\ n \in Cell /\ n # MsgHead /\ n # FreeHead /\ FreeHead \in ListHead
      /\ MsgHead \in Cell /\ FreeHead \in Cell
  BY Cells DEF ListHead
<1>5. link' = AddTail(link, n, FreeHead)
  BY <1>0, <1>1, <1>4, PutAdds DEF ThreadPut
<1>6. q \in Seq(Cell \ {MsgHead}) /\ p \in Seq(Cell \ {FreeHead})
  BY NodeSeq DEF ListHead
<1>7. Ring(link, MsgHead, q) /\ Ring(link, FreeHead, p) /\ link \in Links
  BY <1>0 DEF Lists, TypeOK
<1>8. Ring(link', FreeHead, t)
  BY <1>3, <1>4, <1>5, <1>6, <1>7, AddTailRing
<1>9. Ring(link', MsgHead, q)
  <2>1. Ringed(FreeHead, p) \cap Ringed(MsgHead, q) = {} /\ n \notin Ringed(MsgHead, q)
    BY <1>3, <1>4, Rings DEF Lists, Ringed
  <2> QED  BY <1>4, <1>5, <1>6, <1>7, <2>1, AddTailOther
<1>10. t \in Seq(Node) /\ ToSet(t) = ToSet(p) \cup {n}
  BY AppendSet
<1> HIDE DEF t
<1>11. enq' = enq /\ thread'.pc = "advance" /\ thread'.nxt = thread.nxt
  BY <1>0 DEF ThreadPut, TypeOK
<1>12. \A d \in Cpu : (Filled(d)' <=> Filled(d)) /\ enq'[d].node = enq[d].node
  BY <1>11 DEF Filled
<1>13. \A d \in Cpu : Filled(d) => enq[d].node # n
  BY <1>1, <1>2 DEF Lists
<1>14. Hands' = Hands \ {n}
  BY <1>1, <1>2, <1>11, <1>12, <1>13, InHands, InHandsNext
<1>15. /\ ToSet(q) \cap ToSet(t) = {}
       /\ Hands' \cap (ToSet(q) \cup ToSet(t)) = {}
       /\ ToSet(q) \cup ToSet(t) \cup Hands' = Node
  BY <1>2, <1>3, <1>10, <1>14 DEF Lists
<1>16. \A d, e \in Cpu :
           Filled(d)' /\ Filled(e)' /\ enq'[d].node = enq'[e].node => d = e
  BY <1>12 DEF Lists
<1>17. thread'.nxt \in {MsgHead, Around(q, MsgHead, 1)}
  BY <1>2, <1>11 DEF Lists
<1>18. Lists(q, t)'
  BY <1>8, <1>9, <1>11, <1>15, <1>16, <1>17 DEF Lists
<1> QED  BY <1>1, <1>3, <1>10, <1>18

LEMMA ScanLists ==
    ASSUME IndInv, NEW q \in Seq(Node), NEW p \in Seq(Node), Lists(q, p), ThreadScan
    PROVE  Lists(q, p)'
<1>0. TypeOK
  BY DEF IndInv
<1>1. thread.pc = "scan" /\ link' = link /\ enq' = enq
  BY DEF ThreadScan
<1>2. CASE q = <<>>
  <2>1. thread' = AtLoop
    BY <1>0, <1>2, Firsts DEF ThreadScan, ListEmpty
  <2> QED  BY <1>1, <2>1, ThreadFrame DEF AtLoop
<1>3. CASE q # <<>>
  <2>1. /\ link.next[MsgHead] = q[1] /\ link.next[MsgHead] # MsgHead
        /\ link.next[q[1]] = Around(q, MsgHead, 2)
    BY <1>0, <1>3, Firsts
  <2>2. thread'.pc = "wait" /\ thread'.pos = q[1] /\ thread'.nxt = Around(q, MsgHead, 2)
    BY <2>1 DEF ThreadScan, ListEmpty
  <2> QED  BY <1>1, <1>3, <2>2, ThreadFrame
<1> QED  BY <1>2, <1>3

LEMMA AdvanceLists ==
    ASSUME IndInv, NEW q \in Seq(Node), NEW p \in Seq(Node), Lists(q, p), ThreadAdvance
    PROVE  Lists(q, p)'
<1>0. TypeOK
  BY DEF IndInv
<1>1. thread.pc = "advance" /\ link' = link /\ enq' = enq
  BY DEF ThreadAdvance
<1>2. thread.nxt \in {MsgHead, Around(q, MsgHead, 1)}
  BY <1>1 DEF Lists
<1>3. thread.nxt # Poison
  BY <1>2, NodeSeq, Cells, NodeAssumption DEF ListHead
<1>4. CASE thread.nxt = MsgHead
  <2>1. thread' = AtLoop
    BY <1>3, <1>4 DEF ThreadAdvance
  <2> QED  BY <1>1, <2>1, ThreadFrame DEF AtLoop
<1>5. CASE thread.nxt # MsgHead
  <2>1. thread' = [thread EXCEPT !.pc = "wait", !.pos = thread.nxt,
                                 !.nxt = link.next[thread.nxt]]
    BY <1>3, <1>5 DEF ThreadAdvance
  <2>2. thread'.pc = "wait" /\ thread'.pos = thread.nxt /\ thread'.nxt = link.next[thread.nxt]
    BY <1>0, <2>1 DEF TypeOK
  <2>3. q # <<>> /\ thread.nxt = q[1] /\ link.next[q[1]] = Around(q, MsgHead, 2)
    <3>1. q # <<>> /\ thread.nxt = link.next[MsgHead]
      BY <1>0, <1>2, <1>5, Firsts
    <3> QED  BY <1>0, <3>1, Firsts
  <2> QED  BY <1>1, <2>2, <2>3, ThreadFrame
<1> QED  BY <1>4, <1>5

LEMMA LoadLists ==
    ASSUME IndInv, Load
    PROVE  \E p \in Seq(Node) : Lists(<<>>, p)'
<1>0. TypeOK /\ Phases
  BY DEF IndInv
<1>1. PICK k \in 0 .. Cardinality(Node) :
         /\ link' = PoolOf(k)
         /\ thread' = IF k = Cardinality(Node) THEN AtLoop ELSE [AtLoop EXCEPT !.pc = "none"]
  BY DEF Load
<1>2. PICK p \in Seq(Node) : /\ Ring(link', FreeHead, p)
                             /\ k = Cardinality(Node) => ToSet(p) = Node
  BY <1>1, PoolRing
<1>3. Ring(link', MsgHead, <<>>)
  BY <1>1, PoolRing
<1>4. enq' = enq /\ \A c \in Cpu : enq[c].pc = "idle"
  <2>1. module.pc = "absent" /\ ~broken /\ enq' = enq
    BY DEF Load, Loaded
  <2>2. thread.pc = "none"
    BY <1>0, <2>1 DEF Phases
  <2> QED  BY <1>0, <2>1, <2>2 DEF Phases
<1>5. \A c \in Cpu : ~Filled(c)'
  BY <1>4 DEF Filled
<1>6. /\ thread'.pc \in {"none", "loop"}
      /\ thread'.pc # "none" => k = Cardinality(Node)
  <2>1. CASE k = Cardinality(Node)
    BY <1>1, <2>1 DEF AtLoop
  <2>2. CASE k # Cardinality(Node)
    BY <1>1, <2>2 DEF AtLoop
  <2> QED  BY <2>1, <2>2
<1>7. Hands' = {}
  BY <1>5, <1>6, InHandsNext
<1>8. ToSet(<<>>) = {}
  BY DEF ToSet
<1> QED  BY <1>2, <1>3, <1>5, <1>6, <1>7, <1>8 DEF Lists

\* What a step may do to the queue q while the module works: nothing,
Stays(q, t) ==
    /\ t = q /\ \A n \in ToSet(q) : msg'[n] = msg[n]
    /\ thread'.pc = "del" <=> thread.pc = "del"

\* send its first event, which stays until its node is deleted,
Sends(q, t) ==
    t = q /\ q # <<>> /\ msg' = msg /\ thread.pc # "del" /\ thread'.pc = "del"

Deletes(q, t) ==
    t = Tail(q) /\ q # <<>> /\ msg' = msg /\ thread.pc = "del" /\ thread'.pc # "del"

\* or append one event in a node that was not in it.
Accepts(q, t) ==
    \E n \in Node \ ToSet(q) :
        /\ t = Append(q, n) /\ msg'[n] \in Event
        /\ \A m \in ToSet(q) : msg'[m] = msg[m]
        /\ thread'.pc = thread.pc

Flows(q, t) == Stays(q, t) \/ Sends(q, t) \/ Deletes(q, t) \/ Accepts(q, t)

LEMMA StepLists ==
    ASSUME IndInv, [Next]_vars, ~Load, Working'
    PROVE  /\ Working
           /\ \E q, p \in Seq(Node) :
                 /\ Lists(q, p)
                 /\ \E t, o \in Seq(Node) : Lists(t, o)' /\ Flows(q, t)
<1>0. TypeOK /\ Phases /\ Calls
  BY DEF IndInv
<1>100. module'.pc \in {"on", "stop"} /\ ~limited' /\ ~broken'
  BY DEF Working
<1>200. Working
  BY StaysWorking
<1>300. PICK q, p \in Seq(Node) : Lists(q, p)
  BY <1>200 DEF IndInv, ListsOK
<1> DEFINE G == \E t, o \in Seq(Node) : Lists(t, o)' /\ Flows(q, t)
<1>400. ToSet(q) \subseteq Node
  BY NodeSeq DEF ListHead
<1> SUFFICES G
  BY <1>200, <1>300
<1>1. ASSUME NEW c \in Cpu, NEW e \in Event, EnqTest(c, e)
      PROVE  G
  <2>1. /\ enq' = [enq EXCEPT ![c] = [pc |-> "get", node |-> FreeHead, event |-> e]]
        /\ enq[c].pc = "idle" /\ link' = link /\ thread' = thread
    BY <1>1 DEF EnqTest
  <2>2. /\ enq'[c].pc = "get" /\ \A d \in Cpu : d # c => enq'[d] = enq[d]
    BY <1>0, <2>1 DEF TypeOK
  <2>3. \A d \in Cpu : (Filled(d)' <=> Filled(d)) /\ (Filled(d) => enq'[d].node = enq[d].node)
    BY <2>1, <2>2 DEF Filled
  <2>8. Lists(q, p)'
    BY <1>300, <2>1, <2>3, ListsFrame
  <2>9. Stays(q, q)
    BY <1>0, <1>1 DEF EnqTest, Stays, TypeOK
  <2> QED  BY <2>8, <2>9 DEF Flows
<1>2. ASSUME NEW c \in Cpu, EnqGet(c)
      PROVE  G
  <2>1. p # <<>> /\ Lists(q, Tail(p))'
    BY <1>100, <1>300, <1>2, EnqGetLists
  <2>2. Tail(p) \in Seq(Node)
    BY <2>1, HeadTailProperties
  <2>3. Stays(q, q)
    BY <1>2 DEF EnqGet, Stays
  <2> QED  BY <2>1, <2>2, <2>3 DEF Flows
<1>3. ASSUME NEW c \in Cpu, EnqAdd(c)
      PROVE  G
  <2>1. PICK n \in Node : n = enq[c].node /\ n \notin ToSet(q)
    BY <1>300, <1>3, EnqAddLists
  <2>2. PICK t \in Seq(Node) : t = Append(q, n) /\ Lists(t, p)'
    BY <1>300, <1>3, <2>1, EnqAddLists
  <2>3. enq[c].event \in Event /\ thread' = thread /\ msg' = [msg EXCEPT ![n] = enq[c].event]
    BY <1>0, <1>3, <2>1 DEF EnqAdd, Calls
  <2>4. msg'[n] \in Event /\ \A m \in ToSet(q) : msg'[m] = msg[m]
    BY <1>0, <1>400, <2>1, <2>3 DEF TypeOK
  <2>5. Accepts(q, t)
    BY <2>1, <2>2, <2>3, <2>4 DEF Accepts
  <2> QED  BY <2>2, <2>5 DEF Flows
<1>4. ASSUME NEW c \in Cpu, EnqWake(c)
      PROVE  G
  <2>1. /\ enq' = [enq EXCEPT ![c] = NoCall] /\ enq[c].pc = "wake" /\ link' = link
        /\ thread' = [thread EXCEPT !.task = "running"]
    BY <1>4 DEF EnqWake
  <2>2. /\ enq'[c].pc = "idle" /\ \A d \in Cpu : d # c => enq'[d] = enq[d]
    BY <1>0, <2>1 DEF TypeOK, NoCall
  <2>3. \A d \in Cpu : (Filled(d)' <=> Filled(d)) /\ (Filled(d) => enq'[d].node = enq[d].node)
    BY <2>1, <2>2 DEF Filled
  <2>4. thread'.pc = thread.pc /\ thread'.pos = thread.pos /\ thread'.nxt = thread.nxt
    BY <1>0, <2>1 DEF TypeOK
  <2>8. Lists(q, p)'
    BY <1>300, <2>1, <2>3, <2>4, ListsFrame
  <2>9. Stays(q, q)
    BY <1>0, <1>4 DEF EnqWake, Stays, TypeOK
  <2> QED  BY <2>8, <2>9 DEF Flows
<1>5. CASE ThreadLoop
  <2>1. /\ thread.pc \notin {"none", "put"} /\ thread'.pc \in {"ended", "mark"}
        /\ thread'.pos = thread.pos /\ thread'.nxt = thread.nxt
        /\ link' = link /\ enq' = enq
    BY <1>0, <1>5 DEF ThreadLoop, TypeOK, ThreadGoes
  <2>8. Lists(q, p)'
    BY <1>300, <2>1, ThreadFrame
  <2>9. Stays(q, q)
    BY <1>0, <1>5 DEF ThreadLoop, ThreadGoes, Stays, TypeOK
  <2> QED  BY <2>8, <2>9 DEF Flows
<1>6. CASE ThreadMark
  <2>1. /\ thread.pc \notin {"none", "put"} /\ thread'.pc \in {"test"}
        /\ thread'.pos = thread.pos /\ thread'.nxt = thread.nxt
        /\ link' = link /\ enq' = enq
    BY <1>0, <1>6 DEF ThreadMark, TypeOK
  <2>8. Lists(q, p)'
    BY <1>300, <2>1, ThreadFrame
  <2>9. Stays(q, q)
    BY <1>0, <1>6 DEF ThreadMark, Stays, TypeOK
  <2> QED  BY <2>8, <2>9 DEF Flows
<1>7. CASE ThreadTest
  <2>1. /\ thread.pc \notin {"none", "put"} /\ thread'.pc \in {"sleep", "scan"}
        /\ thread'.pos = thread.pos /\ thread'.nxt = thread.nxt
        /\ link' = link /\ enq' = enq
    BY <1>0, <1>7 DEF ThreadTest, TypeOK, ThreadGoes
  <2>8. Lists(q, p)'
    BY <1>300, <2>1, ThreadFrame
  <2>9. Stays(q, q)
    BY <1>0, <1>7 DEF ThreadTest, ThreadGoes, Stays, TypeOK
  <2> QED  BY <2>8, <2>9 DEF Flows
<1>8. CASE ThreadSleep
  <2>1. /\ thread.pc \notin {"none", "put"} /\ thread'.pc \in {"scan"}
        /\ thread'.pos = thread.pos /\ thread'.nxt = thread.nxt
        /\ link' = link /\ enq' = enq
    BY <1>0, <1>8 DEF ThreadSleep, TypeOK, ThreadGoes
  <2>8. Lists(q, p)'
    BY <1>300, <2>1, ThreadFrame
  <2>9. Stays(q, q)
    BY <1>0, <1>8 DEF ThreadSleep, ThreadGoes, Stays, TypeOK
  <2> QED  BY <2>8, <2>9 DEF Flows
<1>9. CASE ThreadScan
  <2>1. Lists(q, p)'
    BY <1>300, <1>9, ScanLists
  <2>2. thread.pc # "del" /\ thread'.pc # "del" /\ msg' = msg
    BY <1>0, <1>9 DEF ThreadScan, AtLoop, TypeOK
  <2> QED  BY <2>1, <2>2 DEF Flows, Stays
<1>10. CASE ThreadWait
  <2>1. /\ thread.pc = "wait" /\ thread'.pc = "check"
        /\ thread'.pos = thread.pos /\ thread'.nxt = thread.nxt
        /\ link' = link /\ enq' = enq
    BY <1>0, <1>10 DEF ThreadWait, TypeOK, ThreadGoes
  <2>2. /\ q # <<>> /\ thread.pos = q[1]
        /\ thread.nxt \in {MsgHead, Around(q, MsgHead, 2)}
    BY <1>300, <2>1 DEF Lists
  <2>8. Lists(q, p)'
    BY <1>300, <2>1, <2>2, ThreadFrame
  <2>9. Stays(q, q)
    BY <1>0, <1>10 DEF ThreadWait, ThreadGoes, Stays, TypeOK
  <2> QED  BY <2>8, <2>9 DEF Flows
<1>11. CASE ThreadLimit
  BY <1>100, <1>11 DEF ThreadLimit, ThreadGoes
<1>12. CASE ThreadLapse
  BY <1>0, <1>200, <1>12 DEF ThreadLapse, Phases, Working
<1>13. CASE ThreadSend
  <2>1. /\ thread.pc = "check" /\ thread'.pc = "del"
        /\ thread'.pos = thread.pos /\ thread'.nxt = thread.nxt
        /\ link' = link /\ enq' = enq
    BY <1>0, <1>13 DEF ThreadSend, TypeOK, ThreadGoes
  <2>2. /\ q # <<>> /\ thread.pos = q[1]
        /\ thread.nxt \in {MsgHead, Around(q, MsgHead, 2)}
    BY <1>300, <2>1 DEF Lists
  <2>8. Lists(q, p)'
    BY <1>300, <2>1, <2>2, ThreadFrame
  <2>9. Sends(q, q)
    BY <1>13, <2>1, <2>2 DEF ThreadSend, Sends
  <2> QED  BY <2>8, <2>9 DEF Flows
<1>14. CASE ThreadFail
  <2>1. /\ thread.pc \notin {"none", "put"} /\ thread'.pc \in {"dead"}
        /\ thread'.pos = thread.pos /\ thread'.nxt = thread.nxt
        /\ link' = link /\ enq' = enq
    BY <1>0, <1>14 DEF ThreadFail, TypeOK, ThreadGoes
  <2>8. Lists(q, p)'
    BY <1>300, <2>1, ThreadFrame
  <2>9. Stays(q, q)
    BY <1>0, <1>14 DEF ThreadFail, ThreadGoes, Stays, TypeOK
  <2> QED  BY <2>8, <2>9 DEF Flows
<1>15. CASE ThreadDel
  <2>1. q # <<>> /\ Lists(Tail(q), p)'
    BY <1>300, <1>15, ThreadDelLists
  <2>2. Tail(q) \in Seq(Node)
    BY <2>1, HeadTailProperties
  <2>3. thread.pc = "del" /\ thread'.pc = "put" /\ msg' = msg
    BY <1>0, <1>15 DEF ThreadDel, ThreadGoes, TypeOK
  <2>4. Deletes(q, Tail(q))
    BY <2>1, <2>3 DEF Deletes
  <2> QED  BY <2>1, <2>2, <2>4 DEF Flows
<1>16. CASE ThreadPut
  <2>1. PICK o \in Seq(Node) : Lists(q, o)'
    BY <1>300, <1>16, ThreadPutLists
  <2>2. thread.pos \notin ToSet(q)
    BY <1>300, <1>16, ThreadPutLists
  <2>3. \A n \in ToSet(q) : msg'[n] = msg[n]
    BY <1>16, <1>400, <2>2 DEF ThreadPut
  <2>4. thread.pc = "put" /\ thread'.pc = "advance"
    BY <1>0, <1>16 DEF ThreadPut, TypeOK
  <2>5. Stays(q, q)
    BY <2>3, <2>4 DEF Stays
  <2> QED  BY <2>1, <2>5 DEF Flows
<1>17. CASE ThreadAdvance
  <2>1. Lists(q, p)'
    BY <1>300, <1>17, AdvanceLists
  <2>2. thread.pc # "del" /\ thread'.pc # "del" /\ msg' = msg
    BY <1>0, <1>17, AdvanceGoes DEF ThreadAdvance
  <2> QED  BY <2>1, <2>2 DEF Flows, Stays
<1>18. CASE ClientStart
  <2>1. Lists(q, p)'
    BY <1>300, <1>18, ListsFrame DEF ClientStart, Filled
  <2>2. Stays(q, q)
    BY <1>18 DEF ClientStart, Stays
  <2> QED  BY <2>1, <2>2 DEF Flows
<1>19. CASE ClientAsk
  <2>1. Lists(q, p)'
    BY <1>300, <1>19, ListsFrame DEF ClientAsk, Filled
  <2>2. Stays(q, q)
    BY <1>19 DEF ClientAsk, Stays
  <2> QED  BY <2>1, <2>2 DEF Flows
<1>20. CASE ClientReceive
  <2>1. Lists(q, p)'
    BY <1>300, <1>20, ListsFrame DEF ClientReceive, Filled
  <2>2. Stays(q, q)
    BY <1>20 DEF ClientReceive, Stays
  <2> QED  BY <2>1, <2>2 DEF Flows
<1>21. CASE ClientEnd
  <2>1. Lists(q, p)'
    BY <1>300, <1>21, ListsFrame DEF ClientEnd, Filled
  <2>2. Stays(q, q)
    BY <1>21 DEF ClientEnd, Stays
  <2> QED  BY <2>1, <2>2 DEF Flows
<1>22. CASE Load
  BY <1>22
<1>23. CASE ExitStop
  <2>1. /\ thread'.pc = thread.pc /\ thread'.pos = thread.pos /\ thread'.nxt = thread.nxt
        /\ link' = link /\ enq' = enq
    BY <1>0, <1>23 DEF ExitStop, TypeOK
  <2>8. Lists(q, p)'
    BY <1>300, <2>1, ListsFrame DEF Filled
  <2>9. Stays(q, q)
    BY <1>0, <1>23 DEF ExitStop, Stays, TypeOK
  <2> QED  BY <2>8, <2>9 DEF Flows
<1>24. CASE ExitJoin
  BY <1>0, <1>100, <1>200, <1>24 DEF ExitJoin, Working, TypeOK
<1>25. CASE ExitWalk
  BY <1>0, <1>100, <1>200, <1>25 DEF ExitWalk, Working, TypeOK
<1>26. CASE ExitFree
  BY <1>0, <1>100, <1>200, <1>26 DEF ExitFree, Working, TypeOK
<1>27. CASE ExitUnhook
  BY <1>0, <1>100, <1>200, <1>27 DEF ExitUnhook, Working, TypeOK
<1>28. CASE Expire
  <2>1. Lists(q, p)'
    BY <1>300, <1>28, ListsFrame DEF Expire, Filled
  <2>2. Stays(q, q)
    BY <1>28 DEF Expire, Stays
  <2> QED  BY <2>1, <2>2 DEF Flows
<1>29. CASE UNCHANGED vars
  <2>1. Lists(q, p)'
    BY <1>300, <1>29, ListsFrame DEF vars, Filled
  <2>2. Stays(q, q)
    BY <1>29 DEF vars, Stays
  <2> QED  BY <2>1, <2>2 DEF Flows
<1> QED
  BY <1>1, <1>2, <1>3, <1>4, <1>5, <1>6, <1>7, <1>8, <1>9, <1>10, <1>11, <1>12, <1>13, <1>14, <1>15, <1>16, <1>17, <1>18, <1>19, <1>20, <1>21, <1>22, <1>23, <1>24, <1>25, <1>26, <1>27, <1>28, <1>29
     DEF Next, EnqOn, Thread, ClientOn, Exit

LEMMA NextLists ==
    ASSUME IndInv, [Next]_vars
    PROVE  ListsOK'
<1>1. CASE Load
  <2>1. <<>> \in Seq(Node)
    BY EmptySeq
  <2> QED  BY <1>1, <2>1, LoadLists DEF ListsOK
<1>2. CASE ~Load
  BY <1>2, StepLists DEF ListsOK
<1> QED  BY <1>1, <1>2

-----------------------------------------------------------------------------
(* What follows.                                                           *)

LEMMA InitOK ==
    ASSUME Init
    PROVE  IndInv /\ OneAnswerEach
<1>1. /\ link = Fresh({MsgHead, FreeHead}) /\ thread = [AtLoop EXCEPT !.pc = "none"]
      /\ module = [pc |-> "absent", pos |-> FreeHead, nxt |-> FreeHead]
      /\ msg = [n \in Node |-> NoEvent] /\ enq = [c \in Cpu |-> NoCall]
      /\ credit = 0 /\ hooked = FALSE /\ limited = FALSE /\ expired \in BOOLEAN
      /\ client = "down" /\ answers = 0 /\ broken = FALSE /\ orphan = FALSE
      /\ restarted = FALSE
  BY DEF Init
<1>2. /\ link \in Links
      /\ \A h \in ListHead : link.next[h] = h /\ link.prev[h] = h /\ h \in Cell
  BY <1>1, FreshType, Cells DEF ListHead
<1>3. thread = [pc |-> "none", pos |-> MsgHead, nxt |-> MsgHead, task |-> "running"]
  BY <1>1 DEF AtLoop
<1>4. 0 \in 0 .. MaxCredit /\ MaxCredit \in Nat
  BY CreditAssumption
<1>5. TypeOK
  <2>1. /\ msg \in [Node -> Event \cup {NoEvent}]
        /\ enq \in [Cpu -> [pc : {"idle", "get", "fill", "wake"}, node : Node \cup {FreeHead},
                            event : Event \cup {NoEvent}]]
    BY <1>1 DEF NoCall
  <2>2. MsgHead \in Cell /\ FreeHead \in Cell
    BY Cells
  <2>3. thread \in [pc : {"none", "loop", "mark", "test", "sleep", "scan", "wait", "check",
                        "lapse", "del", "put", "advance", "dead", "ended"},
                   pos : Cell, nxt : Cell \cup {Poison}, task : {"running", "interruptible"}]
    BY <1>3, <2>2
  <2>4. module \in [pc : {"absent", "on", "stop", "first", "walk", "kfree", "unhook"},
                   pos : Node \cup {FreeHead}, nxt : Cell \cup {Poison}]
    BY <1>1, <2>2
  <2>5. \A b \in {hooked, expired, limited, broken, orphan, restarted} : b \in BOOLEAN
    BY <1>1
  <2>6. credit \in 0 .. MaxCredit /\ answers \in 0 .. MaxCredit
    BY <1>1, <1>4
  <2> QED  BY <1>1, <1>2, <2>1, <2>3, <2>4, <2>5, <2>6 DEF TypeOK
<1>6. Heads
  BY <1>2 DEF Heads
<1>7. Phases
  BY <1>1, <1>3 DEF Phases, NoCall
<1>8. Calls
  BY <1>1 DEF Calls, Filled, NoCall
<1>9. Credits
  BY <1>1, <1>3, <1>4 DEF Credits, UnderWay
<1>10. ListsOK
  BY <1>1 DEF ListsOK, Working
<1> QED  BY <1>1, <1>5, <1>6, <1>7, <1>8, <1>9, <1>10 DEF IndInv, OneAnswerEach, Working

LEMMA StepOK ==
    ASSUME IndInv, OneAnswerEach, [Next]_vars
    PROVE  IndInv' /\ OneAnswerEach'
BY NextType, NextPhases, NextCredits, NextLists DEF IndInv

LEMMA Inductive ==
    Spec => [](IndInv /\ OneAnswerEach)
<1>1. IndInv /\ OneAnswerEach /\ [Next]_vars => (IndInv /\ OneAnswerEach)'
  BY StepOK
<1>2. Init => IndInv /\ OneAnswerEach
  BY InitOK
<1> QED  BY <1>1, <1>2, PTL DEF Spec

\* For the first client of a module every request and every answer is
\* accounted for, whatever the thread does with the completion client_ready.
THEOREM Answers ==
    Spec => []OneAnswerEach
BY Inductive, PTL

\* The lists that the links spell out are those of the invariant.
LEMMA ListsAre ==
    ASSUME NEW l \in Links, NEW h \in ListHead, NEW m \in Seq(Node), Ring(l, h, m)
    PROVE  /\ Members(l, h) = m /\ Sound(l, h)
           /\ Cardinality(ToSet(m)) = Len(m) /\ IsFiniteSet(ToSet(m))
<1>1. m \in Seq(Cell \ {h}) /\ h \in Cell /\ ToSet(m) \subseteq Node
  BY NodeSeq
<1>2. Members(l, h) = m
  BY <1>1, MembersOfRing
<1>3. IsFiniteSet(Node) /\ \A i, j \in 1 .. Len(m) : m[i] = m[j] => i = j
  BY NodeAssumption DEF Ring
<1>4. Cardinality(ToSet(m)) = Len(m)
  BY <1>3, DistinctIsShort
<1>5. IsFiniteSet(ToSet(m))
  BY <1>1, <1>3, FS_Subset
<1> QED  BY <1>2, <1>4, <1>5 DEF Sound

LEMMA Accounted ==
    ASSUME IndInv
    PROVE  NodesAccounted
<1>0. TypeOK /\ link \in Links
  BY DEF IndInv, TypeOK
<1> SUFFICES ASSUME Working, thread.pc # "none"
             PROVE  /\ Sound(link, MsgHead) /\ Sound(link, FreeHead)
                    /\ ToSet(Queue) \cup ToSet(Pool) \cup Hands = Node
                    /\ Len(Queue) + Len(Pool) + Cardinality(Hands) = Cardinality(Node)
  BY <1>0 DEF NodesAccounted
<1>1. PICK q, p \in Seq(Node) : Lists(q, p)
  BY DEF IndInv, ListsOK
<1>2. Ring(link, MsgHead, q) /\ Ring(link, FreeHead, p) /\ MsgHead \in ListHead /\ FreeHead \in ListHead
  BY <1>1 DEF Lists, ListHead
<1>3. /\ Queue = q /\ Sound(link, MsgHead)
      /\ Cardinality(ToSet(q)) = Len(q) /\ IsFiniteSet(ToSet(q))
  BY <1>0, <1>2, ListsAre DEF Queue
<1>4. /\ Pool = p /\ Sound(link, FreeHead)
      /\ Cardinality(ToSet(p)) = Len(p) /\ IsFiniteSet(ToSet(p))
  BY <1>0, <1>2, ListsAre DEF Pool
<1>5. /\ ToSet(q) \cup ToSet(p) \cup Hands = Node
      /\ ToSet(q) \cap ToSet(p) = {} /\ Hands \cap (ToSet(q) \cup ToSet(p)) = {}
  BY <1>1 DEF Lists
<1>6. IsFiniteSet(Hands)
  BY <1>5, NodeAssumption, FS_Subset
<1>7. /\ Cardinality({}) = 0 /\ Cardinality(Hands) \in Nat
      /\ Cardinality(ToSet(q)) \in Nat /\ Cardinality(ToSet(p)) \in Nat
  BY <1>3, <1>4, <1>6, FS_EmptySet, FS_CardinalityType
<1> DEFINE U == ToSet(q) \cup ToSet(p)
<1>8. IsFiniteSet(U) /\ Cardinality(U) = Len(q) + Len(p)
  <2>1. /\ IsFiniteSet(U)
        /\ Cardinality(U) =
              Cardinality(ToSet(q)) + Cardinality(ToSet(p)) - Cardinality(ToSet(q) \cap ToSet(p))
    BY <1>3, <1>4, FS_Union
  <2>2. Cardinality(ToSet(q) \cap ToSet(p)) = 0
    BY <1>5, <1>7
  <2> HIDE DEF U
  <2> QED  BY <1>3, <1>4, <1>7, <2>1, <2>2
<1>9. Cardinality(Node) = Len(q) + Len(p) + Cardinality(Hands)
  <2>1. U \cup Hands = Node /\ U \cap Hands = {}
    BY <1>5
  <2> HIDE DEF U
  <2>2. Cardinality(U \cup Hands) =
           Cardinality(U) + Cardinality(Hands) - Cardinality(U \cap Hands)
    BY <1>6, <1>8, FS_Union
  <2>3. Cardinality(U \cap Hands) = 0
    BY <1>7, <2>1
  <2>4. Len(q) \in Nat /\ Len(p) \in Nat
    BY LenProperties
  <2>5. Cardinality(U \cup Hands) = Cardinality(Node)
    BY <2>1
  <2>6. PICK k \in Nat : k = Cardinality(Hands)
    BY <1>7
  <2>7. Cardinality(U \cup Hands) = Len(q) + Len(p) + k - 0
    BY <1>8, <2>2, <2>3, <2>6
  <2>8. Cardinality(Node) = Len(q) + Len(p) + k
    BY <2>4, <2>5, <2>6, <2>7
  <2> QED  BY <2>6, <2>8
<1> QED  BY <1>3, <1>4, <1>5, <1>9

\* No node is lost, taken twice or in two lists, and both lists stay sound,
\* however calls of netlink_enq and the thread meet between the locks.
THEOREM Nodes ==
    Spec => []NodesAccounted
<1>1. IndInv => NodesAccounted
  BY Accounted
<1> QED  BY <1>1, Inductive, PTL

-----------------------------------------------------------------------------
(* Queue, nodes and thread implement EventChannel.                         *)

\* The events in the nodes u.
Events(m, u) == [i \in DOMAIN u |-> m[u[i]]]

\* What has an event of the queue q is not sent yet.
Left(q) == IF thread.pc = "del" THEN Tail(q) ELSE q

LEMMA LeftIs ==
    ASSUME TypeOK, NEW q \in Seq(Node), NEW p \in Seq(Node), Lists(q, p)
    PROVE  Unsent = Left(q)
<1>1. Queue = q
  BY ListsAre DEF Queue, Lists, TypeOK, ListHead
<1>2. thread.pc = "del" => link.next[MsgHead] = thread.pos
  BY Firsts DEF Lists
<1> QED  BY <1>1, <1>2 DEF Unsent, Left

LEMMA LeftIsNext ==
    ASSUME TypeOK', NEW q \in Seq(Node), NEW p \in Seq(Node), Lists(q, p)'
    PROVE  Unsent' = Left(q)'
<1>1. Ring(link', MsgHead, q) /\ link' \in Links /\ MsgHead \in ListHead
  BY DEF Lists, TypeOK, ListHead
<1>2. Queue' = q
  BY <1>1, ListsAre DEF Queue
<1>3. thread'.pc = "del" => link'.next[MsgHead] = thread'.pos
  <2>1. thread'.pc = "del" => q # <<>> /\ thread'.pos = q[1]
    BY DEF Lists
  <2>2. q \in Seq(Cell \ {MsgHead}) /\ MsgHead \in Cell
    BY <1>1, NodeSeq
  <2>3. q # <<>> => link'.next[MsgHead] = q[1]
    BY <1>1, <2>2, DelFirst
  <2> QED  BY <2>1, <2>3
<1> QED  BY <1>2, <1>3 DEF Unsent, Left

LEMMA EventsSeq ==
    ASSUME NEW m, NEW u \in Seq(Node)
    PROVE  /\ Len(Events(m, u)) = Len(u) /\ DOMAIN Events(m, u) = 1 .. Len(u)
           /\ \A V : (\A n \in ToSet(u) : m[n] \in V) => Events(m, u) \in Seq(V)
<1>1. PICK L \in Nat : L = Len(u) /\ u \in [1 .. L -> Node] /\ DOMAIN u = 1 .. L
  BY LenProperties
<1>2. DOMAIN Events(m, u) = 1 .. L
  BY <1>1 DEF Events
<1>3. ASSUME NEW V, \A n \in ToSet(u) : m[n] \in V
      PROVE  Events(m, u) \in Seq(V)
  <2>1. \A i \in 1 .. L : m[u[i]] \in V
    BY <1>1, <1>3 DEF ToSet
  <2>2. [i \in 1 .. L |-> m[u[i]]] \in Seq(V)
    BY <2>1, IsASeq
  <2> QED  BY <1>1, <2>2 DEF Events
<1>4. Len(Events(m, u)) = L
  <2>1. Events(m, u) \in Seq({m[u[i]] : i \in 1 .. L})
    <3>1. \A n \in ToSet(u) : m[n] \in {m[u[i]] : i \in 1 .. L}
      BY <1>1 DEF ToSet
    <3> QED  BY <1>3, <3>1
  <2> QED  BY <1>1, <1>2, <2>1, LenProperties
<1> QED  BY <1>1, <1>2, <1>3, <1>4

LEMMA EventsSame ==
    ASSUME NEW m, NEW o, NEW u \in Seq(Node), \A n \in ToSet(u) : o[n] = m[n]
    PROVE  Events(o, u) = Events(m, u)
<1>1. \A i \in DOMAIN u : o[u[i]] = m[u[i]]
  BY DEF ToSet
<1> QED  BY <1>1 DEF Events

LEMMA EventsTail ==
    ASSUME NEW m, NEW u \in Seq(Node), u # <<>>
    PROVE  Events(m, u) # <<>> /\ Events(m, Tail(u)) = Tail(Events(m, u))
<1>1. PICK L \in Nat : L = Len(u) /\ u \in [1 .. L -> Node] /\ DOMAIN u = 1 .. L /\ L >= 1
  BY LenProperties, EmptySeq
<1> DEFINE V == {m[n] : n \in ToSet(u)}
           e == Events(m, u)
           t == Tail(u)
           f == Events(m, t)
<1>2. /\ t \in Seq(Node) /\ Len(t) = L - 1 /\ DOMAIN t = 1 .. L - 1
      /\ \A i \in 1 .. L - 1 : t[i] = u[i + 1]
  <2>1. /\ t \in Seq(Node) /\ Len(t) = L - 1
        /\ \A i \in 1 .. Len(t) : t[i] = u[i + 1]
    BY <1>1, HeadTailProperties
  <2> HIDE DEF t
  <2>2. DOMAIN t = 1 .. Len(t)
    BY <2>1, LenProperties
  <2> QED  BY <2>1, <2>2
<1>3. e \in Seq(V) /\ Len(e) = L /\ \A i \in 1 .. L : e[i] = m[u[i]]
  <2>1. \A n \in ToSet(u) : m[n] \in V
    OBVIOUS
  <2>2. \A i \in 1 .. L : e[i] = m[u[i]]
    BY <1>1 DEF Events
  <2> HIDE DEF V, e
  <2>3. Events(m, u) \in Seq(V) /\ Len(Events(m, u)) = L
    BY <1>1, <2>1, EventsSeq
  <2> QED  BY <2>2, <2>3 DEF e
<1>4. \A n \in ToSet(t) : n \in ToSet(u)
  <2>1. ToSet(t) = {t[i] : i \in 1 .. L - 1} /\ ToSet(u) = {u[i] : i \in 1 .. L}
    BY <1>1, <1>2 DEF ToSet
  <2>2. \A i \in 1 .. L - 1 : i + 1 \in 1 .. L
    OBVIOUS
  <2> HIDE DEF t
  <2> QED  BY <1>2, <2>1, <2>2
<1>5. f \in Seq(V) /\ Len(f) = L - 1 /\ \A i \in 1 .. L - 1 : f[i] = m[t[i]]
  BY ZenonT(60), <1>2, <1>4, EventsSeq DEF Events
<1> HIDE DEF e, f, t, V
<1>6. e # <<>>
  BY <1>1, <1>3, EmptySeq
<1>7. /\ Tail(e) \in Seq(V) /\ Len(Tail(e)) = L - 1
      /\ \A i \in 1 .. L - 1 : Tail(e)[i] = e[i + 1]
  BY <1>3, <1>6, HeadTailProperties
<1>8. \A i \in 1 .. L - 1 : f[i] = Tail(e)[i]
  <2> SUFFICES ASSUME NEW i \in 1 .. L - 1
               PROVE  f[i] = Tail(e)[i]
    OBVIOUS
  <2>1. PICK j \in 1 .. L : j = i + 1
    OBVIOUS
  <2>2. f[i] = m[t[i]] /\ t[i] = u[j]
    BY <1>2, <1>5, <2>1
  <2>3. Tail(e)[i] = e[j] /\ e[j] = m[u[j]]
    BY <1>3, <1>7, <2>1
  <2> QED  BY ONLY <2>2, <2>3
<1>9. f = Tail(e)
  BY <1>5, <1>7, <1>8, SeqEqual
<1> QED  BY <1>6, <1>9 DEF e, f, t

LEMMA EventsAppend ==
    ASSUME NEW m, NEW o, NEW u \in Seq(Node), NEW n \in Node,
           \A x \in ToSet(u) : o[x] = m[x]
    PROVE  Events(o, Append(u, n)) = Append(Events(m, u), o[n])
<1>1. PICK L \in Nat : L = Len(u) /\ u \in [1 .. L -> Node] /\ DOMAIN u = 1 .. L
  BY LenProperties
<1> DEFINE t == Append(u, n)
           V == {o[x] : x \in ToSet(t)}
           e == Events(o, u)
           f == Events(o, t)
           g == Append(e, o[n])
<1>2. /\ t \in Seq(Node) /\ Len(t) = L + 1 /\ DOMAIN t = 1 .. L + 1 /\ t[L + 1] = n
      /\ \A i \in 1 .. L : t[i] = u[i]
  BY <1>1, AppendProperties, LenProperties
<1>3. ToSet(t) = ToSet(u) \cup {n}
  BY AppendSet
<1>4. e \in Seq(V) /\ Len(e) = L /\ \A i \in 1 .. L : e[i] = o[u[i]]
  BY ZenonT(60), <1>1, <1>3, EventsSeq DEF Events
<1>5. f \in Seq(V) /\ Len(f) = L + 1 /\ \A i \in 1 .. L + 1 : f[i] = o[t[i]]
  BY ZenonT(60), <1>2, EventsSeq DEF Events
<1>6. o[n] \in V
  BY <1>3
<1> HIDE DEF e, f, t, V
<1>7. /\ g \in Seq(V) /\ Len(g) = L + 1 /\ g[L + 1] = o[n]
      /\ \A i \in 1 .. L : g[i] = e[i]
  BY <1>4, <1>6, AppendProperties
<1> HIDE DEF g
<1>8. ASSUME NEW i \in 1 .. L + 1
      PROVE  f[i] = g[i]
  <2>1. CASE i \in 1 .. L
    BY <1>2, <1>4, <1>5, <1>7, <2>1
  <2>2. CASE i = L + 1
    BY <1>2, <1>5, <1>7, <2>2
  <2> QED  BY <2>1, <2>2
<1>9. f = g
  BY <1>5, <1>7, <1>8, SeqEqual
<1>10. e = Events(m, u)
  BY EventsSame DEF e
<1> QED  BY <1>9, <1>10 DEF f, g, t

LEMMA TailAppend ==
    ASSUME NEW q \in Seq(Node), q # <<>>, NEW n \in Node
    PROVE  Tail(Append(q, n)) = Append(Tail(q), n)
<1>1. PICK L \in Nat : L = Len(q) /\ L >= 1
  BY LenProperties, EmptySeq
<1> DEFINE a == Append(q, n)
           b == Tail(q)
           c == Tail(a)
           d == Append(b, n)
<1>2. /\ a \in Seq(Node) /\ a # <<>> /\ Len(a) = L + 1 /\ a[L + 1] = n
      /\ \A i \in 1 .. L : a[i] = q[i]
  BY <1>1, AppendProperties
<1>3. b \in Seq(Node) /\ Len(b) = L - 1 /\ \A i \in 1 .. L - 1 : b[i] = q[i + 1]
  BY <1>1, HeadTailProperties
<1> HIDE DEF a, b
<1>4. c \in Seq(Node) /\ Len(c) = L /\ \A i \in 1 .. L : c[i] = a[i + 1]
  BY <1>1, <1>2, HeadTailProperties
<1>5. /\ d \in Seq(Node) /\ Len(d) = L /\ d[L] = n
      /\ \A i \in 1 .. L - 1 : d[i] = b[i]
  BY <1>1, <1>3, AppendProperties
<1> HIDE DEF c, d
<1>6. ASSUME NEW i \in 1 .. L
      PROVE  c[i] = d[i]
  <2>1. CASE i \in 1 .. L - 1
    <3>1. i + 1 \in 1 .. L
      BY <2>1
    <3> QED  BY <1>2, <1>3, <1>4, <1>5, <2>1, <3>1
  <2>2. CASE i = L
    BY <1>2, <1>4, <1>5, <2>2
  <2> QED  BY <2>1, <2>2
<1>7. c = d
  BY <1>4, <1>5, <1>6, SeqEqual
<1> QED  BY <1>7 DEF a, b, c, d

LEMMA LeftSeq ==
    ASSUME NEW q \in Seq(Node), q # <<>>
    PROVE  Tail(q) \in Seq(Node) /\ ToSet(Tail(q)) \subseteq ToSet(q)
<1>1. PICK L \in Nat : L = Len(q) /\ DOMAIN q = 1 .. L /\ L >= 1
  BY LenProperties, EmptySeq
<1> DEFINE t == Tail(q)
<1>2. /\ t \in Seq(Node) /\ Len(t) = L - 1
      /\ \A i \in 1 .. Len(t) : t[i] = q[i + 1]
  BY <1>1, HeadTailProperties
<1> HIDE DEF t
<1>3. DOMAIN t = 1 .. L - 1
  BY <1>2, LenProperties
<1>4. \A i \in 1 .. L - 1 : i + 1 \in 1 .. L
  OBVIOUS
<1>5. \A x \in ToSet(t) : x \in ToSet(q)
  BY <1>1, <1>2, <1>3, <1>4 DEF ToSet
<1> QED  BY <1>2, <1>5 DEF t

\* A step of the module that works is one of the channel that is open.
LEMMA FlowSteps ==
    ASSUME NEW q \in Seq(Node), NEW t, Flows(q, t),
           thread.pc = "del" => q # <<>>
    PROVE  \/ Events(msg', Left(t)') = Events(msg, Left(q))
           \/ \E e \in Event : Events(msg', Left(t)') = Append(Events(msg, Left(q)), e)
           \/ /\ Events(msg, Left(q)) # <<>>
              /\ Events(msg', Left(t)') = Tail(Events(msg, Left(q)))
<1> DEFINE u == Left(q)
<1>1. u \in Seq(Node) /\ ToSet(u) \subseteq ToSet(q)
  BY LeftSeq DEF Left
<1>2. CASE Stays(q, t)
  <2>1. Left(t)' = u /\ \A n \in ToSet(u) : msg'[n] = msg[n]
    BY <1>1, <1>2 DEF Stays, Left
  <2> HIDE DEF u
  <2>2. Events(msg', u) = Events(msg, u)
    BY <1>1, <2>1, EventsSame
  <2> QED  BY <2>1, <2>2 DEF u
<1>3. CASE Sends(q, t)
  <2>1. u = q /\ Left(t)' = Tail(q) /\ msg' = msg /\ q # <<>>
    BY <1>3 DEF Sends, Left
  <2>2. Events(msg, q) # <<>> /\ Events(msg, Tail(q)) = Tail(Events(msg, q))
    BY <2>1, EventsTail
  <2> QED  BY <2>1, <2>2
<1>4. CASE Deletes(q, t)
  <2>1. Left(t)' = u /\ msg' = msg
    BY <1>4 DEF Deletes, Left
  <2> QED  BY <2>1
<1>5. CASE Accepts(q, t)
  <2>1. PICK n \in Node : /\ t = Append(q, n) /\ msg'[n] \in Event
                          /\ \A m \in ToSet(q) : msg'[m] = msg[m]
                          /\ thread'.pc = thread.pc
    BY <1>5 DEF Accepts
  <2>2. Left(t)' = Append(u, n)
    <3>1. CASE thread.pc = "del"
      <4>1. u = Tail(q) /\ Left(t)' = Tail(t)
        BY <2>1, <3>1 DEF Left
      <4> HIDE DEF u
      <4>2. Tail(t) = Append(Tail(q), n)
        BY <2>1, <3>1, TailAppend
      <4> QED  BY <4>1, <4>2
    <3>2. CASE thread.pc # "del"
      <4>1. u = q /\ Left(t)' = t
        BY <2>1, <3>2 DEF Left
      <4> HIDE DEF u
      <4> QED  BY <2>1, <4>1
    <3> QED  BY <3>1, <3>2
  <2> HIDE DEF u
  <2>3. Events(msg', Append(u, n)) = Append(Events(msg, u), msg'[n])
    BY <1>1, <2>1, EventsAppend
  <2> QED  BY <2>1, <2>2, <2>3 DEF u
<1> QED  BY <1>2, <1>3, <1>4, <1>5 DEF Flows

\* What stands for the pending events of the channel.
Pending == IF Working THEN [i \in DOMAIN Unsent |-> msg[Unsent[i]]] ELSE <<>>

LEMMA ChannelStep ==
    ASSUME IndInv, IndInv', [Next]_vars
    PROVE  [Abstract!Next]_(Abstract!vars)
<1>0. TypeOK /\ TypeOK'
  BY DEF IndInv
<1>1. Working \in BOOLEAN /\ Working' \in BOOLEAN
  BY DEF Working
<1>2. CASE Working /\ Working'
  <2>1. ~Load
    BY <1>2 DEF Load, Loaded, Working
  <2>2. PICK q, p \in Seq(Node) :
           Lists(q, p) /\ \E t, o \in Seq(Node) : Lists(t, o)' /\ Flows(q, t)
    BY <1>2, <2>1, StepLists
  <2>3. PICK t, o \in Seq(Node) : Lists(t, o)' /\ Flows(q, t)
    BY <2>2
  <2>4. Unsent = Left(q)
    BY <1>0, <2>2, LeftIs
  <2>5. Unsent' = Left(t)'
    BY <1>0, <2>3, LeftIsNext
  <2>6. Pending = Events(msg, Left(q))
    BY <1>2, <2>4 DEF Pending, Events
  <2>7. Pending' = Events(msg', Left(t)')
    BY <1>2, <2>5 DEF Pending, Events
  <2>8. thread.pc = "del" => q # <<>>
    BY <2>2 DEF Lists
  <2>9. \/ Pending' = Pending
        \/ \E e \in Event : Pending' = Append(Pending, e)
        \/ Pending # <<>> /\ Pending' = Tail(Pending)
    BY <2>3, <2>6, <2>7, <2>8, FlowSteps
  <2> QED
    BY <1>2, <2>9 DEF Pending, Abstract!Next, Abstract!vars, Abstract!Accept, Abstract!Send
<1>3. CASE Working /\ ~Working'
  BY <1>3 DEF Abstract!Next, Abstract!Close
<1>4. CASE ~Working /\ ~Working'
  <2>1. Pending = <<>> /\ Pending' = <<>> /\ Working' = Working
    BY <1>1, <1>4 DEF Pending
  <2> QED  BY <2>1 DEF Pending, Abstract!vars
<1>5. CASE ~Working /\ Working'
  <2>1. Load
    BY <1>5, StaysWorking
  <2>2. PICK p \in Seq(Node) : Lists(<<>>, p)'
    BY <2>1, LoadLists
  <2>3. <<>> \in Seq(Node)
    BY EmptySeq
  <2>4. thread'.pc # "del"
    BY <2>2 DEF Lists
  <2>5. Unsent' = <<>>
    BY <1>0, <2>2, <2>3, <2>4, LeftIsNext DEF Left
  <2>6. Pending' = Events(msg', <<>>)
    BY <1>5, <2>5 DEF Pending, Events
  <2>7. Events(msg', <<>>) \in Seq(Event) /\ Len(Events(msg', <<>>)) = 0
    <3>1. ToSet(<<>>) = {}
      BY DEF ToSet
    <3> QED  BY <2>3, <3>1, EventsSeq, EmptySeq
  <2>8. Events(msg', <<>>) = <<>>
    BY <2>7, EmptySeq
  <2>9. Pending = <<>> /\ Pending' = <<>>
    BY <1>5, <2>6, <2>8 DEF Pending
  <2> QED  BY <1>5, <2>9 DEF Pending, Abstract!Next, Abstract!Open
<1> QED  BY <1>1, <1>2, <1>3, <1>4, <1>5

\* While the module works, what netlink_enq has accepted is sent once each, in
\* the order of the calls, however the processors, the thread, the client and
\* the end of the module interleave.
THEOREM Channel ==
    Spec => ChannelSpec
<1>1. Init => Abstract!Init
  BY DEF Init, Working, Abstract!Init
<1>2. IndInv /\ IndInv' /\ [Next]_vars => [Abstract!Next]_(Abstract!vars)
  BY ChannelStep
<1>3. Spec => []IndInv
  BY Inductive, PTL
<1> QED  BY <1>1, <1>2, <1>3, PTL DEF Spec, ChannelSpec, Abstract!Spec
=============================================================================
