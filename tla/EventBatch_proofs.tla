--------------------------- MODULE EventBatch_proofs ---------------------------
(***************************************************************************)
(* What the event server promises, for every set of handlers, events and   *)
(* subjects and every width of the counters: that the statistics of the    *)
(* events agree, that those of the requests do unless two handlers were at *)
(* one counter, and that batch and messages implement Digest.              *)
(***************************************************************************)
EXTENDS EventBatch, FiniteSetTheorems, Folds, TLAPS

-----------------------------------------------------------------------------
(* Counters that wrap.                                                     *)

\* A multiple of Width that is less than Width away from 0 is 0.
LEMMA SmallMultiple ==
    ASSUME NEW d \in Int, -Width < Width * d, Width * d < Width
    PROVE  d = 0
<1>1. Width \in Nat \ {0}
  BY NumberAssumption
<1>2. CASE d >= 1
  <2>1. Width * d >= Width * 1
    BY <1>1, <1>2
  <2> QED  BY <1>1, <2>1
<1>3. CASE d <= -1
  <2>1. Width * d <= Width * (-1)
    BY <1>1, <1>3
  <2> QED  BY <1>1, <2>1
<1> QED  BY <1>2, <1>3

LEMMA Products ==
    ASSUME NEW a \in Int, NEW b \in Int
    PROVE  /\ Width * a \in Int /\ Width * (a + b) = Width * a + Width * b
           /\ Width * (a - b) = Width * a - Width * b
<1>1. Width \in Int
  BY NumberAssumption
<1>2. Width * a \in Int
  BY <1>1
<1>3. Width * (a + b) = Width * a + Width * b
  BY <1>1
<1>4. Width * (a - b) = Width * a - Width * b
  BY <1>1
<1> QED  BY <1>2, <1>3, <1>4

LEMMA Division ==
    ASSUME NEW n \in Int
    PROVE  \E q \in Int, r \in 0..(Width - 1) : n = Width * q + r /\ r = n % Width
<1>1. n \div Width \in Int
  BY NumberAssumption
<1>2. n % Width \in 0..(Width - 1)
  BY NumberAssumption
<1>3. n % Width = n - Width * (n \div Width)
  BY NumberAssumption
<1>4. PICK q \in Int, r \in 0..(Width - 1) : q = n \div Width /\ r = n % Width
  BY <1>1, <1>2
<1>5. PICK m \in Int : m = Width * q
  BY Products
<1>6. r = n - m /\ r \in Int
  BY <1>3, <1>4, <1>5
<1>7. n = m + r
  BY <1>5, <1>6
<1> QED  BY <1>4, <1>5, <1>7

\* What was left after a wrap has one remainder.
LEMMA Remainder ==
    ASSUME NEW n \in Int, NEW q \in Int, NEW r \in 0..(Width - 1), n = Width * q + r
    PROVE  n % Width = r
<1>1. PICK p \in Int, t \in 0..(Width - 1) : n = Width * p + t /\ t = n % Width
  BY Division
<1>2. PICK a \in Int, b \in Int : a = Width * p /\ b = Width * q
  BY Products
<1>3. PICK d \in Int : d = p - q
  OBVIOUS
<1>4. Width * d = a - b
  BY <1>2, <1>3, Products
<1>5. n = a + t /\ n = b + r /\ t \in Int /\ r \in Int
  BY <1>1, <1>2
<1>6. a - b = r - t
  BY <1>5
<1>7. -Width < r - t /\ r - t < Width
  BY NumberAssumption
<1>8. d = 0
  BY <1>4, <1>6, <1>7, SmallMultiple
<1>9. p = q
  BY <1>3, <1>8
<1>10. a = b
  BY <1>2, <1>9
<1>11. t = r
  BY <1>5, <1>10
<1> QED  BY <1>1, <1>11

\* Wrapping in between makes no difference.
LEMMA WrapOnce ==
    ASSUME NEW n \in Int, NEW k \in Int
    PROVE  ((n % Width) + k) % Width = (n + k) % Width
<1>1. PICK q \in Int, t \in 0..(Width - 1) : n = Width * q + t /\ t = n % Width
  BY Division
<1>2. PICK m \in Int : m = t + k
  OBVIOUS
<1>3. PICK p \in Int, r \in 0..(Width - 1) : m = Width * p + r /\ r = m % Width
  BY Division
<1>4. PICK a \in Int, b \in Int : a = Width * q /\ b = Width * p
  BY Products
<1>5. PICK l \in Int, s \in Int : l = n + k /\ s = q + p
  OBVIOUS
<1>6. Width * s = a + b
  BY <1>4, <1>5, Products
<1>7. n = a + t /\ m = b + r /\ t \in Int /\ r \in Int
  BY <1>1, <1>3, <1>4
<1>8. l = (a + b) + r
  BY <1>2, <1>5, <1>7
<1>9. l % Width = r
  BY <1>6, <1>8, Remainder
<1> QED  BY <1>1, <1>2, <1>3, <1>5, <1>9

LEMMA AddIn == ASSUME NEW n \in Int, NEW k \in Int PROVE Add(n, k) \in 0..(Width - 1)
<1>1. PICK m \in Int : m = n + k
  OBVIOUS
<1> QED  BY <1>1, Division DEF Add

LEMMA AddAgain ==
    ASSUME NEW n \in Int, NEW k \in Int, NEW m \in Int
    PROVE  Add(Add(n, k), m) = Add(n, k + m)
<1>1. PICK l \in Int : l = n + k
  OBVIOUS
<1>2. ((l % Width) + m) % Width = (l + m) % Width
  BY WrapOnce
<1>3. l + m = n + (k + m)
  BY <1>1
<1> QED  BY <1>1, <1>2, <1>3 DEF Add

LEMMA AddZero ==
    ASSUME NEW n \in 0..(Width - 1)
    PROVE  Add(n, 0) = n
<1>1. Width \in Nat \ {0}
  BY NumberAssumption
<1>2. n + 0 = Width * 0 + n /\ n + 0 \in Int
  BY <1>1
<1> QED  BY <1>1, <1>2, Remainder DEF Add

-----------------------------------------------------------------------------
(* Sums over the subjects.  The sum is a recursive function on the sets of *)
(* subjects; that it exists, and what it does, follows from the least set  *)
(* for which it would not.                                                 *)

\* Among finitely many sets one has no other below it.
LEMMA Smallest ==
    ASSUME NEW F \in SUBSET SUBSET Subject, F # {}
    PROVE  \E x \in F : \A y \in F : y \subseteq x => y = x
<1>1. IsWellFoundedOn(StrictSubsetOrdering(Subject), FiniteSubsetsOf(Subject))
  BY FS_StrictSubsetOrderingWellFounded
<1>2. F \subseteq FiniteSubsetsOf(Subject)
  BY FiniteAssumption, FS_FiniteSubsetsOfFinite
<1>3. \E x \in F : \A y \in F : ~ (<<y, x>> \in StrictSubsetOrdering(Subject))
  BY <1>1, <1>2, WFMin
<1> QED  BY <1>3 DEF StrictSubsetOrdering

Pick(s) == CHOOSE x \in s : TRUE

\* g is the sum of f on the subsets of T.
SumOn(f, g, T) ==
    g = [s \in SUBSET T |-> IF s = {} THEN 0 ELSE f[Pick(s)] + g[s \ {Pick(s)}]]

LEMMA PickIn == ASSUME NEW s, s # {} PROVE Pick(s) \in s
BY DEF Pick

LEMMA SumUnique ==
    ASSUME NEW f, NEW T \in SUBSET Subject, NEW U \in SUBSET Subject,
           NEW g, SumOn(f, g, T), NEW h, SumOn(f, h, U),
           NEW s \in SUBSET T, s \in SUBSET U
    PROVE  g[s] = h[s]
<1> DEFINE F == {r \in SUBSET s : g[r] # h[r]}
<1> SUFFICES ASSUME F # {}
             PROVE  FALSE
  OBVIOUS
<1>0. F \in SUBSET SUBSET Subject
  OBVIOUS
<1>1. PICK x \in F : \A y \in F : y \subseteq x => y = x
  BY <1>0, Smallest
<1>2. x \in SUBSET T /\ x \in SUBSET U /\ g[x] # h[x]
  BY <1>1
<1>3. /\ g[x] = IF x = {} THEN 0 ELSE f[Pick(x)] + g[x \ {Pick(x)}]
      /\ h[x] = IF x = {} THEN 0 ELSE f[Pick(x)] + h[x \ {Pick(x)}]
  BY <1>2 DEF SumOn
<1>4. x # {} /\ Pick(x) \in x
  BY <1>2, <1>3, PickIn
<1>5. g[x \ {Pick(x)}] = h[x \ {Pick(x)}]
  BY <1>1, <1>4
<1> QED  BY <1>2, <1>3, <1>4, <1>5

LEMMA SumExists ==
    ASSUME NEW f
    PROVE  \E g : SumOn(f, g, Subject)
<1> DEFINE F == {T \in SUBSET Subject : ~\E g : SumOn(f, g, T)}
<1> SUFFICES ASSUME F # {}
             PROVE  FALSE
  OBVIOUS
<1>0. F \in SUBSET SUBSET Subject
  OBVIOUS
<1>1. PICK T \in F : \A y \in F : y \subseteq T => y = T
  BY <1>0, Smallest
<1> DEFINE On(t) == CHOOSE g : SumOn(f, g, t)
           Val(t) == On(t)[t]
           G == [t \in SUBSET T |->
                   IF t = {} THEN 0 ELSE f[Pick(t)] + Val(t \ {Pick(t)})]
<1>2. ASSUME NEW t \in SUBSET T, t # T
      PROVE  SumOn(f, On(t), t)
  <2>1. \E g : SumOn(f, g, t)
    BY <1>1, <1>2
  <2> QED  BY <2>1
<1>3. ASSUME NEW t \in SUBSET T, t # T
      PROVE  Val(t) = G[t]
  <2>1. SumOn(f, On(t), t)
    BY <1>2, <1>3
  <2>2. On(t)[t] = IF t = {} THEN 0 ELSE f[Pick(t)] + On(t)[t \ {Pick(t)}]
    BY <2>1 DEF SumOn
  <2>3. ASSUME t # {}
        PROVE  On(t)[t \ {Pick(t)}] = Val(t \ {Pick(t)})
    <3> DEFINE u == t \ {Pick(t)}
    <3>1. Pick(t) \in t
      BY <2>3, PickIn
    <3>2. u \in SUBSET t /\ u \in SUBSET T /\ u # T /\ t \in SUBSET Subject
             /\ u \in SUBSET Subject
      BY <1>1, <3>1
    <3>3. SumOn(f, On(u), u)
      BY <1>2, <3>2
    <3> HIDE DEF u, On
    <3>4. On(t)[u] = On(u)[u]
      BY <2>1, <3>2, <3>3, SumUnique
    <3> QED  BY <3>4 DEF u
  <2> QED  BY <2>2, <2>3
<1>4. SumOn(f, G, T)
  <2>1. ASSUME NEW t \in SUBSET T, t # {}
        PROVE  Val(t \ {Pick(t)}) = G[t \ {Pick(t)}]
    <3>1. t \ {Pick(t)} \in SUBSET T /\ t \ {Pick(t)} # T
      BY <2>1, PickIn
    <3> HIDE DEF Val, G
    <3> QED  BY <1>3, <3>1
  <2>2. \A t \in SUBSET T :
           G[t] = IF t = {} THEN 0 ELSE f[Pick(t)] + G[t \ {Pick(t)}]
    <3>1. \A t \in SUBSET T :
             G[t] = IF t = {} THEN 0 ELSE f[Pick(t)] + Val(t \ {Pick(t)})
      OBVIOUS
    <3> HIDE DEF Val, G
    <3> QED  BY <2>1, <3>1
  <2>3. G = [t \in SUBSET T |-> G[t]]
    OBVIOUS
  <2> HIDE DEF G
  <2> QED  BY <2>2, <2>3 DEF SumOn
<1> QED  BY <1>1, <1>4

Sum(f) == CHOOSE g : SumOn(f, g, Subject)

LEMMA SumValues ==
    ASSUME NEW f, NEW s \in SUBSET Subject
    PROVE  Sum(f)[s] = IF s = {} THEN 0 ELSE f[Pick(s)] + Sum(f)[s \ {Pick(s)}]
<1>1. SumOn(f, Sum(f), Subject)
  BY SumExists DEF Sum
<1> HIDE DEF Sum
<1> QED  BY <1>1 DEF SumOn

LEMMA SumNumbers ==
    ASSUME NEW f \in [Subject -> Int], NEW s \in SUBSET Subject
    PROVE  Sum(f)[s] \in Int
<1> DEFINE F == {r \in SUBSET s : Sum(f)[r] \notin Int}
<1> SUFFICES ASSUME F # {}
             PROVE  FALSE
  OBVIOUS
<1>0. F \in SUBSET SUBSET Subject
  OBVIOUS
<1>1. PICK x \in F : \A y \in F : y \subseteq x => y = x
  BY <1>0, Smallest
<1>2. Sum(f)[x] = IF x = {} THEN 0 ELSE f[Pick(x)] + Sum(f)[x \ {Pick(x)}]
  BY <1>1, SumValues
<1>3. x # {} /\ Pick(x) \in x
  BY <1>1, <1>2, PickIn
<1>4. Sum(f)[x \ {Pick(x)}] \in Int
  BY <1>1, <1>3
<1> QED  BY <1>1, <1>2, <1>3, <1>4

\* One summand changes.
LEMMA SumChange ==
    ASSUME NEW f \in [Subject -> Int], NEW g \in [Subject -> Int], NEW x \in Subject,
           \A y \in Subject \ {x} : g[y] = f[y]
    PROVE  Sum(g)[Subject] = Sum(f)[Subject] - f[x] + g[x]
<1>1. PICK v \in Int : v = g[x]
  OBVIOUS
<1>2. g[x] = v /\ \A y \in Subject \ {x} : g[y] = f[y]
  BY <1>1
<1> DEFINE Right(s) == Sum(g)[s] = Sum(f)[s] + (IF x \in s THEN v - f[x] ELSE 0)
           F == {s \in SUBSET Subject : ~Right(s)}
<1>3. F = {}
  <2> SUFFICES ASSUME F # {}
               PROVE  FALSE
    OBVIOUS
  <2>0. F \in SUBSET SUBSET Subject
    OBVIOUS
  <2>1. PICK s \in F : \A y \in F : y \subseteq s => y = s
    BY <2>0, Smallest
  <2>2. /\ Sum(g)[s] = IF s = {} THEN 0 ELSE g[Pick(s)] + Sum(g)[s \ {Pick(s)}]
        /\ Sum(f)[s] = IF s = {} THEN 0 ELSE f[Pick(s)] + Sum(f)[s \ {Pick(s)}]
    BY <2>1, SumValues
  <2>3. s # {} /\ Pick(s) \in s
    BY <2>1, <2>2, PickIn
  <2>4. Right(s \ {Pick(s)})
    BY <2>1, <2>3
  <2>5. /\ Sum(f)[s \ {Pick(s)}] \in Int /\ Sum(g)[s \ {Pick(s)}] \in Int
        /\ f[x] \in Int /\ f[Pick(s)] \in Int /\ g[Pick(s)] \in Int
    BY <1>2, <2>1, <2>3, SumNumbers
  <2>6. CASE Pick(s) = x
    BY <1>2, <2>1, <2>2, <2>3, <2>4, <2>5, <2>6
  <2>7. CASE Pick(s) # x
    BY <1>2, <2>1, <2>2, <2>3, <2>4, <2>5, <2>7
  <2> QED  BY <2>6, <2>7
<1>4. Right(Subject)
  BY <1>3
<1>5. Sum(f)[Subject] \in Int /\ f[x] \in Int
  BY SumNumbers
<1> QED  BY <1>1, <1>4, <1>5

LEMMA SumOfNone == Sum([s \in Subject |-> 0])[Subject] = 0
<1>1. PICK f : f = [s \in Subject |-> 0]
  OBVIOUS
<1> DEFINE F == {s \in SUBSET Subject : Sum(f)[s] # 0}
<1>2. F = {}
  <2> SUFFICES ASSUME F # {}
               PROVE  FALSE
    OBVIOUS
  <2>0. F \in SUBSET SUBSET Subject
    OBVIOUS
  <2>1. PICK s \in F : \A y \in F : y \subseteq s => y = s
    BY <2>0, Smallest
  <2>2. Sum(f)[s] = IF s = {} THEN 0 ELSE f[Pick(s)] + Sum(f)[s \ {Pick(s)}]
    BY <2>1, SumValues
  <2>3. s # {} /\ Pick(s) \in s
    BY <2>1, <2>2, PickIn
  <2>4. Sum(f)[s \ {Pick(s)}] = 0
    BY <2>1, <2>3
  <2> QED  BY <1>1, <2>1, <2>2, <2>3, <2>4
<1> QED  BY <1>1, <1>2

\* Counted is such a sum, before a step and after it.
LEMMA CountedIsSum ==
    /\ Counted = Sum(perSubject)[Subject] % Width
    /\ Counted' = Sum(perSubject')[Subject] % Width
BY DEF Counted, MapThenSumSet, MapThenFoldSet, Sum, SumOn, Pick

LEMMA SumOfCounters ==
    ASSUME NEW f \in [Subject -> 0..(Width - 1)], NEW x \in Subject,
           NEW g, g = [f EXCEPT ![x] = Add(@, 1)]
    PROVE  Sum(g)[Subject] % Width = Add(Sum(f)[Subject], 1)
<1>1. PICK v : v = f[x]
  OBVIOUS
<1>2. v \in 0..(Width - 1) /\ v \in Int /\ f \in [Subject -> Int] /\ Add(v, 1) \in Int
  BY <1>1, AddIn, NumberAssumption
<1>3. PICK a \in Int, t \in Int : a = Add(v, 1) /\ t = Sum(f)[Subject]
  BY <1>2, SumNumbers
<1>4. Sum(g)[Subject] = t - v + a
  <2>1. g \in [Subject -> Int] /\ g[x] = a /\ \A y \in Subject \ {x} : g[y] = f[y]
    BY <1>1, <1>2, <1>3
  <2>2. Sum(g)[Subject] = Sum(f)[Subject] - f[x] + a
    BY <1>2, <2>1, SumChange
  <2> QED  BY <1>1, <1>3, <2>2
<1>5. (t - v + a) % Width = Add(t, 1)
  <2>1. PICK d \in Int : d = t - v
    BY <1>2
  <2>2. t - v + a = a + d
    BY <2>1
  <2>3. (a + d) % Width = Add(v, 1 + d)
    BY <1>2, <1>3, AddAgain DEF Add
  <2>4. v + (1 + d) = t + 1
    BY <1>2, <2>1
  <2> QED  BY <2>2, <2>3, <2>4 DEF Add
<1> QED  BY <1>1, <1>3, <1>4, <1>5

-----------------------------------------------------------------------------
(* The parts of the inductive invariant.                                   *)

\* A handler has an event while it is blocked, and who is in the queue of the
\* channel is blocked, and is there once.
QueueOK ==
    /\ \A h \in Handler : pc[h] = "send" => event[h] \in Event
    /\ \A i \in 1..Len(sendq) : pc[sendq[i]] = "send"
    /\ \A i, j \in 1..Len(sendq) : sendq[i] = sendq[j] => i = j

\* The batch lists what is marked; a process that is not there has neither
\* batch nor queue, and its worker no event.
BatchOK ==
    /\ Abstract!Lists(Events, marked)
    /\ ~up => marked = {} /\ sendq = <<>> /\ newEvent = NoEvent

SubjectOK == Add(Stat.TotalPublishEvent, Len(Events)) = Counted

\* Until two handlers were at one counter, who is between its load and its
\* store is alone there and has loaded what the counter still is.
Alone(counter) ==
    \A h \in Handler : pc[h] = Storing[counter] =>
        /\ loaded[h] = Stat[counter]
        /\ \A g \in Handler : pc[g] = Storing[counter] => g = h
LoadOK == ~raced => Alone("TotalReq") /\ Alone("TotalBadReq")

\* The requests that were counted as bad, or whose event the worker has received,
\* and that were not counted as one.
InHand == {h \in Handler : pc[h] \in {"loadReq", "storeReq"}}
CountOK ==
    ~raced => Add(Stat.TotalReq, Cardinality(InHand))
                 = Add(Add(Stat.TotalBadReq, Stat.TotalEvent), Uncounted)

IndInv == TypeOK /\ QueueOK /\ BatchOK /\ SubjectOK /\ LoadOK /\ CountOK

-----------------------------------------------------------------------------
(* The types.                                                              *)

Value == 0..(Width - 1)

LEMMA Values ==
    /\ 0 \in Value
    /\ \A n, k \in Int : Add(n, k) \in Value
    /\ \A n \in Value : n \in Int
BY AddIn, NumberAssumption DEF Value

\* The statistics are a function on the counters' names.
LEMMA Statistics ==
    ASSUME Stat \in [Counter -> Value]
    PROVE  /\ \A c \in Counter : Stat[c] \in Value
           /\ Stat.TotalReq \in Value /\ Stat.TotalBadReq \in Value
           /\ Stat.TotalEvent \in Value /\ Stat.TotalPublishEvent \in Value
           /\ Stat.TotalBatch \in Value
BY DEF Counter

LEMMA QueueTail ==
    ASSUME sendq \in Seq(Handler), sendq # <<>>
    PROVE  /\ Head(sendq) \in Handler /\ Tail(sendq) \in Seq(Handler)
           /\ Len(Tail(sendq)) = Len(sendq) - 1
           /\ Head(sendq) = sendq[1] /\ Len(sendq) \in Nat \ {0}
           /\ \A i \in 1..Len(Tail(sendq)) : Tail(sendq)[i] = sendq[i + 1]
OBVIOUS

LEMMA TypeInit == Init => TypeOK
<1> SUFFICES ASSUME Init
             PROVE  TypeOK
  OBVIOUS
<1>1. 0 \in Value
  BY Values
<1>2. /\ Stat \in [Counter -> Value] /\ perSubject \in [Subject -> Value]
      /\ loaded \in [Handler -> Value]
  BY <1>1 DEF Init, Blank
<1>3. sendq \in Seq(Handler) /\ Events \in Seq(Event) /\ message \in Seq(Event)
  BY DEF Init, Blank
<1>4. /\ pc \in [Handler -> {"idle", "send", "loadReq", "storeReq", "loadBad", "storeBad"}]
      /\ event \in [Handler -> Event \cup {NoEvent}]
      /\ marked = {} /\ waited = 0 /\ up \in BOOLEAN /\ natsCon \in BOOLEAN
      /\ raced \in BOOLEAN /\ newEvent \in Event \cup {NoEvent}
  BY DEF Init, Blank
<1> QED  BY <1>2, <1>3, <1>4, NumberAssumption DEF TypeOK, Value

\* What the steps of the worker and the handlers do to the counters.
LEMMA LoadTypes ==
    ASSUME TypeOK, NEW h \in Handler, NEW c \in {"TotalReq", "TotalBadReq"}, NEW here,
           Load(h, c, here)
    PROVE  TypeOK'
<1>1. loaded' \in [Handler -> Value]
  BY DEF Load, TypeOK, Value, Counter
<1>2. Storing[c] \in {"storeReq", "storeBad"}
  BY DEF Storing
<1>3. pc' \in [Handler -> {"idle", "send", "loadReq", "storeReq", "loadBad", "storeBad"}]
  BY <1>2 DEF Load, TypeOK
<1> QED  BY <1>1, <1>3 DEF Load, TypeOK, Value, batchVars, statVars

LEMMA StoreTypes ==
    ASSUME TypeOK, NEW h \in Handler, NEW c \in {"TotalReq", "TotalBadReq"},
           NEW next \in {"idle", "loadReq"}, Store(h, c, next)
    PROVE  TypeOK'
<1>1. Stat' \in [Counter -> Value]
  <2>1. Add(loaded[h], 1) \in Value
    BY Values DEF TypeOK, Value
  <2> QED  BY <2>1 DEF Store, TypeOK, Value
<1>2. loaded' \in [Handler -> Value]
  BY Values DEF Store, TypeOK, Value
<1>3. /\ pc' \in [Handler -> {"idle", "send", "loadReq", "storeReq", "loadBad", "storeBad"}]
      /\ event' \in [Handler -> Event \cup {NoEvent}]
  BY DEF Store, TypeOK
<1> QED  BY <1>1, <1>2, <1>3 DEF Store, TypeOK, Value, batchVars

\* Whose event the worker receives.
LEMMA Received ==
    ASSUME TypeOK, QueueOK, Receive
    PROVE  /\ Head(sendq) \in Handler /\ pc[Head(sendq)] = "send"
           /\ event[Head(sendq)] \in Event
<1>1. sendq # <<>> /\ sendq \in Seq(Handler)
  BY DEF Receive, Take, TypeOK
<1>2. Head(sendq) \in Handler /\ Head(sendq) = sendq[1] /\ 1 \in 1..Len(sendq)
  BY <1>1, QueueTail
<1> QED  BY <1>2 DEF QueueOK

LEMMA ReceiveTypes == TypeOK /\ QueueOK /\ Receive => TypeOK'
<1> SUFFICES ASSUME TypeOK, QueueOK, Receive
             PROVE  TypeOK'
  OBVIOUS
<1>1. Head(sendq) \in Handler /\ sendq' \in Seq(Handler) /\ event[Head(sendq)] \in Event
  <2>1. sendq # <<>> /\ sendq' = Tail(sendq) /\ sendq \in Seq(Handler)
    BY DEF Receive, Take, TypeOK
  <2>2. /\ Head(sendq) \in Handler /\ Tail(sendq) \in Seq(Handler)
        /\ Head(sendq) = sendq[1] /\ 1 \in 1..Len(sendq)
    BY <2>1, QueueTail
  <2> QED  BY <2>1, <2>2, Received
<1>2. /\ pc' \in [Handler -> {"idle", "send", "loadReq", "storeReq", "loadBad", "storeBad"}]
      /\ event' \in [Handler -> Event \cup {NoEvent}]
      /\ waited' \in 0..Interval /\ newEvent' \in Event \cup {NoEvent}
  BY <1>1, NumberAssumption DEF Receive, Take, TypeOK
<1> QED  BY <1>1, <1>2 DEF Receive, Take, TypeOK, statVars

LEMMA AccountTypes == TypeOK /\ Account => TypeOK'
<1> SUFFICES ASSUME TypeOK, Account
             PROVE  TypeOK'
  OBVIOUS
<1>3. Stat' \in [Counter -> Value]
  <2>1. PICK n \in Int : n = Stat.TotalEvent
    BY Statistics, Values DEF TypeOK, Value
  <2>2. Add(n, 1) \in Value
    BY Values
  <2>3. Stat' = [Stat EXCEPT !.TotalEvent = Add(n, 1)]
    BY <2>1 DEF Account, Counts
  <2> QED  BY <2>2, <2>3 DEF TypeOK, Value
<1>4. newEvent \in Event
  BY DEF Account, Counts, TypeOK
<1>5. marked' \subseteq Event /\ Events' \in Seq(Event)
  <2>1. CASE AddEvent(newEvent)
    BY <1>4, <2>1 DEF AddEvent, TypeOK
  <2> QED  BY <2>1 DEF Account, TypeOK
<1>6. perSubject' \in [Subject -> Value]
  <2>1. CASE perSubject' = perSubject
    BY <2>1 DEF TypeOK, Value
  <2>2. CASE AddEvent(newEvent)
    <3>1. PICK s \in Subject : s = SubjectOf[newEvent]
      BY <1>4, SubjectAssumption
    <3>2. Add(perSubject[s], 1) \in Value
      BY Values DEF TypeOK, Value
    <3>3. perSubject' = [perSubject EXCEPT ![s] = Add(perSubject[s], 1)]
      BY <2>2, <3>1 DEF AddEvent
    <3> QED  BY <3>2, <3>3 DEF TypeOK, Value
  <2> QED  BY <2>1, <2>2 DEF Account
<1> QED  BY <1>3, <1>5, <1>6 DEF Account, Counts, TypeOK, Value, requestVars

LEMMA PublishTypes == TypeOK /\ Publish => TypeOK'
<1> SUFFICES ASSUME TypeOK, Publish
             PROVE  TypeOK'
  OBVIOUS
<1>1. Stat' \in [Counter -> Value]
  <2>1. PICK n \in Int, m \in Int : n = Stat.TotalPublishEvent /\ m = Stat.TotalBatch
    BY Statistics, Values DEF TypeOK, Value
  <2>2. PICK k \in Int : k = Len(Events)
    BY DEF TypeOK
  <2>3. Add(n, k) \in Value /\ Add(m, 1) \in Value
    BY Values
  <2>4. Stat' = [Stat EXCEPT !.TotalPublishEvent = Add(n, k), !.TotalBatch = Add(m, 1)]
    BY <2>1, <2>2 DEF Publish
  <2> QED  BY <2>3, <2>4 DEF TypeOK, Value
<1> QED  BY <1>1, NumberAssumption DEF Publish, TypeOK, Value, requestVars

LEMMA ExitTypes == TypeOK /\ Exit => TypeOK'
<1> SUFFICES ASSUME TypeOK, Exit
             PROVE  TypeOK'
  OBVIOUS
<1>1. 0 \in Value
  BY Values
<1>2. /\ Stat' \in [Counter -> Value] /\ perSubject' \in [Subject -> Value]
      /\ loaded' \in [Handler -> Value]
  BY <1>1 DEF Exit
<1>3. sendq' \in Seq(Handler) /\ Events' \in Seq(Event) /\ message' \in Seq(Event)
  BY DEF Exit, TypeOK
<1>4. /\ pc' \in [Handler -> {"idle", "send", "loadReq", "storeReq", "loadBad", "storeBad"}]
      /\ event' \in [Handler -> Event \cup {NoEvent}]
      /\ marked' = {} /\ waited' = 0 /\ up' \in BOOLEAN /\ natsCon' \in BOOLEAN
      /\ raced' \in BOOLEAN /\ newEvent' \in Event \cup {NoEvent}
  BY DEF Exit, TypeOK
<1> QED  BY <1>2, <1>3, <1>4, NumberAssumption DEF TypeOK, Value

LEMMA TypeStep == TypeOK /\ QueueOK /\ [Next]_vars => TypeOK'
<1> SUFFICES ASSUME TypeOK, QueueOK, [Next]_vars
             PROVE  TypeOK'
  OBVIOUS
<1>1. ASSUME NEW h \in Handler, NEW e \in Event \cup {NoEvent}, Post(h, e)
      PROVE  TypeOK'
  <2>1. /\ event' \in [Handler -> Event \cup {NoEvent}]
        /\ pc' \in [Handler -> {"idle", "send", "loadReq", "storeReq", "loadBad",
                                "storeBad"}]
    <3>1. PICK l \in {"loadBad", "send"} : pc' = [pc EXCEPT ![h] = l]
      BY <1>1 DEF Post
    <3>2. event' = [event EXCEPT ![h] = e]
      BY <1>1 DEF Post
    <3> QED  BY <3>1, <3>2 DEF TypeOK
  <2>2. sendq' \in Seq(Handler)
    <3>1. sendq' = sendq \/ sendq' = Append(sendq, h)
      BY <1>1 DEF Post
    <3>2. sendq \in Seq(Handler)
      BY DEF TypeOK
    <3> QED  BY <3>1, <3>2
  <2> QED  BY <1>1, <2>1, <2>2 DEF Post, TypeOK, batchVars, statVars
<1>2. ASSUME NEW h \in Handler, CountBad(h) \/ CountRequest(h)
      PROVE  TypeOK'
  BY <1>2, LoadTypes, StoreTypes DEF CountBad, CountRequest
<1>3. CASE NothingToPublish \/ Tick
  BY <1>3, NumberAssumption DEF NothingToPublish, Tick, TypeOK, requestVars, statVars
<1>4. CASE Start
  BY <1>4 DEF Start, TypeOK, requestVars, batchVars, statVars
<1>5. CASE UNCHANGED vars
  BY <1>5 DEF vars, TypeOK
<1> QED
  BY <1>1, <1>2, <1>3, <1>4, <1>5, ReceiveTypes, AccountTypes, PublishTypes, ExitTypes
  DEF Next, Serve, BatchWorker

-----------------------------------------------------------------------------
(* The queue of the channel.                                               *)

LEMMA QueueStep == TypeOK /\ QueueOK /\ [Next]_vars => QueueOK'
<1> SUFFICES ASSUME TypeOK, QueueOK, [Next]_vars
             PROVE  QueueOK'
  OBVIOUS
<1>0. \A i \in 1..Len(sendq) : sendq[i] \in Handler
  BY DEF TypeOK
<1>1. ASSUME NEW h \in Handler, NEW e \in Event \cup {NoEvent}, Post(h, e)
      PROVE  QueueOK'
  <2>1. CASE e = NoEvent
    BY <1>0, <1>1, <2>1 DEF Post, QueueOK, TypeOK
  <2>2. CASE e # NoEvent
    <3>1. /\ pc[h] = "idle" /\ pc' = [pc EXCEPT ![h] = "send"]
          /\ event' = [event EXCEPT ![h] = e] /\ sendq' = Append(sendq, h) /\ e \in Event
      BY <1>1, <2>2 DEF Post
    <3>2. /\ Len(sendq) \in Nat /\ Len(sendq') = Len(sendq) + 1
          /\ \A i \in 1..Len(sendq) : sendq'[i] = sendq[i] /\ sendq[i] # h
          /\ sendq'[Len(sendq) + 1] = h
      <4>1. sendq \in Seq(Handler)
        BY DEF TypeOK
      <4>2. \A i \in 1..Len(sendq) : sendq[i] # h
        BY <3>1 DEF QueueOK
      <4> QED  BY <3>1, <4>1, <4>2
    <3>3. \A i \in 1..Len(sendq') : pc'[sendq'[i]] = "send"
      <4>1. pc'[h] = "send" /\ \A g \in Handler \ {h} : pc'[g] = pc[g]
        BY <3>1 DEF TypeOK
      <4>2. \A i \in 1..Len(sendq) : pc[sendq[i]] = "send"
        BY DEF QueueOK
      <4>3. \A i \in 1..Len(sendq) : pc'[sendq'[i]] = "send"
        BY ONLY <1>0, <3>2, <4>1, <4>2
      <4>4. \A i \in 1..Len(sendq') : i \in 1..Len(sendq) \/ i = Len(sendq) + 1
        BY ONLY <3>2
      <4> QED  BY ONLY <3>2, <4>1, <4>3, <4>4
    <3>4. \A i, j \in 1..Len(sendq') : sendq'[i] = sendq'[j] => i = j
      BY <3>2 DEF QueueOK
    <3>5. \A g \in Handler : pc'[g] = "send" => event'[g] \in Event
      BY <3>1 DEF TypeOK, QueueOK
    <3> QED  BY <3>3, <3>4, <3>5 DEF QueueOK
  <2> QED  BY <2>1, <2>2
<1>2. ASSUME NEW h \in Handler, CountBad(h) \/ CountRequest(h)
      PROVE  QueueOK'
  <2>1. /\ pc[h] # "send" /\ pc'[h] # "send" /\ sendq' = sendq
        /\ \A g \in Handler \ {h} : pc'[g] = pc[g] /\ event'[g] = event[g]
    BY <1>2 DEF CountBad, CountRequest, Load, Store, Storing, TypeOK
  <2> QED  BY <1>0, <2>1 DEF QueueOK
<1>3. CASE Receive
  <2>1. /\ pc' = [pc EXCEPT ![Head(sendq)] = "loadReq"]
        /\ event' = [event EXCEPT ![Head(sendq)] = NoEvent]
        /\ sendq # <<>> /\ sendq' = Tail(sendq)
    BY <1>3 DEF Receive, Take
  <2>2. /\ Head(sendq) = sendq[1] /\ Len(sendq') = Len(sendq) - 1
        /\ Len(sendq) \in Nat \ {0}
        /\ \A i \in 1..Len(sendq') : sendq'[i] = sendq[i + 1]
    BY <2>1, QueueTail DEF TypeOK
  <2>3. \A i \in 1..Len(sendq') : /\ i + 1 \in 1..Len(sendq) /\ 1 \in 1..Len(sendq)
                                  /\ sendq[i + 1] # sendq[1]
    BY <2>2 DEF QueueOK
  <2>4. \A i \in 1..Len(sendq') : pc'[sendq'[i]] = "send"
    BY <1>0, <2>1, <2>2, <2>3 DEF TypeOK, QueueOK
  <2>5. \A i, j \in 1..Len(sendq') : sendq'[i] = sendq'[j] => i = j
    <3> SUFFICES ASSUME NEW i \in 1..Len(sendq'), NEW j \in 1..Len(sendq'),
                        sendq'[i] = sendq'[j]
                 PROVE  i = j
      OBVIOUS
    <3>1. i + 1 = j + 1
      BY <2>2, <2>3 DEF QueueOK
    <3> QED  BY <2>2, <3>1
  <2>6. \A g \in Handler : pc'[g] = "send" => event'[g] \in Event
    BY <2>1 DEF TypeOK, QueueOK
  <2> QED  BY <2>4, <2>5, <2>6 DEF QueueOK
<1>4. CASE Account \/ Publish \/ NothingToPublish \/ Tick \/ Start
  BY <1>4 DEF Account, Counts, Publish, NothingToPublish, Tick, Start, requestVars, QueueOK
<1>5. CASE Exit
  BY <1>5 DEF Exit, QueueOK
<1>6. CASE UNCHANGED vars
  BY <1>6 DEF vars, QueueOK
<1> QED
  BY <1>1, <1>2, <1>3, <1>4, <1>5, <1>6 DEF Next, Serve, BatchWorker

-----------------------------------------------------------------------------
(* The batch.                                                              *)

\* A sequence that goes on with a new member lists the set that has it too.
LEMMA ListsMore ==
    ASSUME NEW m \in Seq(Event), NEW s, Abstract!Lists(m, s), NEW e \in Event, e \notin s
    PROVE  Abstract!Lists(Append(m, e), s \cup {e})
<1>1. PICK a : a = Append(m, e)
  OBVIOUS
<1>2. /\ Len(m) \in Nat /\ DOMAIN m = 1..Len(m) /\ DOMAIN a = 1..(Len(m) + 1)
      /\ a[Len(m) + 1] = e /\ \A i \in 1..Len(m) : a[i] = m[i]
  BY <1>1
<1>3. {m[i] : i \in DOMAIN m} = s /\ \A i, j \in DOMAIN m : m[i] = m[j] => i = j
  BY DEF Abstract!Lists
<1>4. \A i \in DOMAIN a : i \in DOMAIN m \/ i = Len(m) + 1
  BY <1>2
<1>5. \A i \in DOMAIN m : i \in DOMAIN a /\ a[i] = m[i] /\ m[i] # e /\ i # Len(m) + 1
  BY <1>2, <1>3
<1>6. {a[i] : i \in DOMAIN a} = s \cup {e}
  <2>1. Len(m) + 1 \in DOMAIN a
    BY <1>2
  <2>2. {a[i] : i \in DOMAIN a} \subseteq s \cup {e}
    BY <1>2, <1>3, <1>4, <1>5
  <2>3. s \cup {e} \subseteq {a[i] : i \in DOMAIN a}
    BY <1>2, <1>3, <1>5, <2>1
  <2> QED  BY <2>2, <2>3
<1>7. \A i, j \in DOMAIN a : a[i] = a[j] => i = j
  BY <1>2, <1>3, <1>4, <1>5
<1> QED  BY <1>1, <1>6, <1>7 DEF Abstract!Lists

LEMMA ListsNone == Abstract!Lists(<<>>, {})
<1>1. PICK m : m = <<>>
  OBVIOUS
<1>2. DOMAIN m = {}
  BY <1>1
<1>3. {m[i] : i \in DOMAIN m} = {} /\ \A i, j \in DOMAIN m : m[i] = m[j] => i = j
  BY <1>2
<1> QED  BY <1>1, <1>3 DEF Abstract!Lists

\* What Account does to batch and statistics.
LEMMA Accounted ==
    ASSUME TypeOK, Account
    PROVE  \E e \in Event :
             IF e \in marked THEN UNCHANGED <<marked, Events, perSubject>> ELSE AddEvent(e)
<1>1. newEvent \in Event
  BY DEF Account, Counts, TypeOK
<1> QED  BY <1>1 DEF Account

LEMMA BatchStep == TypeOK /\ QueueOK /\ BatchOK /\ [Next]_vars => BatchOK'
<1> SUFFICES ASSUME TypeOK, QueueOK, BatchOK, [Next]_vars
             PROVE  BatchOK'
  OBVIOUS
<1>1. ASSUME UNCHANGED <<up, marked, Events>>,
             ~up => sendq' = sendq /\ newEvent' = newEvent
      PROVE  BatchOK'
  BY <1>1 DEF BatchOK, Abstract!Lists
<1>2. CASE Account
  <2>1. PICK e \in Event :
           IF e \in marked THEN UNCHANGED <<marked, Events, perSubject>> ELSE AddEvent(e)
    BY <1>2, Accounted
  <2>2. up' = up /\ up
    BY <1>2 DEF Account, Counts
  <2>3. CASE e \in marked
    BY <1>1, <2>1, <2>2, <2>3
  <2>4. CASE e \notin marked
    <3>1. marked' = marked \cup {e} /\ Events' = Append(Events, e)
      BY <2>1, <2>4 DEF AddEvent
    <3>2. Abstract!Lists(Events, marked) /\ Events \in Seq(Event)
      BY DEF BatchOK, TypeOK
    <3>3. Abstract!Lists(Events', marked')
      BY <2>4, <3>1, <3>2, ListsMore
    <3> QED  BY <2>2, <3>3 DEF BatchOK
  <2> QED  BY <2>3, <2>4
<1>3. CASE Publish \/ Exit
  <2>1. /\ marked' = {} /\ Events' = <<>>
        /\ ~up' => sendq' = <<>> /\ newEvent' = NoEvent
    BY <1>3 DEF Publish, Selecting, Exit
  <2>2. Abstract!Lists(Events', marked')
    BY <2>1, ListsNone
  <2> QED  BY <2>1, <2>2 DEF BatchOK
<1>4. CASE Receive \/ NothingToPublish \/ Tick
  BY <1>1, <1>4 DEF Receive, Take, Selecting, NothingToPublish, Tick, requestVars
<1>5. CASE Start
  BY <1>5 DEF Start, BatchOK, Abstract!Lists, batchVars
<1>6. ASSUME NEW h \in Handler, Serve(h)
      PROVE  BatchOK'
  BY <1>1, <1>6 DEF Serve, Post, CountBad, CountRequest, Load, Store, batchVars
<1>7. CASE UNCHANGED vars
  BY <1>1, <1>7 DEF vars
<1> QED
  BY <1>2, <1>3, <1>4, <1>5, <1>6, <1>7 DEF Next, BatchWorker

-----------------------------------------------------------------------------
(* The statistics of the events.                                           *)

LEMMA SubjectStep == TypeOK /\ QueueOK /\ SubjectOK /\ [Next]_vars => SubjectOK'
<1> SUFFICES ASSUME TypeOK, QueueOK, SubjectOK, [Next]_vars
             PROVE  SubjectOK'
  OBVIOUS
<1>1. ASSUME UNCHANGED <<Stat.TotalPublishEvent, Events, perSubject>>
      PROVE  SubjectOK'
  BY <1>1, CountedIsSum DEF SubjectOK
<1>2. CASE Account
  <2>1. PICK e \in Event :
           IF e \in marked THEN UNCHANGED <<marked, Events, perSubject>> ELSE AddEvent(e)
    BY <1>2, Accounted
  <2>2. Stat'.TotalPublishEvent = Stat.TotalPublishEvent
    BY <1>2 DEF Account, Counts, TypeOK, Counter
  <2>3. CASE e \in marked
    BY <1>1, <2>1, <2>2, <2>3
  <2>4. CASE e \notin marked
    <3>1. Events' = Append(Events, e)
             /\ perSubject' = [perSubject EXCEPT ![SubjectOf[e]] = Add(@, 1)]
      BY <2>1, <2>4 DEF AddEvent
    <3>2. PICK n \in Int, k \in Int, t \in Int :
             /\ n = Stat.TotalPublishEvent /\ k = Len(Events)
             /\ t = Sum(perSubject)[Subject]
      <4>1. Stat.TotalPublishEvent \in Int
        BY Statistics, Values DEF TypeOK, Value
      <4>2. Len(Events) \in Int
        BY DEF TypeOK
      <4>3. perSubject \in [Subject -> Int]
        BY Values DEF TypeOK, Value
      <4> QED  BY <4>1, <4>2, <4>3, SumNumbers
    <3>3. Len(Events') = k + 1
      BY <3>1, <3>2 DEF TypeOK
    <3>4. Sum(perSubject')[Subject] % Width = Add(t, 1)
      <4>1. perSubject \in [Subject -> 0..(Width - 1)] /\ SubjectOf[e] \in Subject
        BY SubjectAssumption DEF TypeOK
      <4> QED  BY <3>1, <3>2, <4>1, SumOfCounters
    <3>5. Add(n, k) = t % Width
      BY <3>2, CountedIsSum DEF SubjectOK
    <3>6. Add(Add(n, k), 1) = Add(n, k + 1) /\ Add(t % Width, 1) = Add(t, 1)
      BY AddAgain, WrapOnce DEF Add
    <3>7. Counted' = Add(n, k + 1)
      BY <3>4, <3>5, <3>6, CountedIsSum
    <3> QED  BY <2>2, <3>2, <3>3, <3>7 DEF SubjectOK
  <2> QED  BY <2>3, <2>4
<1>3. CASE Publish
  <2>1. PICK n \in Int, k \in Int : n = Stat.TotalPublishEvent /\ k = Len(Events)
    <3>1. Stat.TotalPublishEvent \in Int
      BY Statistics, Values DEF TypeOK, Value
    <3>2. Len(Events) \in Int
      BY DEF TypeOK
    <3> QED  BY <3>1, <3>2
  <2>2. Stat'.TotalPublishEvent = Add(n, k) /\ Len(Events') = 0 /\ perSubject' = perSubject
    BY <1>3, <2>1 DEF Publish, TypeOK, Counter
  <2>3. Add(Add(n, k), 0) = Add(n, k + 0)
    BY AddAgain
  <2>4. Add(n, k) = Counted
    BY <2>1 DEF SubjectOK
  <2>5. Counted' = Counted
    BY <2>2, CountedIsSum
  <2> QED  BY <2>2, <2>3, <2>4, <2>5 DEF SubjectOK
<1>4. CASE Exit
  <2>1. /\ Stat'.TotalPublishEvent = 0 /\ Len(Events') = 0
        /\ perSubject' = [s \in Subject |-> 0]
    BY <1>4 DEF Exit, Counter
  <2>2. Counted' = Sum(perSubject')[Subject] % Width
    BY CountedIsSum
  <2>3. Sum(perSubject')[Subject] = 0
    BY <2>1, SumOfNone
  <2>4. 0 + 0 = 0
    OBVIOUS
  <2> QED  BY <2>1, <2>2, <2>3, <2>4 DEF SubjectOK, Add
<1>5. CASE Receive \/ NothingToPublish \/ Tick \/ Start
  BY <1>1, <1>5 DEF Receive, Take, NothingToPublish, Tick, Start, batchVars, statVars
<1>6. ASSUME NEW h \in Handler, Serve(h)
      PROVE  SubjectOK'
  <2>1. Stat'.TotalPublishEvent = Stat.TotalPublishEvent
    BY <1>6 DEF Serve, Post, CountBad, CountRequest, Load, Store, statVars, TypeOK, Counter
  <2> QED
    BY <1>1, <1>6, <2>1 DEF Serve, Post, CountBad, CountRequest, Load, Store, batchVars,
                            statVars
<1>7. CASE UNCHANGED vars
  BY <1>1, <1>7 DEF vars
<1> QED
  BY <1>2, <1>3, <1>4, <1>5, <1>6, <1>7 DEF Next, BatchWorker

-----------------------------------------------------------------------------
(* The statistics of the requests.                                         *)

LEMMA Stores == Storing["TotalReq"] = "storeReq" /\ Storing["TotalBadReq"] = "storeBad"
BY DEF Storing

\* A handler takes one of the two counters.
LEMMA LoadFrame ==
    ASSUME TypeOK, NEW h \in Handler, CountBad(h) \/ CountRequest(h)
    PROVE  \/ Load(h, "TotalBadReq", "loadBad") \/ Store(h, "TotalBadReq", "loadReq")
           \/ Load(h, "TotalReq", "loadReq") \/ Store(h, "TotalReq", "idle")
BY DEF CountBad, CountRequest

\* Who does not come to a counter or change it leaves it alone.
LEMMA AloneStays ==
    ASSUME NEW c \in {"TotalReq", "TotalBadReq"}, Alone(c), Stat'[c] = Stat[c],
           \A g \in Handler : pc'[g] = Storing[c] =>
               pc[g] = Storing[c] /\ loaded'[g] = loaded[g]
    PROVE  Alone(c)'
BY DEF Alone

LEMMA AloneLoad ==
    ASSUME TypeOK, NEW h \in Handler, NEW c \in {"TotalReq", "TotalBadReq"},
           NEW here \in {"loadReq", "loadBad"}, Load(h, c, here), ~raced'
    PROVE  Alone(c)'
<1>1. \A g \in Handler : pc[g] # Storing[c]
  BY DEF Load
<1>2. /\ pc' = [pc EXCEPT ![h] = Storing[c]] /\ loaded' = [loaded EXCEPT ![h] = Stat[c]]
      /\ Stat' = Stat
  BY DEF Load, statVars
<1> QED  BY <1>1, <1>2 DEF Alone, TypeOK

LEMMA AloneStore ==
    ASSUME TypeOK, NEW h \in Handler, NEW c \in {"TotalReq", "TotalBadReq"},
           NEW next \in {"idle", "loadReq"}, Store(h, c, next), Alone(c)
    PROVE  Alone(c)' /\ Stat'[c] = Add(Stat[c], 1)
<1>1. pc[h] = Storing[c] /\ pc' = [pc EXCEPT ![h] = next] /\ next # Storing[c]
  BY Stores DEF Store
<1>2. \A g \in Handler : pc'[g] # Storing[c]
  BY <1>1 DEF Alone, TypeOK
<1>3. Stat' = [Stat EXCEPT ![c] = Add(loaded[h], 1)] /\ loaded[h] = Stat[c]
  BY <1>1 DEF Alone, Store
<1> QED  BY <1>2, <1>3 DEF Alone, TypeOK, Counter

LEMMA LoadStep == TypeOK /\ QueueOK /\ LoadOK /\ [Next]_vars => LoadOK'
<1> SUFFICES ASSUME TypeOK, QueueOK, LoadOK, [Next]_vars, ~raced'
             PROVE  Alone("TotalReq")' /\ Alone("TotalBadReq")'
  BY DEF LoadOK
<1> USE Stores
<1>1. ASSUME ~raced, Stat'["TotalReq"] = Stat["TotalReq"],
             Stat'["TotalBadReq"] = Stat["TotalBadReq"], loaded' = loaded,
             \A g \in Handler : pc'[g] \in {"storeReq", "storeBad"} => pc'[g] = pc[g]
      PROVE  Alone("TotalReq")' /\ Alone("TotalBadReq")'
  BY <1>1, AloneStays DEF LoadOK
<1>2. ASSUME NEW h \in Handler, NEW e \in Event \cup {NoEvent}, Post(h, e)
      PROVE  Alone("TotalReq")' /\ Alone("TotalBadReq")'
  <2>1. \A g \in Handler : pc'[g] \in {"storeReq", "storeBad"} => pc'[g] = pc[g]
    BY <1>2 DEF Post, TypeOK
  <2> QED  BY <1>1, <1>2, <2>1 DEF Post, statVars
<1>3. ASSUME NEW h \in Handler, CountBad(h) \/ CountRequest(h)
      PROVE  Alone("TotalReq")' /\ Alone("TotalBadReq")'
  <2>1. ~raced
    BY <1>3 DEF CountBad, CountRequest, Load, Store
  <2>2. Alone("TotalReq") /\ Alone("TotalBadReq")
    BY <2>1 DEF LoadOK
  <2>3. CASE Load(h, "TotalReq", "loadReq") \/ Store(h, "TotalReq", "idle")
    <3>1. Alone("TotalReq")'
      BY <2>2, <2>3, AloneLoad, AloneStore
    <3>2. Stat'["TotalBadReq"] = Stat["TotalBadReq"]
      BY <2>3 DEF Load, Store, statVars, TypeOK, Counter
    <3>3. \A g \in Handler : pc'[g] = "storeBad" =>
             pc[g] = "storeBad" /\ loaded'[g] = loaded[g]
      BY <2>3 DEF Load, Store, TypeOK
    <3> QED  BY <2>2, <3>1, <3>2, <3>3, AloneStays
  <2>4. CASE Load(h, "TotalBadReq", "loadBad") \/ Store(h, "TotalBadReq", "loadReq")
    <3>1. Alone("TotalBadReq")'
      BY <2>2, <2>4, AloneLoad, AloneStore
    <3>2. Stat'["TotalReq"] = Stat["TotalReq"]
      BY <2>4 DEF Load, Store, statVars, TypeOK, Counter
    <3>3. \A g \in Handler : pc'[g] = "storeReq" =>
             pc[g] = "storeReq" /\ loaded'[g] = loaded[g]
      BY <2>4 DEF Load, Store, TypeOK
    <3> QED  BY <2>2, <3>1, <3>2, <3>3, AloneStays
  <2> QED  BY <1>3, <2>3, <2>4, LoadFrame
<1>4. CASE Receive
  <2>1. Head(sendq) \in Handler
    BY <1>4, Received
  <2>2. \A g \in Handler : pc'[g] \in {"storeReq", "storeBad"} => pc'[g] = pc[g]
    BY <1>4, <2>1 DEF Receive, Take, TypeOK
  <2>3. ~raced /\ loaded' = loaded /\ Stat' = Stat
    BY <1>4 DEF Receive, Take, statVars
  <2> QED  BY <1>1, <2>2, <2>3
<1>9. CASE Account
  <2>1. Stat'["TotalReq"] = Stat["TotalReq"] /\ Stat'["TotalBadReq"] = Stat["TotalBadReq"]
    BY <1>9 DEF Account, Counts, TypeOK, Counter
  <2>2. ~raced /\ loaded' = loaded /\ pc' = pc
    BY <1>9 DEF Account, Counts, requestVars
  <2> QED  BY <1>1, <2>1, <2>2
<1>5. CASE Publish
  <2>1. Stat'["TotalReq"] = Stat["TotalReq"] /\ Stat'["TotalBadReq"] = Stat["TotalBadReq"]
    BY <1>5 DEF Publish, TypeOK, Counter
  <2>2. ~raced /\ loaded' = loaded /\ pc' = pc
    BY <1>5 DEF Publish, requestVars
  <2> QED  BY <1>1, <2>1, <2>2
<1>6. CASE NothingToPublish \/ Tick \/ Start
  BY <1>1, <1>6 DEF NothingToPublish, Tick, Start, requestVars, statVars
<1>7. CASE Exit
  BY <1>7 DEF Exit, Alone
<1>8. CASE UNCHANGED vars
  BY <1>1, <1>8 DEF vars
<1> QED
  BY <1>2, <1>3, <1>4, <1>5, <1>6, <1>7, <1>8, <1>9 DEF Next, Serve, BatchWorker

LEMMA InHandFinite == IsFiniteSet(InHand) /\ Cardinality(InHand) \in Int
<1>1. InHand \subseteq Handler
  BY DEF InHand
<1>2. IsFiniteSet(InHand)
  BY <1>1, FiniteAssumption, FS_Subset
<1>3. Cardinality(InHand) \in Nat
  BY <1>2, FS_CardinalityType
<1> QED  BY <1>2, <1>3

LEMMA InHandMore ==
    ASSUME NEW h \in Handler \ InHand, InHand' = InHand \cup {h}
    PROVE  Cardinality(InHand') = Cardinality(InHand) + 1
BY InHandFinite, FS_AddElement

LEMMA InHandLess ==
    ASSUME NEW h \in InHand, InHand' = InHand \ {h}
    PROVE  Cardinality(InHand') = Cardinality(InHand) - 1
BY InHandFinite, FS_RemoveElement

\* The four ways the equation of CountOK goes on.
LEMMA GoOn ==
    ASSUME NEW req \in Int, NEW bad \in Int, NEW ev \in Int, NEW n \in Int, NEW u \in Int,
           Add(req, n) = Add(Add(bad, ev), u)
    PROVE  /\ Add(req, n + 1) = Add(Add(Add(bad, 1), ev), u)
           /\ Add(req, n + 1) = Add(Add(bad, ev), u + 1)
           /\ Add(req, n) = Add(Add(bad, Add(ev, 1)), u - 1)
           /\ Add(Add(req, 1), n - 1) = Add(Add(bad, ev), u)
<1>1. PICK s \in Int : s = ev + u
  OBVIOUS
<1>2. Add(req, n) = Add(bad, s)
  <2>1. Add(Add(bad, ev), u) = Add(bad, ev + u)
    BY AddAgain
  <2> QED  BY <1>1, <2>1
<1>3. Add(req, n + 1) = Add(bad, s + 1)
  <2>1. Add(Add(req, n), 1) = Add(req, n + 1)
    BY AddAgain
  <2>2. Add(Add(bad, s), 1) = Add(bad, s + 1)
    BY AddAgain
  <2> QED  BY <1>2, <2>1, <2>2
<1>4. Add(Add(Add(bad, 1), ev), u) = Add(bad, s + 1)
  <2>1. PICK m \in Int : m = 1 + ev
    OBVIOUS
  <2>2. Add(Add(bad, 1), ev) = Add(bad, 1 + ev)
    BY AddAgain
  <2>3. Add(Add(bad, m), u) = Add(bad, m + u)
    BY AddAgain
  <2>4. m + u = s + 1
    BY <1>1, <2>1
  <2> QED  BY <2>1, <2>2, <2>3, <2>4
<1>5. Add(Add(bad, ev), u + 1) = Add(bad, s + 1)
  <2>1. PICK m \in Int : m = u + 1
    OBVIOUS
  <2>2. Add(Add(bad, ev), m) = Add(bad, ev + m) /\ ev + m = s + 1
    BY <1>1, <2>1, AddAgain
  <2> QED  BY <2>1, <2>2
<1>6. Add(Add(bad, Add(ev, 1)), u - 1) = Add(bad, s)
  <2>1. PICK a \in Int, m \in Int, l \in Int : a = Add(ev, 1) /\ m = u - 1 /\ l = ev + 1
    BY AddIn, NumberAssumption
  <2>2. Add(Add(ev, 1), bad) = Add(ev, 1 + bad)
    BY AddAgain
  <2>3. bad + a = a + bad /\ ev + (1 + bad) = bad + l
    BY <2>1
  <2>4. Add(bad, a) = Add(bad, l)
    BY <2>1, <2>2, <2>3 DEF Add
  <2>5. Add(Add(bad, l), m) = Add(bad, l + m) /\ l + m = s
    BY <1>1, <2>1, AddAgain
  <2> QED  BY <2>1, <2>4, <2>5
<1>7. Add(Add(req, 1), n - 1) = Add(req, n)
  <2>1. PICK m \in Int : m = n - 1
    OBVIOUS
  <2>2. Add(Add(req, 1), m) = Add(req, 1 + m) /\ 1 + m = n
    BY <2>1, AddAgain
  <2> QED  BY <2>1, <2>2
<1> QED  BY <1>2, <1>3, <1>4, <1>5, <1>6, <1>7

LEMMA CountStep == TypeOK /\ QueueOK /\ LoadOK /\ CountOK /\ [Next]_vars => CountOK'
<1> SUFFICES ASSUME TypeOK, QueueOK, LoadOK, CountOK, [Next]_vars, ~raced'
             PROVE  Add(Stat'.TotalReq, Cardinality(InHand')) = Add(Add(Stat'.TotalBadReq, Stat'.TotalEvent), Uncounted')
  BY DEF CountOK
<1> DEFINE Goal == Add(Stat'.TotalReq, Cardinality(InHand')) = Add(Add(Stat'.TotalBadReq, Stat'.TotalEvent), Uncounted')
<1>1. PICK req \in Int, bad \in Int, ev \in Int, n \in Int, u \in Int :
         /\ req = Stat.TotalReq /\ bad = Stat.TotalBadReq /\ ev = Stat.TotalEvent
         /\ n = Cardinality(InHand) /\ u = Uncounted
  <2>1. Stat.TotalReq \in Int /\ Stat.TotalBadReq \in Int /\ Stat.TotalEvent \in Int
    BY Statistics, Values DEF TypeOK, Value
  <2> QED  BY <2>1, InHandFinite DEF Uncounted
<1>2. ~raced => Add(req, n) = Add(Add(bad, ev), u)
  BY <1>1 DEF CountOK
<1>3. ASSUME ~raced, InHand' = InHand, Stat'.TotalReq = Stat.TotalReq,
             Stat'.TotalBadReq = Stat.TotalBadReq, Stat'.TotalEvent = Stat.TotalEvent,
             newEvent' = newEvent
      PROVE  Goal
  BY <1>1, <1>2, <1>3 DEF Uncounted
<1>4. ASSUME NEW h \in Handler, NEW e \in Event \cup {NoEvent}, Post(h, e)
      PROVE  Goal
  <2>1. InHand' = InHand
    BY <1>4 DEF Post, InHand, TypeOK
  <2> QED  BY <1>3, <1>4, <2>1 DEF Post, statVars
<1>5. ASSUME NEW h \in Handler,
             Load(h, "TotalBadReq", "loadBad") \/ Load(h, "TotalReq", "loadReq")
      PROVE  Goal
  <2>1. InHand' = InHand
    BY <1>5, Stores DEF Load, InHand, TypeOK
  <2> QED  BY <1>3, <1>5, <2>1 DEF Load, statVars
<1>6. ASSUME NEW h \in Handler, Store(h, "TotalBadReq", "loadReq")
      PROVE  Goal
  <2>1. ~raced /\ pc[h] = "storeBad" /\ pc' = [pc EXCEPT ![h] = "loadReq"]
    BY <1>6, Stores DEF Store
  <2>2. Stat'.TotalBadReq = Add(bad, 1)
    BY <1>1, <1>6, <2>1, AloneStore DEF LoadOK
  <2>3. Stat'.TotalReq = req /\ Stat'.TotalEvent = ev /\ Uncounted' = u
    BY <1>1, <1>6 DEF Store, TypeOK, Counter, Uncounted
  <2>4. h \notin InHand /\ InHand' = InHand \cup {h}
    BY <2>1 DEF InHand, TypeOK
  <2>5. Cardinality(InHand') = n + 1
    BY <1>1, <2>4, InHandMore
  <2> QED  BY <1>2, <2>1, <2>2, <2>3, <2>5, GoOn
<1>7. ASSUME NEW h \in Handler, Store(h, "TotalReq", "idle")
      PROVE  Goal
  <2>1. ~raced /\ pc[h] = "storeReq" /\ pc' = [pc EXCEPT ![h] = "idle"]
    BY <1>7, Stores DEF Store
  <2>2. Stat'.TotalReq = Add(req, 1)
    BY <1>1, <1>7, <2>1, AloneStore DEF LoadOK
  <2>3. Stat'.TotalBadReq = bad /\ Stat'.TotalEvent = ev /\ Uncounted' = u
    BY <1>1, <1>7 DEF Store, TypeOK, Counter, Uncounted
  <2>4. h \in InHand /\ InHand' = InHand \ {h}
    BY <2>1 DEF InHand, TypeOK
  <2>5. Cardinality(InHand') = n - 1
    BY <1>1, <2>4, InHandLess
  <2> QED  BY <1>2, <2>1, <2>2, <2>3, <2>5, GoOn
<1>8. CASE Receive
  <2>1. PICK h \in Handler : h = Head(sendq) /\ pc[h] = "send" /\ event[h] \in Event
    BY <1>8, Received
  <2>2. ~raced /\ pc' = [pc EXCEPT ![h] = "loadReq"]
    BY <1>8, <2>1 DEF Receive, Take
  <2>3. /\ Stat'.TotalReq = req /\ Stat'.TotalBadReq = bad /\ Stat'.TotalEvent = ev
        /\ Uncounted' = u + 1
    BY <1>1, <1>8, <2>1, NoEventAssumption DEF Receive, Take, Selecting, Uncounted, statVars
  <2>4. h \notin InHand /\ InHand' = InHand \cup {h}
    BY <2>1, <2>2 DEF InHand, TypeOK
  <2>5. Cardinality(InHand') = n + 1
    BY <1>1, <2>4, InHandMore
  <2> QED  BY <1>2, <2>2, <2>3, <2>5, GoOn
<1>12. CASE Account
  <2>1. InHand' = InHand /\ ~raced
    BY <1>12 DEF Account, Counts, requestVars, InHand
  <2>2. /\ Stat'.TotalReq = req /\ Stat'.TotalBadReq = bad /\ Stat'.TotalEvent = Add(ev, 1)
        /\ Uncounted' = u - 1
    BY <1>1, <1>12 DEF Account, Counts, TypeOK, Counter, Uncounted
  <2> QED  BY <1>1, <1>2, <2>1, <2>2, GoOn
<1>9. CASE Publish
  <2>1. InHand' = InHand /\ ~raced /\ newEvent' = newEvent
    BY <1>9 DEF Publish, requestVars, InHand
  <2>2. /\ Stat'.TotalReq = Stat.TotalReq /\ Stat'.TotalBadReq = Stat.TotalBadReq
        /\ Stat'.TotalEvent = Stat.TotalEvent
    BY <1>9 DEF Publish, TypeOK, Counter
  <2> QED  BY <1>3, <2>1, <2>2
<1>10. CASE Exit
  <2>1. InHand' = {}
    BY <1>10 DEF Exit, InHand
  <2>2. /\ Stat'.TotalReq = 0 /\ Stat'.TotalBadReq = 0 /\ Stat'.TotalEvent = 0
        /\ Uncounted' = 0
    BY <1>10 DEF Exit, Counter, Uncounted
  <2>3. Cardinality(InHand') = 0
    BY <2>1, FS_EmptySet
  <2>4. Add(0, 0) \in 0..(Width - 1) /\ Add(Add(0, 0), 0) = Add(0, 0)
    BY AddIn, AddZero
  <2> QED  BY <2>2, <2>3, <2>4
<1>11. CASE NothingToPublish \/ Tick \/ Start \/ UNCHANGED vars
  <2>1. InHand' = InHand /\ Stat' = Stat /\ ~raced /\ newEvent' = newEvent
    BY <1>11 DEF NothingToPublish, Tick, Start, vars, requestVars, statVars, InHand
  <2> QED  BY <1>3, <2>1
<1> QED
  BY <1>4, <1>5, <1>6, <1>7, <1>8, <1>9, <1>10, <1>11, <1>12, LoadFrame
  DEF Next, Serve, BatchWorker

-----------------------------------------------------------------------------
(* The invariant, and what is promised.                                    *)

LEMMA IndInit == Init => IndInv
<1> SUFFICES ASSUME Init
             PROVE  IndInv
  OBVIOUS
<1>1. TypeOK
  BY TypeInit
<1>2. QueueOK
  <2>1. \A h \in Handler : pc[h] # "send"
    BY DEF Init, Blank
  <2>2. Len(sendq) = 0
    BY DEF Init, Blank
  <2> QED  BY <2>1, <2>2 DEF QueueOK
<1>3. BatchOK
  <2>1. Events = <<>> /\ marked = {} /\ sendq = <<>> /\ newEvent = NoEvent
    BY DEF Init, Blank
  <2> QED  BY <2>1, ListsNone DEF BatchOK
<1>4. SubjectOK
  <2>1. /\ Stat.TotalPublishEvent = 0 /\ Len(Events) = 0
        /\ perSubject = [s \in Subject |-> 0]
    BY DEF Init, Blank, Counter
  <2>2. Counted = 0 % Width
    BY <2>1, CountedIsSum, SumOfNone
  <2>3. 0 + 0 = 0
    OBVIOUS
  <2> QED  BY <2>1, <2>2, <2>3 DEF SubjectOK, Add
<1>5. LoadOK
  <2>1. \A h \in Handler : pc[h] = "idle"
    BY DEF Init, Blank
  <2> QED  BY <2>1, Stores DEF LoadOK, Alone
<1>6. CountOK
  <2>1. InHand = {}
    BY DEF Init, Blank, InHand
  <2>2. /\ Stat.TotalReq = 0 /\ Stat.TotalBadReq = 0 /\ Stat.TotalEvent = 0
        /\ Uncounted = 0
    BY DEF Init, Blank, Counter, Uncounted
  <2>3. Add(0, 0) \in 0..(Width - 1) /\ Add(Add(0, 0), 0) = Add(0, 0)
    BY AddIn, AddZero
  <2> QED  BY <2>1, <2>2, <2>3, FS_EmptySet DEF CountOK
<1> QED  BY <1>1, <1>2, <1>3, <1>4, <1>5, <1>6 DEF IndInv

LEMMA IndStep == IndInv /\ [Next]_vars => IndInv'
BY TypeStep, QueueStep, BatchStep, SubjectStep, LoadStep, CountStep DEF IndInv

LEMMA Inductive == Spec => []IndInv
BY IndInit, IndStep, PTL DEF Spec

\* Whatever arrives between two publications, and however often the counters
\* wrap, what was counted under the subjects was published or is in the batch;
\* the variables have their types.
THEOREM Subjects == Spec => []SubjectsAccounted
<1>1. IndInv => SubjectsAccounted
  BY DEF IndInv, SubjectOK, SubjectsAccounted
<1> QED  BY <1>1, Inductive, PTL

\* When nobody is served, every request was counted as a bad one or as an
\* event, but for the one event the worker has received and not counted, unless
\* two handlers were between load and store of one counter.
THEOREM Requests == Spec => []RequestsAccounted
<1>1. IndInv => RequestsAccounted
  <2> SUFFICES ASSUME IndInv, ~raced, \A h \in Handler : pc[h] = "idle"
               PROVE  Stat.TotalReq = Add(Add(Stat.TotalBadReq, Stat.TotalEvent), Uncounted)
    BY DEF RequestsAccounted
  <2>1. InHand = {}
    BY DEF InHand
  <2>2. Cardinality(InHand) = 0
    BY <2>1, FS_EmptySet
  <2>3. Stat.TotalReq \in 0..(Width - 1)
    BY Statistics DEF IndInv, TypeOK, Value
  <2>4. Add(Stat.TotalReq, 0) = Stat.TotalReq
    BY <2>3, AddZero
  <2> QED  BY <2>2, <2>4 DEF IndInv, CountOK
<1> QED  BY <1>1, Inductive, PTL

\* A step of the server is a step of Digest, or none.
LEMMA DigestStep == IndInv /\ [Next]_vars => [Abstract!Next]_(Abstract!vars)
<1> SUFFICES ASSUME IndInv, [Next]_vars
             PROVE  Abstract!Next \/ UNCHANGED <<natsCon, marked, message>>
  BY DEF Abstract!vars
<1>1. ASSUME NEW h \in Handler, Serve(h)
      PROVE  UNCHANGED <<natsCon, marked, message>>
  BY <1>1 DEF Serve, Post, CountBad, CountRequest, Load, Store, batchVars
<1>2. CASE Account
  <2>1. PICK e \in Event :
           IF e \in marked THEN UNCHANGED <<marked, Events, perSubject>> ELSE AddEvent(e)
    BY <1>2, Accounted DEF IndInv
  <2>2. marked' = marked \/ marked' = marked \cup {e}
    BY <2>1 DEF AddEvent
  <2>3. natsCon' = natsCon /\ message' = message
    BY <1>2 DEF Account, Counts
  <2> QED  BY <2>2, <2>3 DEF Abstract!Next, Abstract!Accept
<1>3. CASE Publish
  <2>1. /\ Events # <<>> /\ marked' = {} /\ natsCon' = natsCon
        /\ message' = IF natsCon THEN Events ELSE message
    BY <1>3 DEF Publish
  <2>2. Abstract!Lists(Events, marked)
    BY DEF IndInv, BatchOK
  <2>3. marked # {}
    <3>1. 1 \in DOMAIN Events
      BY <2>1 DEF IndInv, TypeOK
    <3> QED  BY <2>2, <3>1 DEF Abstract!Lists
  <2>4. Abstract!Send
    <3>1. CASE natsCon
      BY <2>1, <2>2, <2>3, <3>1 DEF Abstract!Send
    <3>2. CASE ~natsCon
      BY <2>1, <2>3, <3>2 DEF Abstract!Send
    <3> QED  BY <3>1, <3>2
  <2> QED  BY <2>4 DEF Abstract!Next
<1>4. CASE Exit
  <2>1. marked' = {} /\ natsCon' = natsCon /\ message' = message
    BY <1>4 DEF Exit
  <2>2. natsCon \in BOOLEAN
    BY DEF IndInv, TypeOK
  <2> QED  BY <2>1, <2>2 DEF Abstract!Next, Abstract!Restart
<1>5. CASE Start
  <2>1. marked' = {} /\ natsCon' \in BOOLEAN /\ message' = message
    BY <1>5 DEF Start, IndInv, BatchOK, batchVars
  <2> QED  BY <2>1 DEF Abstract!Next, Abstract!Restart
<1>6. CASE Receive \/ NothingToPublish \/ Tick \/ UNCHANGED vars
  BY <1>6 DEF Receive, Take, NothingToPublish, Tick, vars
<1> QED
  BY <1>1, <1>2, <1>3, <1>4, <1>5, <1>6 DEF Next, BatchWorker

\* Markers, batch and messages implement Digest: a message lists, each once,
\* the events that were accepted since the one before; a server without NATS
\* drops them, and one that ends takes them with it.
THEOREM Digests == Spec => DigestSpec
<1>1. Init => Abstract!Init
  BY DEF Init, Blank, Abstract!Init
<1>2. IndInv /\ [Next]_vars => [Abstract!Next]_(Abstract!vars)
  BY DigestStep
<1> QED  BY <1>1, <1>2, Inductive, PTL DEF Spec, DigestSpec, Abstract!Spec
=============================================================================
