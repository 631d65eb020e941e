--------------------------- MODULE Programs_proofs ---------------------------
(***************************************************************************)
(* What the small programs promise, for all values of their constants: the *)
(* joke service, the network store, the runner and the stamps of the comet *)
(* tests, and the hooks of nvdisk and its judgement of disks.  Each has an *)
(* inductive invariant of its own, and no step of another program changes  *)
(* anything of it.                                                         *)
(***************************************************************************)
EXTENDS MCPrograms, FiniteSetTheorems, SequenceTheorems, TLAPS

-----------------------------------------------------------------------------
(* A set of natural numbers has a least member.                            *)

LEMMA NatLeast ==
    ASSUME NEW F \in SUBSET Nat, F # {}
    PROVE  \E x \in F : \A y \in F : x <= y
<1>1. PICK n \in F : TRUE
  OBVIOUS
<1> DEFINE T == 0 .. n
           G == {0 .. k : k \in {j \in F : j <= n}}
<1>2. IsWellFoundedOn(StrictSubsetOrdering(T), FiniteSubsetsOf(T))
  BY FS_StrictSubsetOrderingWellFounded
<1>3. IsFiniteSet(T)
  BY <1>1, FS_Interval
<1>4. G \subseteq FiniteSubsetsOf(T) /\ G # {}
  <2>1. G \subseteq SUBSET T /\ (0 .. n) \in G
    BY <1>1
  <2> QED  BY <1>3, <2>1, FS_FiniteSubsetsOfFinite
<1>5. PICK s \in G : \A t \in G : ~ (<<t, s>> \in StrictSubsetOrdering(T))
  BY <1>2, <1>4, WFMin
<1>6. PICK x \in F : x <= n /\ s = 0 .. x
  BY <1>5
<1>7. ASSUME NEW y \in F, y < x
      PROVE  FALSE
  <2> DEFINE t == 0 .. y
  <2>1. t \in G /\ t \subseteq T /\ s \subseteq T
    BY <1>1, <1>6, <1>7
  <2>2. t \subseteq s /\ t # s
    BY <1>6, <1>7
  <2> QED  BY <1>5, <2>1, <2>2 DEF StrictSubsetOrdering
<1> QED  BY <1>6, <1>7

-----------------------------------------------------------------------------
(* JokeService.                                                            *)

LEMMA JokeCardinality == \A S : Joke!Cardinality(S) = Cardinality(S)
BY DEF Joke!Cardinality, Cardinality

\* Requests that have been counted, and errors that have been.
Counted == {r \in Request : jokePc[r] \notin {"new", "loadTotal", "storeTotal"}}
Failed  == {r \in Request : jokePc[r] = "error"}

\* A counter is what there is to count, or less if increments overlapped; who
\* is about to store has loaded it, and is alone unless they did.
Tally(counter, place, S) ==
    /\ Stat[counter] <= Cardinality(S)
    /\ \A r \in Request : jokePc[r] = place => loaded[r] <= Cardinality(S)
    /\ ~raced =>
         /\ Stat[counter] = Cardinality(S)
         /\ \A r \in Request : jokePc[r] = place =>
              /\ loaded[r] = Stat[counter]
              /\ \A q \in Request : jokePc[q] = place => q = r

\* The results the handler has are those of goroutines that are done, and one
\* goroutine is done if there was an error.
Fetchers ==
    \A r \in Request :
        /\ jokePc[r] \in {"new", "loadTotal", "storeTotal"} =>
              parsed[r] = {} /\ \A u \in Joke!Url : fetcher[r][u] = "off"
        /\ jokePc[r] = "select" =>
              \A u \in Joke!Url : u \in parsed[r] <=> fetcher[r][u] = "done"
        /\ jokePc[r] = "ok" => \A u \in Joke!Url : fetcher[r][u] = "done"
        /\ jokePc[r] \in {"loadErr", "storeErr", "error"} =>
              \E u \in Joke!Url : fetcher[r][u] = "done"

\* The types, with the numbers that are bounded by Tally left open.
JokePlaces == {"new", "loadTotal", "storeTotal", "select", "loadErr", "storeErr",
               "ok", "error"}
Fetches == {"off", "get", "wait", "done", "good", "bad", "failed"}
JokeTypes ==
    /\ jokePc \in [Request -> JokePlaces]
    /\ fetcher \in [Request -> [{"name", "joke"} -> Fetches]]
    /\ count \in [Request -> 0 .. (Limit + 1)]
    /\ parsed \in [Request -> SUBSET {"name", "joke"}]
    /\ loaded \in [Request -> 0 .. Cardinality(Request)]
    /\ Stat \in [{"TotalReq", "ErrReq"} -> 0 .. Cardinality(Request)]
    /\ raced \in BOOLEAN

JokeInv ==
    /\ JokeTypes /\ Fetchers
    /\ Tally("TotalReq", "storeTotal", Counted)
    /\ Tally("ErrReq", "storeErr", Failed)

\* Sets of requests can be counted, and one more counts one more.
LEMMA Requests ==
    /\ IsFiniteSet(Request) /\ Cardinality(Request) \in Nat
    /\ \A S \in SUBSET Request :
          IsFiniteSet(S) /\ Cardinality(S) \in 0 .. Cardinality(Request)
    /\ \A S \in SUBSET Request : \A r \in Request \ S :
          Cardinality(S \cup {r}) = Cardinality(S) + 1
<1>1. IsFiniteSet(Request) /\ Cardinality(Request) \in Nat
  BY RequestAssumption, FS_CardinalityType
<1>2. ASSUME NEW S \in SUBSET Request
      PROVE  IsFiniteSet(S) /\ Cardinality(S) \in 0 .. Cardinality(Request)
  <2>1. IsFiniteSet(S) /\ Cardinality(S) <= Cardinality(Request)
    BY <1>1, FS_Subset
  <2>2. Cardinality(S) \in Nat
    BY <2>1, FS_CardinalityType
  <2> QED  BY <1>1, <2>1, <2>2
<1>3. ASSUME NEW S \in SUBSET Request, NEW r \in Request \ S
      PROVE  Cardinality(S \cup {r}) = Cardinality(S) + 1
  BY <1>2, FS_AddElement
<1> QED  BY <1>1, <1>2, <1>3

LEMMA JokeInit == Joke!Init => JokeInv
<1> SUFFICES ASSUME Joke!Init
             PROVE  JokeInv
  OBVIOUS
<1>1. Counted = {} /\ Failed = {} /\ Cardinality({}) = 0
  BY FS_EmptySet DEF Joke!Init, Counted, Failed
<1>2. JokeTypes
  <2>1. Stat \in [{"TotalReq", "ErrReq"} -> 0 .. Cardinality(Request)]
    <3>1. Stat = [c \in {"TotalReq", "ErrReq"} |-> 0]
      BY DEF Joke!Init
    <3> QED  BY <3>1, Requests
  <2>2. fetcher \in [Request -> [{"name", "joke"} -> Fetches]]
    BY DEF Joke!Init, Joke!Url, Fetches
  <2>3. /\ count \in [Request -> 0 .. (Limit + 1)]
        /\ loaded \in [Request -> 0 .. Cardinality(Request)]
    BY Requests, RequestAssumption DEF Joke!Init
  <2>4. /\ jokePc \in [Request -> JokePlaces]
        /\ parsed \in [Request -> SUBSET {"name", "joke"}] /\ raced \in BOOLEAN
    BY DEF Joke!Init, JokePlaces
  <2> QED  BY <2>1, <2>2, <2>3, <2>4 DEF JokeTypes
<1>3. Stat["TotalReq"] = 0 /\ Stat["ErrReq"] = 0 /\ \A r \in Request : jokePc[r] = "new"
  BY DEF Joke!Init
<1>4. Fetchers
  BY <1>3 DEF Joke!Init, Fetchers
<1>5. Tally("TotalReq", "storeTotal", Counted) /\ Tally("ErrReq", "storeErr", Failed)
  BY <1>1, <1>3 DEF Tally
<1> QED  BY <1>2, <1>4, <1>5 DEF JokeInv

\* The two halves of an increment, and what leaves it alone.
LEMMA TallyLoad ==
    ASSUME JokeTypes, NEW r \in Request, NEW counter \in {"TotalReq", "ErrReq"},
           NEW here, NEW next, NEW S \in SUBSET Request, Tally(counter, next, S),
           Joke!Load(r, counter, here, next)
    PROVE  Tally(counter, next, S)'
<1>1. /\ jokePc' = [jokePc EXCEPT ![r] = next] /\ Stat' = Stat
      /\ loaded' = [loaded EXCEPT ![r] = Stat[counter]]
      /\ raced' = (raced \/ \E q \in Request : jokePc[q] = next)
  BY DEF Joke!Load, Joke!Goto
<1>2. DOMAIN jokePc = Request /\ DOMAIN loaded = Request
  BY DEF JokeTypes
<1>3. \A q \in Request : /\ jokePc'[q] = (IF q = r THEN next ELSE jokePc[q])
                         /\ loaded'[q] = (IF q = r THEN Stat[counter] ELSE loaded[q])
  BY ONLY <1>1, <1>2
<1>4. \A q \in Request : jokePc'[q] = next => loaded'[q] <= Cardinality(S)
  BY <1>3 DEF Tally
<1>5. ASSUME ~raced', NEW q \in Request, jokePc'[q] = next
      PROVE  loaded'[q] = Stat'[counter] /\ \A p \in Request : jokePc'[p] = next => p = q
  <2>1. ~raced /\ \A p \in Request : jokePc[p] # next
    BY <1>1, <1>5
  <2>2. \A p \in Request : jokePc'[p] = next => p = r
    BY <1>3, <2>1
  <2> QED  BY <1>1, <1>3, <1>5, <2>2
<1>6. Stat'[counter] <= Cardinality(S) /\ (~raced' => Stat'[counter] = Cardinality(S))
  BY <1>1 DEF Tally
<1> QED  BY <1>4, <1>5, <1>6 DEF Tally

\* Who stores a counter counts itself; overlapping increments only lose some.
LEMMA TallyStore ==
    ASSUME JokeTypes, NEW r \in Request, NEW counter \in {"TotalReq", "ErrReq"},
           NEW here, NEW S \in SUBSET Request, r \notin S, Tally(counter, here, S),
           NEW there \in JokePlaces, there # here, Joke!Store(r, counter, here),
           Joke!Goto(r, there), NEW T, T = S \cup {r}
    PROVE  Tally(counter, here, T)' /\ Stat'[counter] <= Cardinality(T)
<1>1. /\ jokePc' = [jokePc EXCEPT ![r] = there] /\ jokePc[r] = here
      /\ Stat' = [Stat EXCEPT ![counter] = loaded[r] + 1]
      /\ loaded' = [loaded EXCEPT ![r] = 0] /\ raced' = raced
  BY DEF Joke!Store, Joke!Goto
<1>2. /\ DOMAIN jokePc = Request /\ DOMAIN loaded = Request /\ counter \in DOMAIN Stat
      /\ loaded[r] \in Nat /\ \A q \in Request : loaded[q] \in Nat
  BY Requests DEF JokeTypes
<1>3. \A q \in Request : /\ jokePc'[q] = (IF q = r THEN there ELSE jokePc[q])
                         /\ loaded'[q] = (IF q = r THEN 0 ELSE loaded[q])
  BY ONLY <1>1, <1>2
<1>4. PICK n \in Nat : n = Cardinality(S) /\ Cardinality(T) = n + 1
  BY Requests
<1>5. Stat'[counter] = loaded[r] + 1 /\ loaded[r] <= n
  BY <1>1, <1>2, <1>4 DEF Tally
<1>6. \A q \in Request : jokePc'[q] = here => loaded'[q] <= Cardinality(T)
  <2> SUFFICES ASSUME NEW q \in Request, jokePc'[q] = here
               PROVE  loaded'[q] <= n + 1
    BY <1>4
  <2>1. q # r /\ jokePc[q] = here /\ loaded'[q] = loaded[q]
    BY <1>3
  <2>2. loaded[q] <= n /\ loaded[q] \in Nat
    BY <1>2, <1>4, <2>1 DEF Tally
  <2> QED  BY <2>1, <2>2
<1>7. ASSUME ~raced', NEW q \in Request, jokePc'[q] = here
      PROVE  FALSE
  <2>1. q # r /\ jokePc[q] = here
    BY <1>3, <1>7
  <2> QED  BY <1>1, <1>7, <2>1 DEF Tally
<1>8. ~raced' => Stat'[counter] = Cardinality(T)
  <2>1. ~raced => loaded[r] = n
    BY <1>1, <1>4 DEF Tally
  <2> QED  BY <1>1, <1>4, <1>5, <2>1
<1>9. Stat'[counter] <= Cardinality(T)
  BY <1>2, <1>4, <1>5
<1> QED  BY <1>6, <1>7, <1>8, <1>9 DEF Tally

\* A counter that nobody stores, and nobody new has loaded, keeps its tally.
LEMMA TallyKeep ==
    ASSUME NEW counter, NEW place, NEW S, Tally(counter, place, S),
           Stat'[counter] = Stat[counter], raced => raced',
           \A q \in Request : jokePc'[q] = place =>
                                jokePc[q] = place /\ loaded'[q] = loaded[q]
    PROVE  Tally(counter, place, S)'
BY DEF Tally

Early == {"new", "loadTotal", "storeTotal"}

\* What going from one place to another changes of the two counts.
LEMMA Moved ==
    ASSUME JokeTypes, NEW r \in Request, NEW l \in JokePlaces, Joke!Goto(r, l)
    PROVE  /\ jokePc' \in [Request -> JokePlaces]
           /\ \A q \in Request : jokePc'[q] = IF q = r THEN l ELSE jokePc[q]
           /\ (l \in Early <=> jokePc[r] \in Early) => Counted' = Counted
           /\ jokePc[r] \in Early /\ l \notin Early =>
                 r \notin Counted /\ Counted' = Counted \cup {r}
           /\ l # "error" /\ jokePc[r] # "error" => Failed' = Failed
           /\ l = "error" /\ jokePc[r] # "error" =>
                 r \notin Failed /\ Failed' = Failed \cup {r}
<1>1. jokePc' = [jokePc EXCEPT ![r] = l] /\ jokePc \in [Request -> JokePlaces]
  BY DEF Joke!Goto, JokeTypes
<1>2. jokePc' \in [Request -> JokePlaces]
  BY ONLY <1>1, r \in Request, l \in JokePlaces
<1>3. \A q \in Request : jokePc'[q] = IF q = r THEN l ELSE jokePc[q]
  BY ONLY <1>1, r \in Request
<1> QED  BY <1>2, <1>3 DEF Counted, Failed, Early

\* A step that is not at a counter.
LEMMA TallyStays ==
    ASSUME JokeInv, Stat' = Stat, loaded' = loaded, raced' = raced,
           Counted' = Counted, Failed' = Failed,
           \A q \in Request : /\ jokePc'[q] = "storeTotal" => jokePc[q] = "storeTotal"
                              /\ jokePc'[q] = "storeErr" => jokePc[q] = "storeErr"
    PROVE  /\ Tally("TotalReq", "storeTotal", Counted)'
           /\ Tally("ErrReq", "storeErr", Failed)'
BY DEF JokeInv, Tally

\* One step each of a request, its fetchers and its counters.
LEMMA ArriveStep ==
    ASSUME JokeInv, NEW r \in Request, Joke!Arrive(r)
    PROVE  JokeInv'
<1>1. JokeTypes /\ Fetchers
  BY DEF JokeInv
<1>2. /\ jokePc[r] = "new" /\ Joke!Goto(r, "loadTotal") /\ "loadTotal" \in JokePlaces
      /\ fetcher' = fetcher /\ count' = count /\ parsed' = parsed
      /\ loaded' = loaded /\ Stat' = Stat /\ raced' = raced
  BY DEF Joke!Arrive, JokePlaces
<1>3. /\ jokePc' \in [Request -> JokePlaces] /\ Counted' = Counted /\ Failed' = Failed
      /\ \A q \in Request : jokePc'[q] = IF q = r THEN "loadTotal" ELSE jokePc[q]
  BY <1>1, <1>2, Moved DEF Early
<1>4. JokeTypes'
  BY <1>1, <1>2, <1>3 DEF JokeTypes
<1>5. Fetchers'
  BY <1>1, <1>2, <1>3 DEF Fetchers
<1> QED  BY <1>2, <1>3, <1>4, <1>5, TallyStays DEF JokeInv

LEMMA ReceiveStep ==
    ASSUME JokeInv, NEW r \in Request, NEW u \in Joke!Url, Joke!Receive(r, u)
    PROVE  JokeInv'
<1>1. JokeTypes /\ Fetchers /\ Joke!Url = {"name", "joke"}
  BY DEF JokeInv, Joke!Url
<1>2. /\ jokePc[r] = "select" /\ fetcher[r][u] \in {"good", "bad", "failed"}
      /\ fetcher' = [fetcher EXCEPT ![r][u] = "done"]
      /\ count' = count /\ loaded' = loaded /\ Stat' = Stat /\ raced' = raced
  BY DEF Joke!Receive, Joke!Sending
<1>3. PICK l \in {"loadErr", "ok", "select"} :
         /\ Joke!Goto(r, l)
         /\ parsed' = IF fetcher[r][u] = "good"
                      THEN [parsed EXCEPT ![r] = @ \cup {u}] ELSE parsed
         /\ l = IF fetcher[r][u] # "good" THEN "loadErr"
                ELSE IF parsed'[r] = Joke!Url THEN "ok" ELSE "select"
  BY DEF Joke!Receive
<1>4. l \in JokePlaces /\ l # "error" /\ l \notin Early /\ jokePc[r] \notin Early
  BY <1>2 DEF JokePlaces, Early
<1>5. /\ jokePc' \in [Request -> JokePlaces] /\ Counted' = Counted /\ Failed' = Failed
      /\ \A q \in Request : jokePc'[q] = IF q = r THEN l ELSE jokePc[q]
  BY <1>1, <1>2, <1>3, <1>4, Moved
<1>6. /\ parsed \in [Request -> SUBSET {"name", "joke"}]
      /\ fetcher \in [Request -> [{"name", "joke"} -> Fetches]]
      /\ u \in {"name", "joke"} /\ "done" \in Fetches
  BY <1>1 DEF JokeTypes, Fetches
<1>7. /\ fetcher' \in [Request -> [{"name", "joke"} -> Fetches]]
      /\ \A q \in Request : q # r => fetcher'[q] = fetcher[q]
      /\ \A v \in {"name", "joke"} :
            fetcher'[r][v] = IF v = u THEN "done" ELSE fetcher[r][v]
  <2>1. PICK row : row = fetcher[r]
    OBVIOUS
  <2>2. row \in [{"name", "joke"} -> Fetches]
    BY <1>6, <2>1
  <2>3. fetcher' = [fetcher EXCEPT ![r] = [row EXCEPT ![u] = "done"]]
    BY <1>2, <2>1
  <2>4. PICK new : new = [row EXCEPT ![u] = "done"]
    OBVIOUS
  <2>5. /\ new \in [{"name", "joke"} -> Fetches]
        /\ \A v \in {"name", "joke"} : new[v] = IF v = u THEN "done" ELSE row[v]
    BY <1>6, <2>2, <2>4
  <2>6. fetcher' = [fetcher EXCEPT ![r] = new]
    BY <2>3, <2>4
  <2> QED  BY <1>6, <2>1, <2>5, <2>6
<1>8. /\ parsed' \in [Request -> SUBSET {"name", "joke"}]
      /\ \A q \in Request : q # r => parsed'[q] = parsed[q]
      /\ l # "loadErr" => parsed'[r] = parsed[r] \cup {u}
  <2>1. CASE fetcher[r][u] = "good"
    <3>1. parsed' = [parsed EXCEPT ![r] = parsed[r] \cup {u}]
      BY <1>3, <2>1
    <3>2. parsed[r] \cup {u} \in SUBSET {"name", "joke"}
      BY <1>6
    <3> QED  BY <1>6, <3>1, <3>2
  <2>2. CASE fetcher[r][u] # "good"
    BY <1>3, <1>6, <2>2
  <2> QED  BY <2>1, <2>2
<1>9. JokeTypes'
  BY <1>1, <1>2, <1>5, <1>7, <1>8 DEF JokeTypes
<1>10. Fetchers'
  <2> SUFFICES ASSUME NEW q \in Request
               PROVE  /\ jokePc'[q] \in {"new", "loadTotal", "storeTotal"} =>
                            parsed'[q] = {} /\ \A v \in Joke!Url : fetcher'[q][v] = "off"
                      /\ jokePc'[q] = "select" =>
                            \A v \in Joke!Url : v \in parsed'[q] <=> fetcher'[q][v] = "done"
                      /\ jokePc'[q] = "ok" => \A v \in Joke!Url : fetcher'[q][v] = "done"
                      /\ jokePc'[q] \in {"loadErr", "storeErr", "error"} =>
                            \E v \in Joke!Url : fetcher'[q][v] = "done"
    BY DEF Fetchers
  <2>1. CASE q # r
    BY <1>1, <1>5, <1>7, <1>8, <2>1 DEF Fetchers
  <2>2. CASE q = r
    <3>1. \A v \in Joke!Url : v \in parsed[r] <=> fetcher[r][v] = "done"
      BY <1>1, <1>2 DEF Fetchers
    <3>2. l # "loadErr" =>
             \A v \in Joke!Url : v \in parsed'[r] <=> fetcher'[r][v] = "done"
      BY <1>1, <1>7, <1>8, <3>1
    <3>3. l = "ok" => parsed'[r] = Joke!Url
      BY <1>3
    <3>4. jokePc'[q] = l /\ fetcher'[r][u] = "done"
      BY <1>1, <1>5, <1>7, <2>2
    <3> QED  BY <2>2, <3>2, <3>3, <3>4
  <2> QED  BY <2>1, <2>2
<1> QED  BY <1>2, <1>4, <1>5, <1>9, <1>10, TallyStays DEF JokeInv

\* A goroutine goes on; it is neither off nor done before and after.
LEMMA GoroutineStep ==
    ASSUME JokeInv, NEW r \in Request, NEW u \in Joke!Url,
           NEW next \in Fetches \ {"off", "done"}, fetcher[r][u] \in {"get", "wait"},
           fetcher' = [fetcher EXCEPT ![r][u] = next],
           count' \in [Request -> 0 .. (Limit + 1)],
           jokePc' = jokePc, parsed' = parsed, loaded' = loaded, Stat' = Stat,
           raced' = raced
    PROVE  JokeInv'
<1>1. JokeTypes /\ Fetchers /\ Joke!Url = {"name", "joke"}
  BY DEF JokeInv, Joke!Url
<1>2. fetcher \in [Request -> [{"name", "joke"} -> Fetches]] /\ u \in {"name", "joke"}
  BY <1>1 DEF JokeTypes
<1>3. /\ fetcher' \in [Request -> [{"name", "joke"} -> Fetches]]
      /\ \A q \in Request : q # r => fetcher'[q] = fetcher[q]
      /\ \A v \in {"name", "joke"} :
            fetcher'[r][v] = IF v = u THEN next ELSE fetcher[r][v]
  <2>1. PICK row : row = fetcher[r]
    OBVIOUS
  <2>2. row \in [{"name", "joke"} -> Fetches]
    BY <1>2, <2>1
  <2>3. fetcher' = [fetcher EXCEPT ![r] = [row EXCEPT ![u] = next]]
    BY <2>1
  <2>4. PICK new : new = [row EXCEPT ![u] = next]
    OBVIOUS
  <2>5. /\ new \in [{"name", "joke"} -> Fetches]
        /\ \A v \in {"name", "joke"} : new[v] = IF v = u THEN next ELSE row[v]
    BY <1>2, <2>2, <2>4
  <2>6. fetcher' = [fetcher EXCEPT ![r] = new]
    BY <2>3, <2>4
  <2> QED  BY <1>2, <2>1, <2>5, <2>6
<1>4. JokeTypes'
  BY <1>1, <1>3 DEF JokeTypes
<1>5. \A q \in Request : \A v \in Joke!Url :
         /\ fetcher'[q][v] = "off" <=> fetcher[q][v] = "off"
         /\ fetcher'[q][v] = "done" <=> fetcher[q][v] = "done"
  BY <1>1, <1>3
<1>6. Fetchers'
  BY <1>1, <1>5 DEF Fetchers
<1>7. Counted' = Counted /\ Failed' = Failed
  BY DEF Counted, Failed
<1> QED  BY <1>4, <1>6, <1>7, TallyStays DEF JokeInv

LEMMA FetchStep ==
    ASSUME JokeInv, NEW r \in Request, Joke!Fetch(r) \/ Joke!Retry(r)
    PROVE  JokeInv'
<1>1. count \in [Request -> 0 .. (Limit + 1)] /\ Limit \in Nat
  BY RequestAssumption DEF JokeInv, JokeTypes
<1>2. "name" \in Joke!Url /\ "joke" \in Joke!Url
  BY DEF Joke!Url
<1>3. {"good", "bad", "failed", "wait", "get"} \subseteq Fetches \ {"off", "done"}
  BY DEF Fetches
<1>4. ASSUME NEW u \in Joke!Url, NEW next \in Fetches \ {"off", "done"},
             Joke!Fetched(r, u, next, FALSE)
      PROVE  JokeInv'
  BY <1>1, <1>4, GoroutineStep DEF Joke!Fetched
<1>5. CASE Joke!Fetched(r, "name", "wait", TRUE) /\ ~(count[r] > Limit)
  <2>1. count' = [count EXCEPT ![r] = count[r] + 1] /\ count[r] + 1 \in 0 .. (Limit + 1)
    BY <1>1, <1>5 DEF Joke!Fetched
  <2>2. count' \in [Request -> 0 .. (Limit + 1)]
    BY <1>1, <2>1
  <2> QED  BY <1>2, <1>3, <1>5, <2>2, GoroutineStep DEF Joke!Fetched
<1>6. CASE Joke!Retry(r)
  BY <1>1, <1>2, <1>3, <1>6, GoroutineStep DEF Joke!Retry
<1>7. CASE Joke!NoName(r)
  BY <1>2, <1>3, <1>4, <1>5, <1>7 DEF Joke!NoName
<1>8. CASE Joke!Fetch(r)
  BY <1>2, <1>3, <1>4, <1>7, <1>8 DEF Joke!Fetch
<1> QED  BY <1>6, <1>8

\* An increment, of either counter.
LEMMA LoadStep ==
    ASSUME JokeInv, NEW r \in Request,
           \/ Joke!Load(r, "TotalReq", "loadTotal", "storeTotal")
           \/ Joke!Load(r, "ErrReq", "loadErr", "storeErr")
    PROVE  JokeInv'
<1>1. JokeTypes /\ Fetchers
  BY DEF JokeInv
<1>2. PICK S \in SUBSET Request, E \in SUBSET Request : S = Counted /\ E = Failed
  BY DEF Counted, Failed
<1>3. Tally("TotalReq", "storeTotal", S) /\ Tally("ErrReq", "storeErr", E)
  BY <1>2 DEF JokeInv
<1>4. /\ fetcher' = fetcher /\ count' = count /\ parsed' = parsed /\ Stat' = Stat
      /\ raced' \in BOOLEAN /\ (raced => raced')
  BY DEF Joke!Load
<1>5. ASSUME NEW counter \in {"TotalReq", "ErrReq"}, NEW here \in JokePlaces,
             NEW next \in JokePlaces, here # "error", next # "error",
             next \in Early <=> here \in Early,
             here \in {"loadTotal", "loadErr"}, next \in {"storeTotal", "storeErr"},
             Joke!Load(r, counter, here, next)
      PROVE  /\ JokeTypes' /\ Fetchers' /\ Counted' = S /\ Failed' = E
             /\ \A q \in Request :
                   /\ jokePc'[q] = IF q = r THEN next ELSE jokePc[q]
                   /\ q # r => loaded'[q] = loaded[q]
  <2>1. /\ jokePc[r] = here /\ Joke!Goto(r, next)
        /\ loaded' = [loaded EXCEPT ![r] = Stat[counter]]
    BY <1>5 DEF Joke!Load
  <2>2. /\ jokePc' \in [Request -> JokePlaces] /\ Counted' = Counted /\ Failed' = Failed
        /\ \A q \in Request : jokePc'[q] = IF q = r THEN next ELSE jokePc[q]
    BY <1>1, <1>5, <2>1, Moved
  <2>3. /\ loaded' \in [Request -> 0 .. Cardinality(Request)]
        /\ \A q \in Request : q # r => loaded'[q] = loaded[q]
    BY <1>1, <2>1 DEF JokeTypes
  <2>4. JokeTypes'
    BY <1>1, <1>4, <2>2, <2>3 DEF JokeTypes
  <2>5. Fetchers'
    BY <1>1, <1>4, <1>5, <2>1, <2>2 DEF Fetchers, Early
  <2> QED  BY <1>2, <2>2, <2>3, <2>4, <2>5
<1>6. {"loadTotal", "storeTotal", "loadErr", "storeErr"} \subseteq JokePlaces
  BY DEF JokePlaces
<1>7. CASE Joke!Load(r, "TotalReq", "loadTotal", "storeTotal")
  <2>1. /\ JokeTypes' /\ Fetchers' /\ Counted' = S /\ Failed' = E
        /\ \A q \in Request :
              /\ jokePc'[q] = IF q = r THEN "storeTotal" ELSE jokePc[q]
              /\ q # r => loaded'[q] = loaded[q]
    BY <1>5, <1>6, <1>7 DEF Early
  <2>2. Tally("TotalReq", "storeTotal", S)'
    BY <1>1, <1>3, <1>7, TallyLoad
  <2>3. Tally("ErrReq", "storeErr", E)'
    BY <1>3, <1>4, <2>1, TallyKeep
  <2> QED  BY <2>1, <2>2, <2>3 DEF JokeInv, Tally
<1>8. CASE Joke!Load(r, "ErrReq", "loadErr", "storeErr")
  <2>1. /\ JokeTypes' /\ Fetchers' /\ Counted' = S /\ Failed' = E
        /\ \A q \in Request :
              /\ jokePc'[q] = IF q = r THEN "storeErr" ELSE jokePc[q]
              /\ q # r => loaded'[q] = loaded[q]
    BY <1>5, <1>6, <1>8 DEF Early
  <2>2. Tally("ErrReq", "storeErr", E)'
    BY <1>1, <1>3, <1>8, TallyLoad
  <2>3. Tally("TotalReq", "storeTotal", S)'
    BY <1>3, <1>4, <2>1, TallyKeep
  <2> QED  BY <2>1, <2>2, <2>3 DEF JokeInv, Tally
<1> QED  BY <1>7, <1>8

LEMMA StoreTotalStep ==
    ASSUME JokeInv, NEW r \in Request, Joke!Store(r, "TotalReq", "storeTotal"),
           fetcher' = [fetcher EXCEPT ![r] = [u \in Joke!Url |-> "get"]],
           Joke!Goto(r, "select")
    PROVE  JokeInv'
<1>1. JokeTypes /\ Fetchers /\ Joke!Url = {"name", "joke"}
  BY DEF JokeInv, Joke!Url
<1>2. /\ jokePc[r] = "storeTotal" /\ loaded' = [loaded EXCEPT ![r] = 0]
      /\ Stat' = [Stat EXCEPT !["TotalReq"] = loaded[r] + 1]
      /\ count' = count /\ parsed' = parsed /\ raced' = raced
  BY DEF Joke!Store
<1>3. "select" \in JokePlaces /\ "storeTotal" # "select" /\ "select" # "error"
      /\ "select" \notin Early /\ "storeTotal" \in Early
  BY DEF JokePlaces, Early
<1>4. /\ jokePc' \in [Request -> JokePlaces] /\ Failed' = Failed
      /\ r \notin Counted /\ Counted' = Counted \cup {r}
      /\ \A q \in Request : jokePc'[q] = IF q = r THEN "select" ELSE jokePc[q]
  BY <1>1, <1>2, <1>3, Moved
<1>5. PICK S \in SUBSET Request, T \in SUBSET Request, E \in SUBSET Request :
         S = Counted /\ T = S \cup {r} /\ E = Failed
  BY DEF Counted, Failed
<1>6. Tally("TotalReq", "storeTotal", S) /\ Tally("ErrReq", "storeErr", E)
  BY <1>5 DEF JokeInv
<1>7. Tally("TotalReq", "storeTotal", T)' /\ Stat'["TotalReq"] <= Cardinality(T)
  BY <1>1, <1>3, <1>4, <1>5, <1>6, TallyStore
<1>8. /\ Stat["ErrReq"] \in 0 .. Cardinality(Request) /\ DOMAIN Stat = {"TotalReq", "ErrReq"}
      /\ loaded[r] \in 0 .. Cardinality(Request)
      /\ loaded \in [Request -> 0 .. Cardinality(Request)]
  BY <1>1 DEF JokeTypes
<1>9. /\ Stat'["ErrReq"] = Stat["ErrReq"] /\ Stat'["TotalReq"] = loaded[r] + 1
      /\ Stat' \in [{"TotalReq", "ErrReq"} -> 0 .. Cardinality(Request)]
  <2>1. PICK n \in Nat : n = Cardinality(T) /\ n <= Cardinality(Request)
    BY <1>5, Requests
  <2>2. Stat'["ErrReq"] = Stat["ErrReq"] /\ Stat'["TotalReq"] = loaded[r] + 1
    BY <1>2, <1>8
  <2>3. loaded[r] + 1 \in 0 .. Cardinality(Request)
    BY <1>7, <1>8, <2>1, <2>2, Requests
  <2> QED  BY <1>1, <1>2, <2>2, <2>3 DEF JokeTypes
<1>10. /\ loaded' \in [Request -> 0 .. Cardinality(Request)]
       /\ \A q \in Request : q # r => loaded'[q] = loaded[q]
  BY <1>2, <1>8, Requests
<1>11. Tally("ErrReq", "storeErr", E)'
  BY <1>2, <1>4, <1>6, <1>9, <1>10, TallyKeep
<1>12. /\ fetcher' \in [Request -> [{"name", "joke"} -> Fetches]]
       /\ \A q \in Request : q # r => fetcher'[q] = fetcher[q]
       /\ \A v \in {"name", "joke"} : fetcher'[r][v] = "get"
  <2>1. PICK new : new = [u \in {"name", "joke"} |-> "get"]
    OBVIOUS
  <2>2. /\ new \in [{"name", "joke"} -> Fetches]
        /\ \A v \in {"name", "joke"} : new[v] = "get"
    BY <2>1 DEF Fetches
  <2>3. fetcher' = [fetcher EXCEPT ![r] = new]
    BY <1>1, <2>1
  <2>4. fetcher \in [Request -> [{"name", "joke"} -> Fetches]]
    BY <1>1 DEF JokeTypes
  <2> QED  BY <2>2, <2>3, <2>4
<1>13. JokeTypes'
  BY <1>1, <1>2, <1>4, <1>9, <1>10, <1>12 DEF JokeTypes
<1>14. Fetchers'
  BY <1>1, <1>2, <1>4, <1>12 DEF Fetchers
<1> QED  BY <1>4, <1>5, <1>7, <1>11, <1>13, <1>14 DEF JokeInv, Tally

LEMMA StoreErrStep ==
    ASSUME JokeInv, NEW r \in Request, Joke!Store(r, "ErrReq", "storeErr"),
           fetcher' = fetcher, Joke!Goto(r, "error")
    PROVE  JokeInv'
<1>1. JokeTypes /\ Fetchers
  BY DEF JokeInv
<1>2. /\ jokePc[r] = "storeErr" /\ loaded' = [loaded EXCEPT ![r] = 0]
      /\ Stat' = [Stat EXCEPT !["ErrReq"] = loaded[r] + 1]
      /\ count' = count /\ parsed' = parsed /\ raced' = raced
  BY DEF Joke!Store
<1>3. "error" \in JokePlaces /\ "storeErr" # "error"
      /\ "error" \notin Early /\ "storeErr" \notin Early
  BY DEF JokePlaces, Early
<1>4. /\ jokePc' \in [Request -> JokePlaces] /\ Counted' = Counted
      /\ r \notin Failed /\ Failed' = Failed \cup {r}
      /\ \A q \in Request : jokePc'[q] = IF q = r THEN "error" ELSE jokePc[q]
  BY <1>1, <1>2, <1>3, Moved
<1>5. PICK S \in SUBSET Request, T \in SUBSET Request, E \in SUBSET Request :
         S = Failed /\ T = S \cup {r} /\ E = Counted
  BY DEF Counted, Failed
<1>6. Tally("ErrReq", "storeErr", S) /\ Tally("TotalReq", "storeTotal", E)
  BY <1>5 DEF JokeInv
<1>7. Tally("ErrReq", "storeErr", T)' /\ Stat'["ErrReq"] <= Cardinality(T)
  BY <1>1, <1>3, <1>4, <1>5, <1>6, TallyStore
<1>8. /\ Stat["TotalReq"] \in 0 .. Cardinality(Request) /\ DOMAIN Stat = {"TotalReq", "ErrReq"}
      /\ loaded[r] \in 0 .. Cardinality(Request)
      /\ loaded \in [Request -> 0 .. Cardinality(Request)]
  BY <1>1 DEF JokeTypes
<1>9. /\ Stat'["TotalReq"] = Stat["TotalReq"] /\ Stat'["ErrReq"] = loaded[r] + 1
      /\ Stat' \in [{"TotalReq", "ErrReq"} -> 0 .. Cardinality(Request)]
  <2>1. PICK n \in Nat : n = Cardinality(T) /\ n <= Cardinality(Request)
    BY <1>5, Requests
  <2>2. Stat'["TotalReq"] = Stat["TotalReq"] /\ Stat'["ErrReq"] = loaded[r] + 1
    BY <1>2, <1>8
  <2>3. loaded[r] + 1 \in 0 .. Cardinality(Request)
    BY <1>7, <1>8, <2>1, <2>2, Requests
  <2> QED  BY <1>1, <1>2, <2>2, <2>3 DEF JokeTypes
<1>10. /\ loaded' \in [Request -> 0 .. Cardinality(Request)]
       /\ \A q \in Request : q # r => loaded'[q] = loaded[q]
  BY <1>2, <1>8, Requests
<1>11. Tally("TotalReq", "storeTotal", E)'
  BY <1>2, <1>4, <1>6, <1>9, <1>10, TallyKeep
<1>12. JokeTypes'
  BY <1>1, <1>2, <1>4, <1>9, <1>10 DEF JokeTypes
<1>13. Fetchers'
  BY <1>1, <1>2, <1>4 DEF Fetchers
<1> QED  BY <1>4, <1>5, <1>7, <1>11, <1>12, <1>13 DEF JokeInv, Tally

LEMMA JokeStep == JokeInv /\ Joke!Next => JokeInv'
<1> SUFFICES ASSUME JokeInv, NEW r \in Request, Joke!Arrive(r) \/ Joke!Serve(r)
             PROVE  JokeInv'
  BY DEF Joke!Next
<1>1. ASSUME Joke!CountRequest(r)
      PROVE  JokeInv'
  BY <1>1, LoadStep, StoreTotalStep DEF Joke!CountRequest
<1>2. ASSUME Joke!CountError(r)
      PROVE  JokeInv'
  BY <1>2, LoadStep, StoreErrStep DEF Joke!CountError
<1> QED  BY <1>1, <1>2, ArriveStep, ReceiveStep, FetchStep DEF Joke!Serve

LEMMA JokeStays == JokeInv /\ UNCHANGED jokeVars => JokeInv'
BY DEF JokeInv, jokeVars, JokeTypes, Fetchers, Tally, Counted, Failed

\* What the inductive invariant of the joke service is for.
LEMMA JokeSafe == JokeInv => Joke!TypeOK /\ Joke!LeavesAtMostOne /\ Joke!StatAccounted
<1> SUFFICES ASSUME JokeInv
             PROVE  Joke!TypeOK /\ Joke!LeavesAtMostOne /\ Joke!StatAccounted
  OBVIOUS
<1>1. JokeTypes /\ Fetchers /\ Joke!Url = {"name", "joke"}
  BY DEF JokeInv, Joke!Url
<1>2. Joke!TypeOK
  <2>1. JokePlaces = {"new", "loadTotal", "storeTotal", "select", "loadErr",
                      "storeErr"} \cup Joke!Answered
    BY DEF JokePlaces, Joke!Answered
  <2>2. Fetches = {"off", "get", "wait", "done"} \cup Joke!Sending
    BY DEF Fetches, Joke!Sending
  <2> QED  BY <1>1, <2>1, <2>2, JokeCardinality DEF Joke!TypeOK, JokeTypes
<1>3. Joke!LeavesAtMostOne
  <2> SUFFICES ASSUME NEW r \in Request, NEW left,
                      left = {u \in Joke!Url : fetcher[r][u] # "done"}
               PROVE  /\ jokePc[r] = "ok" => left = {}
                      /\ jokePc[r] = "error" => Cardinality(left) <= 1
    BY JokeCardinality DEF Joke!LeavesAtMostOne
  <2>1. jokePc[r] = "ok" => left = {}
    BY <1>1 DEF Fetchers
  <2>2. ASSUME jokePc[r] = "error"
        PROVE  Cardinality(left) <= 1
    <3>1. PICK u \in Joke!Url : u \notin left
      BY <1>1, <2>2 DEF Fetchers
    <3>2. PICK v \in Joke!Url : left \subseteq {v}
      BY <1>1, <3>1
    <3>3. IsFiniteSet({v}) /\ Cardinality({v}) = 1
      BY FS_Singleton
    <3> QED  BY <3>2, <3>3, FS_Subset
  <2> QED  BY <2>1, <2>2
<1>4. Joke!StatAccounted
  <2> SUFFICES ASSUME ~raced, \A r \in Request : jokePc[r] \in {"new", "ok", "error"}
               PROVE  /\ Stat["TotalReq"] =
                             Cardinality({r \in Request : jokePc[r] \in {"ok", "error"}})
                      /\ Stat["ErrReq"] = Cardinality({r \in Request : jokePc[r] = "error"})
    BY JokeCardinality DEF Joke!StatAccounted, Joke!Answered
  <2>1. Counted = {r \in Request : jokePc[r] \in {"ok", "error"}}
    BY DEF Counted
  <2> QED  BY <2>1 DEF JokeInv, Tally, Failed
<1> QED  BY <1>2, <1>3, <1>4

-----------------------------------------------------------------------------
(* NetworkStore.                                                           *)

LEMMA NetCardinality == \A S : Net!Cardinality(S) = Cardinality(S)
BY DEF Net!Cardinality, Cardinality

Stores == UNION {[I -> Network] : I \in SUBSET Uuid}

\* A handler that writes, or decodes the body of a PUT, holds the lock alone;
\* one that reads holds it with readers.  What the one found is still there,
\* and what the other measured has still that size.
Locked ==
    /\ writer # {} => readers = {}
    /\ \A c \in Client :
          /\ storePc[c] \in {"write", "body"} => writer = {c}
          /\ storePc[c] \in {"read", "fill"} => c \in readers
          /\ storePc[c] = "body" => id[c] \in DOMAIN networks
          /\ storePc[c] = "fill" => size[c] = Cardinality(DOMAIN networks)

NetPlaces == {"idle", "rlock", "read", "fill", "decode", "lock", "write", "body"}
NetTypes ==
    /\ networks \in Stores
    /\ issued \subseteq Uuid /\ DOMAIN networks \subseteq issued
    /\ writer \subseteq Client /\ readers \subseteq Client
    /\ storePc \in [Client -> NetPlaces]
    /\ op \in [Client -> Net!Operation] /\ id \in [Client -> Uuid]
    /\ body \in [Client -> Network]
    /\ size \in [Client -> 0 .. Cardinality(Uuid)]

NetInv == NetTypes /\ Locked

\* A function on some of the identifiers, and the two ways to change it.
LEMMA StoreTypes ==
    /\ \A f \in Stores : DOMAIN f \subseteq Uuid /\ f \in [DOMAIN f -> Network]
    /\ \A I \in SUBSET Uuid : \A f \in [I -> Network] : f \in Stores
BY DEF Stores

\* A network that is added, one that is removed.
LEMMA WithType ==
    ASSUME networks \in Stores, NEW u \in Uuid, NEW n \in Network
    PROVE  /\ Net!With(u, n) \in Stores
           /\ DOMAIN Net!With(u, n) = DOMAIN networks \cup {u}
<1>1. PICK I \in SUBSET Uuid : I = DOMAIN networks /\ networks \in [I -> Network]
  BY StoreTypes
<1>2. Net!With(u, n) = [j \in I \cup {u} |-> IF j = u THEN n ELSE networks[j]]
  BY <1>1 DEF Net!With, Net!Stored
<1>3. Net!With(u, n) \in [I \cup {u} -> Network] /\ DOMAIN Net!With(u, n) = I \cup {u}
  BY <1>1, <1>2
<1>4. I \cup {u} \in SUBSET Uuid
  OBVIOUS
<1> QED  BY <1>1, <1>3, <1>4, StoreTypes

LEMMA WithoutType ==
    ASSUME networks \in Stores, NEW u
    PROVE  /\ Net!Without(u) \in Stores
           /\ DOMAIN Net!Without(u) = DOMAIN networks \ {u}
<1>1. PICK I \in SUBSET Uuid : I = DOMAIN networks /\ networks \in [I -> Network]
  BY StoreTypes
<1>2. Net!Without(u) = [j \in I \ {u} |-> networks[j]]
  BY <1>1 DEF Net!Without, Net!Stored
<1>3. Net!Without(u) \in [I \ {u} -> Network] /\ DOMAIN Net!Without(u) = I \ {u}
  BY <1>1, <1>2
<1>4. I \ {u} \in SUBSET Uuid
  OBVIOUS
<1> QED  BY <1>1, <1>3, <1>4, StoreTypes

\* A set of networks is no larger than all there may be.
LEMMA Sizes ==
    \A S \in SUBSET Uuid : Cardinality(S) \in 0 .. Cardinality(Uuid)
<1> SUFFICES ASSUME NEW S \in SUBSET Uuid
             PROVE  Cardinality(S) \in 0 .. Cardinality(Uuid)
  OBVIOUS
<1>1. IsFiniteSet(Uuid) /\ Cardinality(Uuid) \in Nat
  BY NetworkAssumption, FS_CardinalityType
<1>2. IsFiniteSet(S) /\ Cardinality(S) <= Cardinality(Uuid)
  BY <1>1, FS_Subset
<1>3. Cardinality(S) \in Nat
  BY <1>2, FS_CardinalityType
<1> QED  BY <1>1, <1>2, <1>3

LEMMA NetInit == Net!Init => NetInv
<1> SUFFICES ASSUME Net!Init
             PROVE  NetInv
  OBVIOUS
<1>1. networks = [u \in {} |-> CHOOSE n \in Network : TRUE]
  BY DEF Net!Init
<1>2. networks \in [{} -> Network] /\ DOMAIN networks = {}
  BY <1>1
<1>3. networks \in Stores
  BY <1>2, StoreTypes
<1>4. (CHOOSE u \in Uuid : TRUE) \in Uuid /\ (CHOOSE n \in Network : TRUE) \in Network
  BY NetworkAssumption
<1>5. 0 \in 0 .. Cardinality(Uuid)
  BY Sizes
<1>6. NetTypes
  BY <1>2, <1>3, <1>4, <1>5 DEF Net!Init, NetTypes, NetPlaces, Net!Operation
<1>7. Locked
  BY DEF Net!Init, Locked
<1> QED  BY <1>6, <1>7 DEF NetInv

\* What a handler that moves does to its place.
LEMMA NetMoved ==
    ASSUME NetTypes, NEW c \in Client, NEW l \in NetPlaces, Net!Goto(c, l)
    PROVE  /\ storePc' \in [Client -> NetPlaces]
           /\ \A d \in Client : storePc'[d] = IF d = c THEN l ELSE storePc[d]
<1>1. storePc' = [storePc EXCEPT ![c] = l] /\ storePc \in [Client -> NetPlaces]
  BY DEF NetTypes, Net!Goto
<1> QED  BY ONLY <1>1, c \in Client, l \in NetPlaces

\* The types are kept where only locks and places change.
LEMMA NetUnchanged ==
    ASSUME NetTypes, networks' = networks, issued' = issued,
           writer' \subseteq Client, readers' \subseteq Client,
           storePc' \in [Client -> NetPlaces],
           op' = op, id' = id, body' = body, size' = size
    PROVE  NetTypes'
BY DEF NetTypes

\* One step each of the handlers: the locks, a call, the work under the lock, the
\* body.
LEMMA LockStep ==
    ASSUME NetInv, NEW c \in Client, Net!Lock(c) \/ Net!RLock(c)
    PROVE  NetInv'
<1>1. NetTypes /\ Locked
  BY DEF NetInv
<1>2. {"write", "read"} \subseteq NetPlaces
  BY DEF NetPlaces
<1>3. CASE Net!Lock(c)
  <2>1. /\ Net!Goto(c, "write") /\ writer = {} /\ readers = {} /\ writer' = {c}
        /\ networks' = networks /\ issued' = issued /\ readers' = readers
        /\ op' = op /\ id' = id /\ body' = body /\ size' = size
    BY <1>3 DEF Net!Lock, Net!requestVars
  <2>2. /\ storePc' \in [Client -> NetPlaces]
        /\ \A d \in Client : storePc'[d] = IF d = c THEN "write" ELSE storePc[d]
    BY <1>1, <1>2, <2>1, NetMoved
  <2>3. NetTypes'
    BY <1>1, <2>1, <2>2, NetUnchanged
  <2>4. Locked'
    BY <1>1, <2>1, <2>2 DEF Locked
  <2> QED  BY <2>3, <2>4 DEF NetInv
<1>4. CASE Net!RLock(c)
  <2>1. /\ Net!Goto(c, "read") /\ writer = {} /\ readers' = readers \cup {c}
        /\ networks' = networks /\ issued' = issued /\ writer' = writer
        /\ op' = op /\ id' = id /\ body' = body /\ size' = size
    BY <1>4 DEF Net!RLock, Net!requestVars
  <2>2. /\ storePc' \in [Client -> NetPlaces]
        /\ \A d \in Client : storePc'[d] = IF d = c THEN "read" ELSE storePc[d]
    BY <1>1, <1>2, <2>1, NetMoved
  <2>3. writer' \subseteq Client /\ readers' \subseteq Client
    BY <1>1, <2>1 DEF NetTypes
  <2>4. NetTypes'
    BY <1>1, <2>1, <2>2, <2>3, NetUnchanged
  <2>5. Locked'
    BY <1>1, <2>1, <2>2 DEF Locked
  <2> QED  BY <2>4, <2>5 DEF NetInv
<1> QED  BY <1>3, <1>4

\* Whoever writes, and gives the lock back, is alone with the map.
LEMMA WrittenStep ==
    ASSUME NetInv, NEW c \in Client, storePc[c] \in {"write", "body"}, Net!Unlock(c),
           networks' \in Stores, issued' \subseteq Uuid, DOMAIN networks' \subseteq issued',
           op' = op, id' = id, body' = body, size' = size
    PROVE  NetInv'
<1>1. NetTypes /\ Locked
  BY DEF NetInv
<1>2. "idle" \in NetPlaces
  BY DEF NetPlaces
<1>3. Net!Goto(c, "idle") /\ writer' = {} /\ readers' = readers
  BY DEF Net!Unlock
<1>4. /\ storePc' \in [Client -> NetPlaces]
      /\ \A d \in Client : storePc'[d] = IF d = c THEN "idle" ELSE storePc[d]
  BY <1>1, <1>2, <1>3, NetMoved
<1>5. NetTypes'
  BY <1>1, <1>3, <1>4 DEF NetTypes
<1>6. writer = {c} /\ readers = {}
  BY <1>1 DEF Locked
<1>7. ASSUME NEW d \in Client
      PROVE  storePc'[d] \notin {"write", "body", "read", "fill"}
  BY <1>1, <1>4, <1>6 DEF Locked
<1>8. Locked'
  BY <1>3, <1>7 DEF Locked
<1> QED  BY <1>5, <1>8 DEF NetInv

\* A reader gives the lock back.
LEMMA ReadStep ==
    ASSUME NetInv, NEW c \in Client, storePc[c] \in {"read", "fill"},
           readers' = readers \ {c}, Net!Goto(c, "idle"),
           networks' = networks, issued' = issued, writer' = writer,
           op' = op, id' = id, body' = body, size' = size
    PROVE  NetInv'
<1>1. NetTypes /\ Locked
  BY DEF NetInv
<1>2. "idle" \in NetPlaces
  BY DEF NetPlaces
<1>3. /\ storePc' \in [Client -> NetPlaces]
      /\ \A d \in Client : storePc'[d] = IF d = c THEN "idle" ELSE storePc[d]
  BY <1>1, <1>2, NetMoved
<1>4. writer' \subseteq Client /\ readers' \subseteq Client
  BY <1>1 DEF NetTypes
<1>5. NetTypes'
  BY <1>1, <1>3, <1>4, NetUnchanged
<1>6. Locked'
  BY <1>1, <1>3 DEF Locked
<1> QED  BY <1>5, <1>6 DEF NetInv

\* A step without the lock, to places without it.
LEMMA OutsideStep ==
    ASSUME NetInv, NEW c \in Client, storePc[c] \in {"idle", "decode"},
           NEW l \in {"idle", "rlock", "decode", "lock"}, Net!Goto(c, l),
           networks' = networks, issued' = issued, writer' = writer,
           readers' = readers, size' = size,
           op' \in [Client -> Net!Operation], id' \in [Client -> Uuid],
           body' \in [Client -> Network],
           \A d \in Client : d # c => id'[d] = id[d]
    PROVE  NetInv'
<1>1. NetTypes /\ Locked
  BY DEF NetInv
<1>2. l \in NetPlaces
  BY DEF NetPlaces
<1>3. /\ storePc' \in [Client -> NetPlaces]
      /\ \A d \in Client : storePc'[d] = IF d = c THEN l ELSE storePc[d]
  BY <1>1, <1>2, NetMoved
<1>4. NetTypes'
  BY <1>1, <1>3 DEF NetTypes
<1>5. Locked'
  BY <1>1, <1>3 DEF Locked
<1> QED  BY <1>4, <1>5 DEF NetInv

LEMMA CallStep ==
    ASSUME NetInv, NEW c \in Client, NEW o \in Net!Operation, NEW u \in Uuid,
           Net!Call(c, o, u)
    PROVE  NetInv'
<1>1. NetTypes
  BY DEF NetInv
<1>2. PICK l \in {"idle", "rlock", "decode", "lock"} : Net!Goto(c, l)
  <2>1. CASE o \in {"get", "pool"}
    BY <2>1 DEF Net!Call
  <2>2. CASE o = "post"
    BY <2>2 DEF Net!Call
  <2>3. CASE o \in {"put", "delete"}
    BY <2>3 DEF Net!Call
  <2> QED  BY <2>1, <2>2, <2>3 DEF Net!Operation
<1>3. /\ op' = [op EXCEPT ![c] = o] /\ id' = [id EXCEPT ![c] = u]
      /\ storePc[c] = "idle" /\ networks' = networks /\ issued' = issued
      /\ writer' = writer /\ readers' = readers /\ body' = body /\ size' = size
  BY DEF Net!Call
<1>4. /\ op' \in [Client -> Net!Operation] /\ id' \in [Client -> Uuid]
      /\ body' \in [Client -> Network] /\ \A d \in Client : d # c => id'[d] = id[d]
  BY <1>1, <1>3 DEF NetTypes
<1> QED  BY <1>2, <1>3, <1>4, OutsideStep

LEMMA WorkStep ==
    ASSUME NetInv, NEW c \in Client, Net!Work(c)
    PROVE  NetInv'
<1>1. NetTypes /\ Locked
  BY DEF NetInv
<1>2. CASE Net!Get(c)
  BY <1>2, ReadStep DEF Net!Get, Net!requestVars
<1>3. CASE Net!PoolFill(c)
  BY <1>3, ReadStep DEF Net!PoolFill, Net!requestVars
<1>4. CASE Net!PoolMake(c)
  <2>1. /\ Net!Goto(c, "fill") /\ size' = [size EXCEPT ![c] = Cardinality(DOMAIN networks)]
        /\ storePc[c] = "read"
        /\ networks' = networks /\ issued' = issued /\ writer' = writer
        /\ readers' = readers /\ op' = op /\ id' = id /\ body' = body
    BY <1>4, NetCardinality DEF Net!PoolMake, Net!requestVars, Net!Stored
  <2>2. "fill" \in NetPlaces
    BY DEF NetPlaces
  <2>3. /\ storePc' \in [Client -> NetPlaces]
        /\ \A d \in Client : storePc'[d] = IF d = c THEN "fill" ELSE storePc[d]
    BY <1>1, <2>1, <2>2, NetMoved
  <2>4. Cardinality(DOMAIN networks) \in 0 .. Cardinality(Uuid)
    BY <1>1, StoreTypes, Sizes DEF NetTypes
  <2>5. /\ size' \in [Client -> 0 .. Cardinality(Uuid)]
        /\ \A d \in Client :
              size'[d] = IF d = c THEN Cardinality(DOMAIN networks) ELSE size[d]
    BY <1>1, <2>1, <2>4 DEF NetTypes
  <2>6. NetTypes'
    BY <1>1, <2>1, <2>3, <2>5 DEF NetTypes
  <2>7. Locked'
    BY <1>1, <2>1, <2>3, <2>5 DEF Locked
  <2> QED  BY <2>6, <2>7 DEF NetInv
<1>5. CASE Net!PostInsert(c)
  <2>1. PICK u \in Uuid \ issued :
           issued' = issued \cup {u} /\ networks' = Net!With(u, body[c])
    BY <1>5 DEF Net!PostInsert
  <2>2. body[c] \in Network /\ networks \in Stores /\ DOMAIN networks \subseteq issued
        /\ issued \subseteq Uuid
    BY <1>1 DEF NetTypes
  <2>3. networks' \in Stores /\ DOMAIN networks' = DOMAIN networks \cup {u}
    BY <2>1, <2>2, WithType
  <2>4. issued' \subseteq Uuid /\ DOMAIN networks' \subseteq issued'
    BY <2>1, <2>2, <2>3
  <2> QED  BY <1>5, <2>3, <2>4, WrittenStep DEF Net!PostInsert, Net!requestVars
<1>6. CASE Net!DeleteNetwork(c)
  <2>1. networks' = Net!Without(id[c]) /\ issued' = issued
    BY <1>6 DEF Net!DeleteNetwork
  <2>2. networks' \in Stores /\ DOMAIN networks' = DOMAIN networks \ {id[c]}
    BY <1>1, <2>1, WithoutType DEF NetTypes
  <2>3. issued' \subseteq Uuid /\ DOMAIN networks' \subseteq issued'
    BY <1>1, <2>1, <2>2 DEF NetTypes
  <2> QED  BY <1>6, <2>2, <2>3, WrittenStep DEF Net!DeleteNetwork, Net!requestVars
<1>7. CASE Net!PutLookup(c) /\ id[c] \notin DOMAIN networks
  <2>1. networks' = networks /\ issued' = issued
    BY <1>7 DEF Net!PutLookup
  <2>2. networks' \in Stores /\ issued' \subseteq Uuid /\ DOMAIN networks' \subseteq issued'
    BY <1>1, <2>1 DEF NetTypes
  <2> QED  BY <1>7, <2>2, WrittenStep DEF Net!PutLookup, Net!requestVars, Net!Stored
<1>8. CASE Net!PutLookup(c) /\ id[c] \in DOMAIN networks
  <2>1. /\ storePc[c] = "write" /\ Net!Goto(c, "body")
        /\ networks' = networks /\ issued' = issued /\ writer' = writer
        /\ readers' = readers /\ op' = op /\ id' = id /\ body' = body /\ size' = size
    BY <1>8 DEF Net!PutLookup, Net!requestVars, Net!Stored
  <2>2. "body" \in NetPlaces
    BY DEF NetPlaces
  <2>3. /\ storePc' \in [Client -> NetPlaces]
        /\ \A d \in Client : storePc'[d] = IF d = c THEN "body" ELSE storePc[d]
    BY <1>1, <2>1, <2>2, NetMoved
  <2>4. NetTypes'
    BY <1>1, <2>1, <2>3 DEF NetTypes
  <2>5. Locked'
    BY <1>1, <1>8, <2>1, <2>3 DEF Locked
  <2> QED  BY <2>4, <2>5 DEF NetInv
<1> QED  BY <1>2, <1>3, <1>4, <1>5, <1>6, <1>7, <1>8 DEF Net!Work

LEMMA DecodeStep ==
    ASSUME NetInv, NEW c \in Client, Net!Decode(c)
    PROVE  NetInv'
<1>1. NetTypes /\ Locked
  BY DEF NetInv
<1>2. CASE Net!PutDecode(c)
  <2>1. storePc[c] = "body" /\ Net!Unlock(c) /\ issued' = issued
        /\ op' = op /\ id' = id /\ body' = body /\ size' = size
    BY <1>2 DEF Net!PutDecode, Net!requestVars
  <2>2. id[c] \in DOMAIN networks /\ id[c] \in Uuid
    BY <1>1, <2>1 DEF Locked, NetTypes
  <2>3. networks' \in Stores /\ DOMAIN networks' = DOMAIN networks
    <3>1. CASE networks' = networks
      BY <1>1, <3>1 DEF NetTypes
    <3>2. ASSUME NEW n \in Network, networks' = Net!With(id[c], n)
          PROVE  networks' \in Stores /\ DOMAIN networks' = DOMAIN networks
      <4>1. networks' \in Stores /\ DOMAIN networks' = DOMAIN networks \cup {id[c]}
        BY <1>1, <2>2, <3>2, WithType DEF NetTypes
      <4> QED  BY <2>2, <4>1
    <3> QED  BY <1>2, <3>1, <3>2 DEF Net!PutDecode
  <2>4. issued' \subseteq Uuid /\ DOMAIN networks' \subseteq issued'
    BY <1>1, <2>1, <2>3 DEF NetTypes
  <2> QED  BY <2>1, <2>3, <2>4, WrittenStep
<1>3. CASE Net!PostDecode(c)
  <2>1. /\ storePc[c] = "decode"
        /\ networks' = networks /\ issued' = issued /\ writer' = writer
        /\ readers' = readers /\ op' = op /\ id' = id /\ size' = size
    BY <1>3 DEF Net!PostDecode
  <2>2. op' \in [Client -> Net!Operation] /\ id' \in [Client -> Uuid]
        /\ \A d \in Client : d # c => id'[d] = id[d]
    BY <1>1, <2>1 DEF NetTypes
  <2>3. CASE Net!Goto(c, "idle") /\ body' = body
    <3>1. body' \in [Client -> Network]
      BY <1>1, <2>3 DEF NetTypes
    <3> QED  BY <2>1, <2>2, <2>3, <3>1, OutsideStep
  <2>4. ASSUME NEW n \in Network, body' = [body EXCEPT ![c] = n], Net!Goto(c, "lock")
        PROVE  NetInv'
    <3>1. body' \in [Client -> Network]
      BY <1>1, <2>4 DEF NetTypes
    <3> QED  BY <2>1, <2>2, <2>4, <3>1, OutsideStep
  <2> QED  BY <1>3, <2>3, <2>4 DEF Net!PostDecode
<1> QED  BY <1>2, <1>3 DEF Net!Decode

LEMMA NetStep == NetInv /\ Net!Next => NetInv'
BY LockStep, CallStep, WorkStep, DecodeStep DEF Net!Next

LEMMA NetStays == NetInv /\ UNCHANGED netVars => NetInv'
BY DEF NetInv, netVars, NetTypes, Locked

\* What the inductive invariant of the network store is for.
LEMMA NetSafe == NetInv => Net!TypeOK /\ Net!PoolFits
BY NetCardinality
   DEF NetInv, NetTypes, Locked, Net!TypeOK, Net!PoolFits, Net!Stored, Stores, NetPlaces

\* The only identifiers that come into the map are new ones and those of a PUT
\* that holds the lock since it found them there.
LEMMA NetDeleted ==
    ASSUME NetInv, Net!Next \/ UNCHANGED netVars, NEW u \in issued \ Net!Stored
    PROVE  u \notin DOMAIN networks'
<1>1. NetTypes /\ Locked /\ u \notin DOMAIN networks /\ networks \in Stores
  BY DEF NetInv, NetTypes, Net!Stored
<1>2. CASE networks' = networks
  BY <1>1, <1>2
<1>3. ASSUME NEW c \in Client, Net!PostInsert(c)
      PROVE  u \notin DOMAIN networks'
  <2>1. PICK j \in Uuid \ issued : networks' = Net!With(j, body[c])
    BY <1>3 DEF Net!PostInsert
  <2>2. DOMAIN networks' = DOMAIN networks \cup {j}
    BY <1>1, <2>1, WithType DEF NetTypes
  <2> QED  BY <1>1, <2>1, <2>2
<1>4. ASSUME NEW c \in Client, NEW n \in Network, storePc[c] = "body",
             networks' = Net!With(id[c], n)
      PROVE  u \notin DOMAIN networks'
  <2>1. id[c] \in Uuid /\ id[c] \in DOMAIN networks
    BY <1>1, <1>4 DEF NetTypes, Locked
  <2>2. DOMAIN networks' = DOMAIN networks \cup {id[c]}
    BY <1>1, <1>4, <2>1, WithType
  <2> QED  BY <1>1, <2>1, <2>2
<1>5. ASSUME NEW c \in Client, Net!DeleteNetwork(c)
      PROVE  u \notin DOMAIN networks'
  <2>1. DOMAIN networks' = DOMAIN networks \ {id[c]}
    BY <1>1, <1>5, WithoutType DEF Net!DeleteNetwork
  <2> QED  BY <1>1, <2>1
<1>6. CASE UNCHANGED netVars
  BY <1>2, <1>6 DEF netVars
<1>7. ASSUME NEW c \in Client, Net!Lock(c) \/ Net!RLock(c)
      PROVE  networks' = networks
  BY <1>7 DEF Net!Lock, Net!RLock
<1>8. ASSUME NEW c \in Client, NEW o \in Net!Operation, NEW j \in Uuid, Net!Call(c, o, j)
      PROVE  networks' = networks
  BY <1>8 DEF Net!Call
<1>9. ASSUME NEW c \in Client, Net!Work(c)
      PROVE  u \notin DOMAIN networks'
  <2>1. CASE Net!Get(c) \/ Net!PoolMake(c) \/ Net!PoolFill(c) \/ Net!PutLookup(c)
    BY <1>2, <2>1 DEF Net!Get, Net!PoolMake, Net!PoolFill, Net!PutLookup
  <2> QED  BY <1>3, <1>5, <1>9, <2>1 DEF Net!Work
<1>10. ASSUME NEW c \in Client, Net!Decode(c)
       PROVE  u \notin DOMAIN networks'
  BY <1>2, <1>4, <1>10 DEF Net!Decode, Net!PostDecode, Net!PutDecode
<1> QED  BY <1>2, <1>6, <1>7, <1>8, <1>9, <1>10 DEF Net!Next

-----------------------------------------------------------------------------
(* TestRunner.                                                             *)

\* The file a test of a thread is written to, and those of tests that are
\* still to come, which are not there.
File(t, n, kind) == <<t[1], t[2], n, kind>>
Before(kind) == IF kind = "Create" THEN {"none", "ready", "create"}
                ELSE {"none", "ready", "create", "created", "delete"}
Missing(kind) ==
    \A t \in Runner!Thread, n \in 1 .. Last :
        (n > number[t] \/ (n = number[t] /\ runnerPc[t] \in Before(kind)))
            => File(t, n, kind) \notin DOMAIN xml
Fresh == main # "off" => Missing("Create") /\ Missing("Delete")

\* Those of the create tests that are behind a thread, which are.
Behind(t) ==
    \A n \in 1 .. Last :
        (n < number[t] \/ (n = number[t] /\ runnerPc[t] \in {"delete", "deleted", "passed"}))
            => File(t, n, "Create") \in DOMAIN xml

\* Which tests are behind a thread shows in the volumes that are not there.
Kept(t) ==
    /\ \A n \in 1 .. Last : n < number[t] /\ n \in Deletable => <<t, n>> \notin volumes
    /\ runnerPc[t] = "deleted" /\ verdict[t] = "pass" => <<t, number[t]>> \notin volumes
    /\ runnerPc[t] = "passed" =>
          number[t] = Last /\ (Last \in Deletable => <<t, Last>> \notin volumes)

RunnerPlaces == {"none", "ready", "create", "created", "delete", "deleted",
                 "passed", "failed", "died"}
RunnerTypes ==
    /\ main \in {"off", "construct", "start", "report", "done", "refused", "died"}
    /\ runnerPc \in [Runner!Thread -> RunnerPlaces]
    /\ number \in [Runner!Thread -> 1 .. Last]
    /\ verdict \in [Runner!Thread -> {"pass", "fail", "none"}]
    /\ volumes \subseteq Runner!Thread \X (1 .. Last)

FilesRead == /\ \A f \in DOMAIN xml : xml[f] \in {"pass", "fail"}
             /\ IF main = "done" THEN report = DOMAIN xml ELSE report = {}

Phases ==
    /\ main \in {"off", "refused"} =>
          \A t \in Runner!Thread : runnerPc[t] = "none" /\ number[t] = 1
    /\ main \in {"report", "done", "died"} =>
          \A t \in Runner!Thread : runnerPc[t] \in Runner!Ended

RunnerInv ==
    /\ RunnerTypes /\ FilesRead /\ Phases /\ Fresh /\ Runner!VerdictIsOwn
    /\ \A t \in Runner!Thread : Kept(t) /\ Behind(t)

\* Tests that are not of one thread, number and kind do not share a file.
LEMMA FilesDiffer ==
    ASSUME NEW t \in Runner!Thread, NEW u \in Runner!Thread,
           NEW n, NEW m, NEW k, NEW l
    PROVE  /\ File(t, n, k) = File(u, m, l) => t = u /\ n = m /\ k = l
           /\ File(t, n, k) # Runner!SetupFile(u)
<1>1. t = <<t[1], t[2]>> /\ u = <<u[1], u[2]>>
  BY DEF Runner!Thread
<1>2. ASSUME File(t, n, k) = File(u, m, l)
      PROVE  t = u /\ n = m /\ k = l
  <2>1. t[1] = u[1] /\ t[2] = u[2] /\ n = m /\ k = l
    BY <1>2 DEF File
  <2> QED  BY <1>1, <2>1
<1>3. File(t, n, k) # Runner!SetupFile(u)
  <2>1. Len(<<t[1], t[2], n, k>>) = 4 /\ Len(<<u[1], "setup">>) = 2
    OBVIOUS
  <2> QED  BY <2>1 DEF File, Runner!SetupFile
<1> QED  BY <1>2, <1>3

\* robot writes one file and leaves the others.
LEMMA WrittenFile ==
    ASSUME NEW f, NEW v, Runner!Written(f, v)
    PROVE  /\ DOMAIN xml' = DOMAIN xml \cup {f} /\ xml'[f] = v
           /\ \A g \in DOMAIN xml \ {f} : xml'[g] = xml[g]
BY DEF Runner!Written

LEMMA RunnerInit == Runner!Init => RunnerInv
<1> SUFFICES ASSUME Runner!Init
             PROVE  RunnerInv
  OBVIOUS
<1>1. /\ main = "off" /\ runnerPc = [t \in Runner!Thread |-> "none"]
      /\ number = [t \in Runner!Thread |-> 1]
      /\ verdict = [t \in Runner!Thread |-> "none"] /\ volumes = {} /\ report = {}
  BY DEF Runner!Init
<1>2. \A f \in DOMAIN xml : xml[f] = "pass"
  BY DEF Runner!Init
<1>3. 1 \in 1 .. Last /\ \A n \in 1 .. Last : ~(n < 1)
  BY RunnerAssumption
<1>4. RunnerTypes
  BY <1>1, <1>3 DEF RunnerTypes, RunnerPlaces
<1>5. FilesRead /\ Phases /\ Fresh /\ Runner!VerdictIsOwn
  BY <1>1, <1>2 DEF FilesRead, Phases, Fresh, Runner!VerdictIsOwn
<1>6. \A t \in Runner!Thread : Kept(t) /\ Behind(t)
  BY <1>1, <1>3 DEF Kept, Behind
<1> QED  BY <1>4, <1>5, <1>6 DEF RunnerInv

\* The verdict of a test, if the file has none of another.
LEMMA ReadFile ==
    ASSUME NEW t \in Runner!Thread, NEW k
    PROVE  /\ Runner!OutputFile(t, k) = File(t, number[t], k)
           /\ Runner!Read(t, k) = IF File(t, number[t], k) \in DOMAIN xml
                                  THEN xml[File(t, number[t], k)] ELSE "none"
BY DEF Runner!OutputFile, Runner!Read, File

\* main: the environment, one thread after the other, the report.
LEMMA SetupStep == RunnerInv /\ Runner!SetupEnv => RunnerInv'
<1> SUFFICES ASSUME RunnerInv, Runner!SetupEnv
             PROVE  RunnerInv'
  OBVIOUS
<1>1. /\ main = "off" /\ main' \in {"construct", "refused"} /\ DOMAIN xml' = {}
      /\ UNCHANGED <<runnerPc, number, verdict, volumes, report>>
  BY DEF Runner!SetupEnv
<1>2. \A t \in Runner!Thread : runnerPc[t] = "none" /\ number[t] = 1
  BY <1>1 DEF RunnerInv, Phases
<1>3. RunnerTypes' /\ FilesRead' /\ Phases'
  BY <1>1 DEF RunnerInv, RunnerTypes, FilesRead, Phases
<1>4. Fresh'
  BY <1>1 DEF Fresh, Missing
<1>5. Runner!VerdictIsOwn'
  BY <1>1, <1>2 DEF Runner!VerdictIsOwn
<1>6. \A t \in Runner!Thread : Kept(t)'
  BY <1>1 DEF RunnerInv, Kept
<1>7. \A t \in Runner!Thread : Behind(t)'
  <2>1. \A n \in 1 .. Last : ~(n < 1)
    OBVIOUS
  <2> QED  BY <1>1, <1>2, <2>1 DEF Behind
<1> QED  BY <1>3, <1>4, <1>5, <1>6, <1>7 DEF RunnerInv

\* Files that are there stay.
LEMMA StillBehind ==
    ASSUME RunnerInv, NEW t \in Runner!Thread, number' = number,
           \A n : File(t, n, "Create") \in DOMAIN xml => File(t, n, "Create") \in DOMAIN xml',
           runnerPc'[t] \in {"delete", "deleted", "passed"} =>
              runnerPc[t] \in {"delete", "deleted", "passed"}
    PROVE  Behind(t)'
<1>1. Behind(t)
  BY DEF RunnerInv
<1>2. \A n : File(t, n, "Create")' = File(t, n, "Create")
  BY DEF File
<1> QED  BY <1>1, <1>2 DEF Behind

LEMMA ConstructStep ==
    ASSUME RunnerInv, NEW t \in Runner!Thread, Runner!Construct(t)
    PROVE  RunnerInv'
<1>1. /\ main = "construct" /\ runnerPc[t] = "none"
      /\ runnerPc' = [runnerPc EXCEPT ![t] = "ready"]
      /\ UNCHANGED <<main, number, verdict, volumes, report>>
  BY DEF Runner!Construct, Runner!Goto
<1>2. /\ runnerPc' \in [Runner!Thread -> RunnerPlaces] /\ runnerPc'[t] = "ready"
      /\ \A u \in Runner!Thread \ {t} : runnerPc'[u] = runnerPc[u]
  BY <1>1 DEF RunnerInv, RunnerTypes, RunnerPlaces
<1> DEFINE Verdicts == \A f \in DOMAIN xml' : xml'[f] \in {"pass", "fail"}
           Same(f) == /\ f \in DOMAIN xml' <=> f \in DOMAIN xml
                      /\ f \in DOMAIN xml => xml'[f] = xml[f]
<1>3. Verdicts /\ \A u \in Runner!Thread : \A n, k : Same(File(u, n, k))
  <2>1. \A f \in DOMAIN xml : xml[f] \in {"pass", "fail"}
    BY DEF RunnerInv, FilesRead
  <2>2. CASE xml' = xml
    BY <2>1, <2>2
  <2>3. ASSUME NEW v \in {"pass", "fail"}, Runner!Written(Runner!SetupFile(t), v)
        PROVE  Verdicts /\ \A u \in Runner!Thread : \A n, k : Same(File(u, n, k))
    <3>1. PICK g : g = Runner!SetupFile(t)
      OBVIOUS
    <3>2. /\ DOMAIN xml' = DOMAIN xml \cup {g} /\ xml'[g] = v
          /\ \A f \in DOMAIN xml \ {g} : xml'[f] = xml[f]
      BY <2>3, <3>1, WrittenFile
    <3>3. Verdicts
      BY <2>1, <3>2
    <3>4. \A u \in Runner!Thread : \A n, k : File(u, n, k) # g
      BY <3>1, FilesDiffer
    <3>5. \A f : f # g => Same(f)
      BY <3>2
    <3> QED  BY <3>3, <3>4, <3>5
  <2> QED  BY <2>2, <2>3 DEF Runner!Construct
<1>4. RunnerTypes' /\ FilesRead' /\ Phases'
  BY <1>1, <1>2, <1>3 DEF RunnerInv, RunnerTypes, FilesRead, Phases
<1>5. Fresh'
  <2>1. Missing("Create") /\ Missing("Delete")
    BY <1>1 DEF RunnerInv, Fresh
  <2>2. \A u \in Runner!Thread : \A k : runnerPc'[u] \in Before(k) => runnerPc[u] \in Before(k)
    BY <1>1, <1>2 DEF Before
  <2> QED  BY <1>1, <1>3, <2>1, <2>2 DEF Fresh, Missing
<1>6. Runner!VerdictIsOwn'
  <2>1. \A u \in Runner!Thread : \A k : Runner!Read(u, k)' = Runner!Read(u, k)
    BY <1>1, <1>3 DEF Runner!OutputFile, Runner!Read, File
  <2> QED  BY <1>1, <1>2, <2>1 DEF RunnerInv, Runner!VerdictIsOwn
<1>7. \A u \in Runner!Thread : Kept(u)'
  BY <1>1, <1>2 DEF RunnerInv, Kept
<1>8. \A u \in Runner!Thread : Behind(u)'
  BY <1>1, <1>2, <1>3, StillBehind
<1> QED  BY <1>4, <1>5, <1>6, <1>7, <1>8 DEF RunnerInv

\* main starts the threads, waits for them and makes the report.
LEMMA StartStep ==
    ASSUME RunnerInv, NEW t \in Runner!Thread, Runner!Start(t)
    PROVE  RunnerInv'
<1>1. /\ runnerPc[t] = "ready" /\ main' = "start"
      /\ runnerPc' = [runnerPc EXCEPT ![t] = "create"]
      /\ UNCHANGED <<number, xml, verdict, volumes, report>>
  BY DEF Runner!Start, Runner!Goto
<1>2. /\ runnerPc' \in [Runner!Thread -> RunnerPlaces] /\ runnerPc'[t] = "create"
      /\ \A u \in Runner!Thread \ {t} : runnerPc'[u] = runnerPc[u]
  BY <1>1 DEF RunnerInv, RunnerTypes, RunnerPlaces
<1>3. main \notin {"off", "refused", "report", "done", "died"}
  BY <1>1 DEF RunnerInv, Phases, Runner!Ended
<1>4. RunnerTypes' /\ FilesRead' /\ Phases'
  BY <1>1, <1>2, <1>3 DEF RunnerInv, RunnerTypes, FilesRead, Phases
<1>5. Fresh'
  <2>1. Missing("Create") /\ Missing("Delete")
    BY <1>3 DEF RunnerInv, Fresh
  <2>2. \A u \in Runner!Thread : \A k : runnerPc'[u] \in Before(k) => runnerPc[u] \in Before(k)
    BY <1>1, <1>2 DEF Before
  <2> QED  BY <1>1, <2>1, <2>2 DEF Fresh, Missing
<1>6. Runner!VerdictIsOwn'
  <2>1. \A u \in Runner!Thread : \A k : Runner!Read(u, k)' = Runner!Read(u, k)
    BY <1>1 DEF Runner!OutputFile, Runner!Read
  <2> QED  BY <1>1, <1>2, <2>1 DEF RunnerInv, Runner!VerdictIsOwn
<1>7. \A u \in Runner!Thread : Kept(u)'
  BY <1>1, <1>2 DEF RunnerInv, Kept
<1>8. \A u \in Runner!Thread : Behind(u)'
  BY <1>1, <1>2, StillBehind
<1> QED  BY <1>4, <1>5, <1>6, <1>7, <1>8 DEF RunnerInv

LEMMA ReportStep == RunnerInv /\ (Runner!Join \/ Runner!GenerateReport) => RunnerInv'
<1> SUFFICES ASSUME RunnerInv, Runner!Join \/ Runner!GenerateReport
             PROVE  RunnerInv'
  OBVIOUS
<1>1. UNCHANGED <<runnerPc, number, xml, verdict, volumes>>
  BY DEF Runner!Join, Runner!GenerateReport
<1>2. /\ main # "off" /\ main' \in {"report", "done", "died"}
      /\ \A t \in Runner!Thread : runnerPc[t] \in Runner!Ended
      /\ IF main' = "done" THEN report' = DOMAIN xml ELSE report' = {}
  BY DEF RunnerInv, FilesRead, Phases, Runner!Join, Runner!GenerateReport
<1>3. RunnerTypes' /\ FilesRead' /\ Phases'
  BY <1>1, <1>2 DEF RunnerInv, RunnerTypes, FilesRead, Phases
<1>4. Fresh'
  BY <1>1, <1>2 DEF RunnerInv, Fresh, Missing
<1>5. Runner!VerdictIsOwn'
  <2>1. \A u \in Runner!Thread : \A k : Runner!Read(u, k)' = Runner!Read(u, k)
    BY <1>1 DEF Runner!OutputFile, Runner!Read
  <2> QED  BY <1>1, <2>1 DEF RunnerInv, Runner!VerdictIsOwn
<1>6. \A u \in Runner!Thread : Kept(u)' /\ Behind(u)'
  BY <1>1, StillBehind DEF RunnerInv, Kept
<1> QED  BY <1>3, <1>4, <1>5, <1>6 DEF RunnerInv

\* What a run of pybot changes: one file at most, which is the test's own.
LEMMA PybotFile ==
    ASSUME RunnerInv, NEW t \in Runner!Thread, NEW k \in {"Create", "Delete"},
           NEW v \in {"pass", "fail", "none"}, Runner!Pybot(t, k, v),
           File(t, number[t], k) \notin DOMAIN xml
    PROVE  /\ \A f \in DOMAIN xml' : xml'[f] \in {"pass", "fail"}
           /\ \A f : f # File(t, number[t], k) =>
                 /\ f \in DOMAIN xml' <=> f \in DOMAIN xml
                 /\ f \in DOMAIN xml => xml'[f] = xml[f]
           /\ Runner!Read(t, k)' = v
           /\ \A u \in Runner!Thread \ {t} : Runner!Read(u, "Create")' = Runner!Read(u, "Create")
           /\ \A u \in Runner!Thread \ {t} : Runner!Read(u, "Delete")' = Runner!Read(u, "Delete")
<1>1. PICK g : g = File(t, number[t], k)
  OBVIOUS
<1>2. IF v = "none" THEN xml' = xml ELSE Runner!Written(g, v)
  BY <1>1, ReadFile DEF Runner!Pybot
<1>3. /\ number' = number /\ g \notin DOMAIN xml
      /\ \A f \in DOMAIN xml : xml[f] \in {"pass", "fail"}
  BY <1>1 DEF Runner!Pybot, RunnerInv, FilesRead
<1>4. /\ v # "none" => DOMAIN xml' = DOMAIN xml \cup {g} /\ xml'[g] = v
      /\ v # "none" => \A f \in DOMAIN xml \ {g} : xml'[f] = xml[f]
  BY <1>2, WrittenFile
<1>5. \A f \in DOMAIN xml' : xml'[f] \in {"pass", "fail"}
  BY <1>2, <1>3, <1>4
<1>6. \A f : f # g => /\ f \in DOMAIN xml' <=> f \in DOMAIN xml
                      /\ f \in DOMAIN xml => xml'[f] = xml[f]
  BY <1>2, <1>4
<1>7. IF g \in DOMAIN xml' THEN xml'[g] = v ELSE v = "none"
  BY <1>2, <1>3, <1>4
<1>8. \A u, l : Runner!Read(u, l)' = IF File(u, number[u], l) \in DOMAIN xml'
                                     THEN xml'[File(u, number[u], l)] ELSE "none"
  BY <1>3 DEF Runner!Read, Runner!OutputFile, File
<1>9. Runner!Read(t, k)' = v
  BY <1>1, <1>7, <1>8
<1>10. ASSUME NEW u \in Runner!Thread \ {t}, NEW l
       PROVE  Runner!Read(u, l)' = Runner!Read(u, l)
  <2>1. File(u, number[u], l) # g
    BY <1>1, FilesDiffer
  <2> QED  BY <1>6, <1>8, <2>1, ReadFile
<1> QED  BY <1>1, <1>5, <1>6, <1>9, <1>10

\* A test that has been run is missing no more.
LEMMA PybotMissing ==
    ASSUME RunnerInv, main # "off", NEW t \in Runner!Thread, NEW k \in {"Create", "Delete"},
           NEW l \in {"Create", "Delete"}, NEW to \in RunnerPlaces,
           number' = number,
           \A f : f # File(t, number[t], k) => (f \in DOMAIN xml' <=> f \in DOMAIN xml),
           runnerPc' = [runnerPc EXCEPT ![t] = to], to \notin Before(k),
           to \in Before(l) => runnerPc[t] \in Before(l)
    PROVE  Missing(l)'
<1>1. /\ runnerPc'[t] = to
      /\ \A u \in Runner!Thread \ {t} : runnerPc'[u] = runnerPc[u]
  BY DEF RunnerInv, RunnerTypes
<1>2. \A u \in Runner!Thread : number[u] \in 1 .. Last
  BY DEF RunnerInv, RunnerTypes
<1>3. Missing(l)
  BY DEF RunnerInv, Fresh
<1> SUFFICES ASSUME NEW u \in Runner!Thread, NEW n \in 1 .. Last,
                    n > number[u] \/ (n = number[u] /\ runnerPc'[u] \in Before(l))
             PROVE  File(u, n, l) \notin DOMAIN xml'
  BY DEF Missing
<1>4. File(u, n, l) \notin DOMAIN xml
  BY <1>1, <1>3 DEF Missing
<1>5. File(u, n, l) # File(t, number[t], k)
  <2>1. ASSUME u = t, n = number[t], k = l
        PROVE  FALSE
    BY <1>1, <1>2, <2>1
  <2> QED  BY <2>1, FilesDiffer
<1> QED  BY <1>4, <1>5

\* A run of pybot writes the file of its thread and keeps those of the others,
\* or writes none.
LEMMA CreateRun ==
    ASSUME RunnerInv, NEW t \in Runner!Thread, Runner!RunCreate(t)
    PROVE  RunnerInv'
<1>1. PICK v \in {"pass", "fail", "none"}, left \in BOOLEAN :
         /\ Runner!Pybot(t, "Create", v)
         /\ volumes' = IF left THEN volumes \cup {<<t, number[t]>>} ELSE volumes
  BY DEF Runner!RunCreate
<1>2. /\ runnerPc[t] = "create" /\ runnerPc' = [runnerPc EXCEPT ![t] = "created"]
      /\ verdict' = [verdict EXCEPT ![t] = v]
      /\ UNCHANGED <<main, number, report>>
  BY <1>1 DEF Runner!RunCreate, Runner!Goto, Runner!Pybot
<1>3. /\ RunnerTypes /\ main \notin {"off", "refused", "report", "done", "died"}
      /\ number[t] \in 1 .. Last
  BY <1>2 DEF RunnerInv, RunnerTypes, Phases, Runner!Ended
<1>4. /\ runnerPc' \in [Runner!Thread -> RunnerPlaces] /\ runnerPc'[t] = "created"
      /\ \A u \in Runner!Thread \ {t} : runnerPc'[u] = runnerPc[u]
  BY <1>2, <1>3 DEF RunnerTypes, RunnerPlaces
<1>5. /\ verdict' \in [Runner!Thread -> {"pass", "fail", "none"}] /\ verdict'[t] = v
      /\ \A u \in Runner!Thread \ {t} : verdict'[u] = verdict[u]
  BY <1>2, <1>3 DEF RunnerTypes
<1>6. /\ volumes' \subseteq Runner!Thread \X (1 .. Last)
      /\ \A u \in Runner!Thread, n \in 1 .. Last : (u # t \/ n # number[t]) =>
            (<<u, n>> \in volumes' <=> <<u, n>> \in volumes)
  BY <1>1, <1>3 DEF RunnerTypes
<1>7. File(t, number[t], "Create") \notin DOMAIN xml
  <2>1. Missing("Create") /\ runnerPc[t] \in Before("Create")
    BY <1>2, <1>3 DEF RunnerInv, Fresh, Before
  <2> QED  BY <1>3, <2>1 DEF Missing
<1>8. /\ \A f \in DOMAIN xml' : xml'[f] \in {"pass", "fail"}
      /\ \A f : f # File(t, number[t], "Create") => (f \in DOMAIN xml' <=> f \in DOMAIN xml)
      /\ Runner!Read(t, "Create")' = v
      /\ \A u \in Runner!Thread \ {t} : Runner!Read(u, "Create")' = Runner!Read(u, "Create")
      /\ \A u \in Runner!Thread \ {t} : Runner!Read(u, "Delete")' = Runner!Read(u, "Delete")
  BY <1>1, <1>7, PybotFile
<1>9. RunnerTypes'
  BY <1>2, <1>3, <1>4, <1>5, <1>6 DEF RunnerTypes
<1>10. FilesRead' /\ Phases'
  BY <1>2, <1>3, <1>8 DEF RunnerInv, FilesRead, Phases, Runner!Ended
<1>11. Fresh'
  <2>1. /\ "created" \in RunnerPlaces /\ "created" \notin Before("Create")
        /\ runnerPc[t] \in Before("Create") /\ runnerPc[t] \in Before("Delete")
    BY <1>2 DEF RunnerPlaces, Before
  <2>2. Missing("Create")' /\ Missing("Delete")'
    BY <1>2, <1>3, <1>8, <2>1, PybotMissing
  <2> QED  BY <2>2 DEF Fresh
<1>12. Runner!VerdictIsOwn'
  BY <1>4, <1>5, <1>8 DEF RunnerInv, Runner!VerdictIsOwn
<1>13. \A u \in Runner!Thread \ {t} : Kept(u)'
  BY <1>2, <1>3, <1>4, <1>5, <1>6, RunnerAssumption DEF RunnerInv, RunnerTypes, Kept
<1>14. Kept(t)'
  <2>1. \A n \in 1 .. Last : n < number[t] => n # number[t]
    BY <1>3
  <2> QED  BY <1>2, <1>3, <1>4, <1>5, <1>6, <2>1 DEF RunnerInv, Kept
<1>15. \A u \in Runner!Thread : Behind(u)'
  <2>1. \A u \in Runner!Thread : \A n :
          File(u, n, "Create") \in DOMAIN xml => File(u, n, "Create") \in DOMAIN xml'
    BY <1>7, <1>8
  <2> QED  BY <1>2, <1>4, <2>1, StillBehind
<1> QED  BY <1>9, <1>10, <1>11, <1>12, <1>13, <1>14, <1>15 DEF RunnerInv

LEMMA DeleteRun ==
    ASSUME RunnerInv, NEW t \in Runner!Thread, Runner!RunDelete(t)
    PROVE  RunnerInv'
<1>1. PICK v \in {"pass", "fail", "none"}, gone \in BOOLEAN :
         /\ v = "pass" => gone
         /\ Runner!Pybot(t, "Delete", v)
         /\ volumes' = IF gone THEN volumes \ {<<t, number[t]>>} ELSE volumes
  BY DEF Runner!RunDelete
<1>2. /\ runnerPc[t] = "delete" /\ runnerPc' = [runnerPc EXCEPT ![t] = "deleted"]
      /\ verdict' = [verdict EXCEPT ![t] = v]
      /\ UNCHANGED <<main, number, report>>
  BY <1>1 DEF Runner!RunDelete, Runner!Goto, Runner!Pybot
<1>3. /\ RunnerTypes /\ main \notin {"off", "refused", "report", "done", "died"}
      /\ number[t] \in 1 .. Last
  BY <1>2 DEF RunnerInv, RunnerTypes, Phases, Runner!Ended
<1>4. /\ runnerPc' \in [Runner!Thread -> RunnerPlaces] /\ runnerPc'[t] = "deleted"
      /\ \A u \in Runner!Thread \ {t} : runnerPc'[u] = runnerPc[u]
  BY <1>2, <1>3 DEF RunnerTypes, RunnerPlaces
<1>5. /\ verdict' \in [Runner!Thread -> {"pass", "fail", "none"}] /\ verdict'[t] = v
      /\ \A u \in Runner!Thread \ {t} : verdict'[u] = verdict[u]
  BY <1>2, <1>3 DEF RunnerTypes
<1>6. /\ volumes' \subseteq Runner!Thread \X (1 .. Last)
      /\ v = "pass" => <<t, number[t]>> \notin volumes'
      /\ \A u \in Runner!Thread, n \in 1 .. Last : (u # t \/ n # number[t]) =>
            (<<u, n>> \in volumes' <=> <<u, n>> \in volumes)
  BY <1>1, <1>3 DEF RunnerTypes
<1>7. File(t, number[t], "Delete") \notin DOMAIN xml
  <2>1. Missing("Delete") /\ runnerPc[t] \in Before("Delete")
    BY <1>2, <1>3 DEF RunnerInv, Fresh, Before
  <2> QED  BY <1>3, <2>1 DEF Missing
<1>8. /\ \A f \in DOMAIN xml' : xml'[f] \in {"pass", "fail"}
      /\ \A f : f # File(t, number[t], "Delete") => (f \in DOMAIN xml' <=> f \in DOMAIN xml)
      /\ Runner!Read(t, "Delete")' = v
      /\ \A u \in Runner!Thread \ {t} : Runner!Read(u, "Create")' = Runner!Read(u, "Create")
      /\ \A u \in Runner!Thread \ {t} : Runner!Read(u, "Delete")' = Runner!Read(u, "Delete")
  BY <1>1, <1>7, PybotFile
<1>9. RunnerTypes'
  BY <1>2, <1>3, <1>4, <1>5, <1>6 DEF RunnerTypes
<1>10. FilesRead' /\ Phases'
  BY <1>2, <1>3, <1>8 DEF RunnerInv, FilesRead, Phases, Runner!Ended
<1>11. Fresh'
  <2>1. /\ "deleted" \in RunnerPlaces /\ "deleted" \notin Before("Create")
        /\ "deleted" \notin Before("Delete")
    BY DEF RunnerPlaces, Before
  <2>2. Missing("Create")' /\ Missing("Delete")'
    BY <1>2, <1>3, <1>8, <2>1, PybotMissing
  <2> QED  BY <2>2 DEF Fresh
<1>12. Runner!VerdictIsOwn'
  BY <1>4, <1>5, <1>8 DEF RunnerInv, Runner!VerdictIsOwn
<1>13. \A u \in Runner!Thread \ {t} : Kept(u)'
  BY <1>2, <1>3, <1>4, <1>5, <1>6, RunnerAssumption DEF RunnerInv, RunnerTypes, Kept
<1>14. Kept(t)'
  <2>1. \A n \in 1 .. Last : n < number[t] => n # number[t]
    BY <1>3
  <2> QED  BY <1>2, <1>3, <1>4, <1>5, <1>6, <2>1 DEF RunnerInv, Kept
<1>15. \A u \in Runner!Thread : Behind(u)'
  <2>1. \A u \in Runner!Thread : \A n :
          File(u, n, "Create") \in DOMAIN xml => File(u, n, "Create") \in DOMAIN xml'
    BY <1>7, <1>8
  <2> QED  BY <1>2, <1>4, <2>1, StillBehind
<1> QED  BY <1>9, <1>10, <1>11, <1>12, <1>13, <1>14, <1>15 DEF RunnerInv

\* A thread moves on, to another place or to another test.
LEMMA ThreadMoves ==
    ASSUME RunnerInv, NEW t \in Runner!Thread, NEW to \in RunnerPlaces, NEW n \in 1 .. Last,
           runnerPc[t] \in {"created", "deleted"}, to \notin {"none", "created", "deleted"},
           runnerPc' = [runnerPc EXCEPT ![t] = to],
           number' = [number EXCEPT ![t] = n],
           n > number[t] \/ (n = number[t] /\ to \notin Before("Create")
                               /\ (to = "delete" => runnerPc[t] = "created")),
           UNCHANGED <<main, xml, verdict, volumes, report>>,
           Kept(t)', Behind(t)'
    PROVE  RunnerInv'
<1>1. /\ runnerPc' \in [Runner!Thread -> RunnerPlaces] /\ runnerPc'[t] = to
      /\ \A u \in Runner!Thread \ {t} : runnerPc'[u] = runnerPc[u]
  BY DEF RunnerInv, RunnerTypes
<1>2. /\ number' \in [Runner!Thread -> 1 .. Last] /\ number'[t] = n
      /\ \A u \in Runner!Thread \ {t} : number'[u] = number[u]
      /\ number[t] \in 1 .. Last
  BY DEF RunnerInv, RunnerTypes
<1>3. main \notin {"off", "refused", "report", "done", "died"}
  BY DEF RunnerInv, Phases, Runner!Ended
<1>4. RunnerTypes' /\ FilesRead' /\ Phases'
  BY <1>1, <1>2, <1>3 DEF RunnerInv, RunnerTypes, FilesRead, Phases
<1>5. ASSUME NEW k \in {"Create", "Delete"}
      PROVE  Missing(k)'
  <2> SUFFICES ASSUME NEW u \in Runner!Thread, NEW m \in 1 .. Last,
                      m > number'[u] \/ (m = number'[u] /\ runnerPc'[u] \in Before(k))
               PROVE  File(u, m, k) \notin DOMAIN xml
    BY DEF Missing
  <2>1. m > number[u] \/ (m = number[u] /\ runnerPc[u] \in Before(k))
    <3>1. CASE u # t
      BY <1>1, <1>2, <3>1
    <3>2. CASE u = t /\ n > number[t]
      BY <1>2, <3>2
    <3>3. CASE u = t /\ n = number[t]
      BY <1>1, <1>2, <3>3 DEF Before, RunnerPlaces
    <3> QED  BY <1>2, <3>1, <3>2, <3>3
  <2>2. Missing(k)
    BY <1>3 DEF RunnerInv, Fresh
  <2> QED  BY <2>1, <2>2 DEF Missing
<1>6. Runner!VerdictIsOwn'
  <2>1. \A u \in Runner!Thread \ {t} : \A k : Runner!Read(u, k)' = Runner!Read(u, k)
    BY <1>2 DEF Runner!OutputFile, Runner!Read
  <2> QED  BY <1>1, <2>1 DEF RunnerInv, Runner!VerdictIsOwn
<1>7. \A u \in Runner!Thread \ {t} : Kept(u)' /\ Behind(u)'
  BY <1>1, <1>2 DEF RunnerInv, Kept, Behind, File
<1> QED  BY <1>4, <1>5, <1>6, <1>7 DEF RunnerInv, Fresh

\* The test of a thread has ended, and it stops.
LEMMA StopStep ==
    ASSUME RunnerInv, NEW t \in Runner!Thread, runnerPc[t] \in {"created", "deleted"},
           NEW v, Runner!Stop(t, v), UNCHANGED <<main, xml, verdict, volumes, report>>
    PROVE  RunnerInv'
<1>1. PICK to \in {"died", "failed"} : runnerPc' = [runnerPc EXCEPT ![t] = to]
  BY DEF Runner!Stop, Runner!Goto
<1>2. PICK n \in 1 .. Last : n = number[t]
  BY DEF RunnerInv, RunnerTypes
<1>3. number' = number /\ number' = [number EXCEPT ![t] = n]
  BY <1>2 DEF RunnerInv, RunnerTypes, Runner!Stop
<1>4. runnerPc'[t] = to
  BY <1>1 DEF RunnerInv, RunnerTypes
<1>5. Kept(t)' /\ Behind(t)'
  BY <1>1, <1>3, <1>4, StillBehind DEF RunnerInv, Kept
<1>6. to \in RunnerPlaces /\ to \notin Before("Create") /\ to \notin {"none", "created", "deleted"}
  BY DEF RunnerPlaces, Before
<1> QED  BY <1>1, <1>2, <1>3, <1>5, <1>6, ThreadMoves

\* It is done with the test, and goes on with the next.
LEMMA NextStep ==
    ASSUME RunnerInv, NEW t \in Runner!Thread, runnerPc[t] \in {"created", "deleted"},
           number[t] \in Deletable => <<t, number[t]>> \notin volumes,
           File(t, number[t], "Create") \in DOMAIN xml,
           Runner!NextCreate(t), UNCHANGED <<main, xml, verdict, volumes, report>>
    PROVE  RunnerInv'
<1>1. number[t] \in 1 .. Last /\ number \in [Runner!Thread -> 1 .. Last] /\ Last \in Nat
  BY RunnerAssumption DEF RunnerInv, RunnerTypes
<1>2. \A m \in 1 .. Last :
         /\ m < number[t] /\ m \in Deletable => <<t, m>> \notin volumes
         /\ m < number[t] => File(t, m, "Create") \in DOMAIN xml
  BY DEF RunnerInv, Kept, Behind
<1>3. CASE number[t] = Last
  <2>1. /\ runnerPc' = [runnerPc EXCEPT ![t] = "passed"] /\ number' = number
        /\ number' = [number EXCEPT ![t] = Last]
    BY <1>1, <1>3 DEF Runner!NextCreate, Runner!Goto
  <2>2. runnerPc'[t] = "passed"
    BY <2>1 DEF RunnerInv, RunnerTypes
  <2>3. Kept(t)' /\ Behind(t)'
    BY <1>2, <1>3, <2>1, <2>2 DEF Kept, Behind, File
  <2>4. "passed" \in RunnerPlaces /\ "passed" \notin Before("Create") /\ Last \in 1 .. Last
    BY <1>1, <1>3 DEF RunnerPlaces, Before
  <2> QED  BY <1>3, <2>1, <2>3, <2>4, ThreadMoves
<1>4. CASE number[t] # Last
  <2>1. PICK n \in 1 .. Last : n = number[t] + 1 /\ n > number[t]
    BY <1>1, <1>4
  <2>2. runnerPc' = [runnerPc EXCEPT ![t] = "create"] /\ number' = [number EXCEPT ![t] = n]
    BY <1>4, <2>1 DEF Runner!NextCreate, Runner!Goto
  <2>3. runnerPc'[t] = "create" /\ number'[t] = n
    BY <1>1, <2>2 DEF RunnerInv, RunnerTypes
  <2>4. \A m \in 1 .. Last : m < n =>
          /\ m \in Deletable => <<t, m>> \notin volumes
          /\ File(t, m, "Create") \in DOMAIN xml
    <3>1. \A m \in 1 .. Last : m < n => m = number[t] \/ m < number[t]
      BY <1>1, <2>1
    <3> QED  BY <1>2, <3>1
  <2>5. Kept(t)' /\ Behind(t)'
    BY <2>3, <2>4 DEF Kept, Behind, File
  <2>6. "create" \in RunnerPlaces
    BY DEF RunnerPlaces
  <2> QED  BY <2>1, <2>2, <2>5, <2>6, ThreadMoves
<1> QED  BY <1>3, <1>4

\* A thread reads the file back and goes on by what it finds.
LEMMA CreateEnds ==
    ASSUME RunnerInv, NEW t \in Runner!Thread, Runner!AfterCreate(t)
    PROVE  RunnerInv'
<1>1. runnerPc[t] = "created" /\ UNCHANGED <<main, xml, verdict, volumes, report>>
  BY DEF Runner!AfterCreate
<1>2. Runner!Read(t, "Create") = verdict[t]
  BY <1>1 DEF RunnerInv, Runner!VerdictIsOwn
<1>3. Runner!Read(t, "Create") = "pass" => File(t, number[t], "Create") \in DOMAIN xml
  BY ReadFile
<1>4. CASE Runner!Read(t, "Create") # "pass"
  <2>1. Runner!Stop(t, Runner!Read(t, "Create"))
    BY <1>4 DEF Runner!AfterCreate
  <2> QED  BY <1>1, <2>1, StopStep
<1>5. CASE Runner!Read(t, "Create") = "pass" /\ number[t] \in Deletable
  <2>1. runnerPc' = [runnerPc EXCEPT ![t] = "delete"] /\ number' = number
    BY <1>5 DEF Runner!AfterCreate, Runner!Goto
  <2>2. PICK n \in 1 .. Last : n = number[t]
    BY DEF RunnerInv, RunnerTypes
  <2>3. number' = [number EXCEPT ![t] = n] /\ runnerPc'[t] = "delete"
    BY <2>1, <2>2 DEF RunnerInv, RunnerTypes
  <2>4. Kept(t)' /\ Behind(t)'
    <3>1. \A m \in 1 .. Last : m < number[t] \/ m = number[t] =>
            File(t, m, "Create") \in DOMAIN xml
      BY <1>3, <1>5 DEF RunnerInv, Behind
    <3> QED  BY <1>1, <1>5, <2>1, <2>3, <3>1 DEF RunnerInv, Kept, Behind, File
  <2>5. "delete" \in RunnerPlaces /\ "delete" \notin Before("Create")
    BY DEF RunnerPlaces, Before
  <2> QED  BY <1>1, <2>1, <2>2, <2>3, <2>4, <2>5, ThreadMoves
<1>6. CASE Runner!Read(t, "Create") = "pass" /\ number[t] \notin Deletable
  <2>1. Runner!NextCreate(t)
    BY <1>6 DEF Runner!AfterCreate
  <2> QED  BY <1>1, <1>3, <1>6, <2>1, NextStep
<1> QED  BY <1>4, <1>5, <1>6

LEMMA DeleteEnds ==
    ASSUME RunnerInv, NEW t \in Runner!Thread, Runner!AfterDelete(t)
    PROVE  RunnerInv'
<1>1. runnerPc[t] = "deleted" /\ UNCHANGED <<main, xml, verdict, volumes, report>>
  BY DEF Runner!AfterDelete
<1>2. Runner!Read(t, "Delete") = verdict[t]
  BY <1>1 DEF RunnerInv, Runner!VerdictIsOwn
<1>3. CASE Runner!Read(t, "Delete") # "pass"
  BY <1>1, <1>3, StopStep DEF Runner!AfterDelete
<1>4. CASE Runner!Read(t, "Delete") = "pass"
  <2>1. Runner!NextCreate(t)
    BY <1>4 DEF Runner!AfterDelete
  <2>2. /\ <<t, number[t]>> \notin volumes
        /\ File(t, number[t], "Create") \in DOMAIN xml
    BY <1>1, <1>2, <1>4 DEF RunnerInv, RunnerTypes, Kept, Behind
  <2> QED  BY <1>1, <2>1, <2>2, NextStep
<1> QED  BY <1>3, <1>4

LEMMA RunnerStep == RunnerInv /\ Runner!Next => RunnerInv'
<1> SUFFICES ASSUME RunnerInv, Runner!Next
             PROVE  RunnerInv'
  OBVIOUS
<1>1. CASE Runner!SetupEnv \/ Runner!Join \/ Runner!GenerateReport
  BY <1>1, SetupStep, ReportStep
<1>2. ASSUME NEW t \in Runner!Thread, Runner!Construct(t) \/ Runner!Start(t)
      PROVE  RunnerInv'
  BY <1>2, ConstructStep, StartStep
<1>3. ASSUME NEW t \in Runner!Thread, Runner!RunTests(t)
      PROVE  RunnerInv'
  BY <1>3, CreateRun, DeleteRun, CreateEnds, DeleteEnds DEF Runner!RunTests
<1> QED  BY <1>1, <1>2, <1>3 DEF Runner!Next, Runner!Main

LEMMA RunnerStays == RunnerInv /\ UNCHANGED runnerVars => RunnerInv'
<1> SUFFICES ASSUME RunnerInv, UNCHANGED runnerVars
             PROVE  RunnerInv'
  OBVIOUS
<1>1. UNCHANGED <<main, runnerPc, number, xml, verdict, volumes, report>>
  BY DEF runnerVars
<1>2. RunnerTypes' /\ FilesRead' /\ Phases'
  BY <1>1 DEF RunnerInv, RunnerTypes, FilesRead, Phases
<1>3. Fresh'
  BY <1>1 DEF RunnerInv, Fresh, Missing
<1>4. Runner!VerdictIsOwn'
  <2>1. \A u, k : Runner!Read(u, k)' = Runner!Read(u, k)
    BY <1>1 DEF Runner!OutputFile, Runner!Read
  <2> QED  BY <1>1, <2>1 DEF RunnerInv, Runner!VerdictIsOwn
<1>5. \A u \in Runner!Thread : Kept(u)' /\ Behind(u)'
  BY <1>1, StillBehind DEF RunnerInv, Kept
<1> QED  BY <1>2, <1>3, <1>4, <1>5 DEF RunnerInv

\* What the inductive invariant of the test runner is for.
LEMMA RunnerSafe ==
    ASSUME RunnerInv
    PROVE  /\ Runner!TypeOK /\ Runner!VerdictIsOwn /\ Runner!CleansUp
           /\ Runner!ReportComplete
<1>1. Runner!TypeOK
  <2>1. {"none", "ready", "create", "created", "delete", "deleted"} \cup Runner!Ended
          = RunnerPlaces
    BY DEF Runner!Ended, RunnerPlaces
  <2>2. report \subseteq DOMAIN xml
    BY DEF RunnerInv, FilesRead
  <2> QED  BY <2>1, <2>2 DEF RunnerInv, RunnerTypes, FilesRead, Runner!TypeOK
<1>2. Runner!CleansUp
  <2> SUFFICES ASSUME NEW t \in Runner!Thread, runnerPc[t] = "passed"
               PROVE  volumes \cap ({t} \X Deletable) = {}
    BY DEF Runner!CleansUp
  <2>1. \A n \in 1 .. Last : n \in Deletable => <<t, n>> \notin volumes
    <3>1. number[t] = Last /\ Last \in Nat
      BY RunnerAssumption DEF RunnerInv, Kept
    <3>2. \A n \in 1 .. Last : n # Last => n < Last
      BY <3>1
    <3> QED  BY <3>1, <3>2 DEF RunnerInv, Kept
  <2>2. volumes \subseteq Runner!Thread \X (1 .. Last)
    BY DEF RunnerInv, RunnerTypes
  <2> QED  BY <2>1, <2>2
<1>3. Runner!ReportComplete
  <2> SUFFICES ASSUME main = "done"
               PROVE  /\ report = DOMAIN xml
                      /\ \A t \in Runner!Thread :
                            /\ runnerPc[t] \in Runner!Ended
                            /\ runnerPc[t] = "passed" => \A n \in 1 .. Last :
                                  <<t[1], t[2], n, "Create">> \in report
    BY DEF Runner!ReportComplete
  <2>1. report = DOMAIN xml /\ \A t \in Runner!Thread : runnerPc[t] \in Runner!Ended
    BY DEF RunnerInv, FilesRead, Phases
  <2>2. ASSUME NEW t \in Runner!Thread, runnerPc[t] = "passed", NEW n \in 1 .. Last
        PROVE  File(t, n, "Create") \in DOMAIN xml
    <3>1. number[t] = Last /\ Last \in Nat
      BY <2>2, RunnerAssumption DEF RunnerInv, Kept
    <3>2. n < number[t] \/ n = number[t]
      BY <3>1
    <3> QED  BY <2>2, <3>2 DEF RunnerInv, Behind
  <2> QED  BY <2>1, <2>2 DEF File
<1> QED  BY <1>1, <1>2, <1>3 DEF RunnerInv

-----------------------------------------------------------------------------
(* VolumeStamps.                                                           *)

\* What is looked for starts in the last m members.
Starts(a, b, m) == Len(a) <= m /\ SubSeq(SubSeq(b, Len(b) - m + 1, Len(b)), 1, Len(a)) = a
Within(a, b, m) == a = <<>> \/ \E k \in 1 .. m : Starts(a, b, k)

\* is_sublist finds an offset at which the first list starts in the second if
\* there is one. The least m for which the two differ would have to differ at
\* m - 1.
LEMMA SublistFound ==
    ASSUME NEW a, NEW b, Len(b) \in Nat
    PROVE  Stamps!is_sublist(a, b) <=> Within(a, b, Len(b))
<1> DEFINE L == Len(b)
           Look(f, m) == \/ a = <<>>
                         \/ /\ m # 0
                            /\ \/ Len(a) <= m
                                  /\ SubSeq(SubSeq(b, Len(b) - m + 1, Len(b)), 1, Len(a)) = a
                               \/ f[m - 1]
           Found == CHOOSE f : f = [m \in 0 .. L |-> Look(f, m)]
           g == [m \in 0 .. L |-> Within(a, b, m)]
<1>1. Stamps!is_sublist(a, b) = Found[L]
  BY DEF Stamps!is_sublist
<1>2. ASSUME NEW m \in 0 .. L
      PROVE  Look(g, m) <=> Within(a, b, m)
  <2>1. CASE m = 0
    BY <2>1 DEF Within
  <2>2. CASE m # 0
    <3>1. m - 1 \in 0 .. L /\ m \in 1 .. m
      BY <1>2, <2>2
    <3>2. g[m - 1] = Within(a, b, m - 1)
      BY <3>1
    <3>3. \A k : k \in 1 .. m <=> k = m \/ k \in 1 .. (m - 1)
      BY <1>2, <2>2
    <3>4. Within(a, b, m) <=> Starts(a, b, m) \/ Within(a, b, m - 1)
      BY <3>1, <3>3, Zenon DEF Within
    <3>5. Look(g, m) <=> \/ a = <<>> \/ Starts(a, b, m) \/ g[m - 1]
      BY <2>2, Zenon DEF Starts
    <3>6. a = <<>> => Within(a, b, m)
      BY DEF Within
    <3> QED  BY <3>2, <3>4, <3>5, <3>6, Zenon
  <2> QED  BY <2>1, <2>2
<1>3. g = [m \in 0 .. L |-> Look(g, m)]
  <2>1. \A m \in 0 .. L : Within(a, b, m) = Look(g, m)
    BY <1>2, Zenon DEF Within
  <2> HIDE DEF Look
  <2> QED  BY <2>1, Zenon
<1>4. Found = [m \in 0 .. L |-> Look(Found, m)]
  <2> HIDE DEF Look, g
  <2> QED  BY <1>3, Zenon
<1> HIDE DEF Found
<1>5. ASSUME NEW m \in 0 .. L, ~(Found[m] <=> Within(a, b, m))
      PROVE  FALSE
  <2> DEFINE F == {k \in 0 .. L : ~(Found[k] <=> Within(a, b, k))}
  <2>1. F \in SUBSET Nat /\ m \in F
    BY <1>5
  <2>2. PICK x \in F : \A y \in F : x <= y
    <3> HIDE DEF F
    <3> QED  BY <2>1, NatLeast
  <2>3. x \in 0 .. L /\ Found[x] = Look(Found, x) /\ ~(Found[x] <=> Within(a, b, x))
    BY <1>4, <2>2
  <2>4. Within(a, b, x) <=> Look(g, x)
    BY <1>2, <2>3
  <2>5. CASE x = 0
    <3>1. Look(Found, x) <=> Look(g, x)
      BY <2>5
    <3> QED  BY <2>3, <2>4, <3>1, Zenon
  <2>6. CASE x # 0
    <3>1. x - 1 \in 0 .. L /\ ~(x <= x - 1)
      BY <2>3, <2>6
    <3>2. Found[x - 1] <=> Within(a, b, x - 1)
      BY <2>2, <3>1
    <3>3. g[x - 1] = Within(a, b, x - 1)
      BY <3>1
    <3>4. Look(Found, x) <=> Look(g, x)
      <4> HIDE DEF g
      <4> QED  BY <3>2, <3>3, Zenon
    <3> QED  BY <2>3, <2>4, <3>4, Zenon
  <2> QED  BY <2>5, <2>6
<1> QED  BY <1>1, <1>5

\* A list that starts in 0 .. MaxStamp - 1 counts on from where it starts.
LEMMA StartsAt ==
    ASSUME NEW b, b = [k \in 1 .. MaxStamp |-> k - 1], NEW m \in 1 .. MaxStamp,
           NEW a \in Seq(Nat)
    PROVE  Starts(a, b, m) <=> /\ Len(a) <= m
                               /\ \A k \in 1 .. Len(a) : a[k] = MaxStamp - m + k - 1
<1>1. b \in Seq(Nat) /\ Len(b) = MaxStamp /\ MaxStamp \in Nat /\ Len(a) \in Nat
  BY StampsAssumption
<1>2. PICK p \in 1 .. MaxStamp : p = MaxStamp - m + 1
  BY <1>1
<1>3. PICK r : r = SubSeq(b, p, MaxStamp)
  OBVIOUS
<1>4. /\ r \in Seq(Nat) /\ Len(r) = m
      /\ \A k \in 1 .. m : r[k] = MaxStamp - m + k - 1
  <2>1. \A k \in p .. MaxStamp : b[k] \in Nat
    BY <1>1, <1>2, ElementOfSeq
  <2>2. /\ r \in Seq(Nat)
        /\ Len(r) = IF p <= MaxStamp THEN MaxStamp - p + 1 ELSE 0
        /\ \A k \in 1 .. MaxStamp - p + 1 : r[k] = b[p + k - 1]
    BY <1>1, <1>2, <1>3, <2>1, SubSeqProperties
  <2>3. /\ p <= MaxStamp /\ MaxStamp - p + 1 = m
        /\ \A k \in 1 .. m : p + k - 1 \in 1 .. MaxStamp /\ p + k - 2 = MaxStamp - m + k - 1
    BY <1>1, <1>2
  <2>4. \A k \in 1 .. m : b[p + k - 1] = p + k - 1 - 1
    <3>1. \A j \in 1 .. MaxStamp : b[j] = j - 1
      OBVIOUS
    <3> SUFFICES ASSUME NEW k \in 1 .. m
                 PROVE  b[p + k - 1] = p + k - 1 - 1
      OBVIOUS
    <3>2. PICK j \in 1 .. MaxStamp : j = p + k - 1
      BY <2>3
    <3> QED  BY ONLY <3>1, <3>2
  <2>5. \A k \in 1 .. m : r[k] = MaxStamp - m + k - 1
    <3> SUFFICES ASSUME NEW k \in 1 .. m
                 PROVE  r[k] = MaxStamp - m + k - 1
      OBVIOUS
    <3>1. r[k] = p + k - 1 - 1
      BY <2>2, <2>3, <2>4
    <3>2. p + k - 1 - 1 = MaxStamp - m + k - 1
      BY <1>1, <1>2
    <3> QED  BY <3>1, <3>2
  <2>6. Len(r) = m
    BY <2>2, <2>3
  <2> QED  BY <2>2, <2>5, <2>6
<1>6. CASE Len(a) <= m
  <2>1. PICK s : s = SubSeq(r, 1, Len(a))
    OBVIOUS
  <2>2. s \in Seq(Nat) /\ Len(s) = Len(a) /\ \A k \in 1 .. Len(a) : s[k] = r[k]
    <3>1. \A k \in 1 .. Len(a) : r[k] \in Nat
      BY <1>1, <1>4, <1>6, ElementOfSeq
    <3>2. /\ s \in Seq(Nat) /\ Len(s) = IF 1 <= Len(a) THEN Len(a) - 1 + 1 ELSE 0
          /\ \A k \in 1 .. Len(a) - 1 + 1 : s[k] = r[1 + k - 1]
      BY <1>1, <2>1, <3>1, SubSeqProperties
    <3> QED  BY <1>1, <3>2
  <2>3. s = a <=> \A k \in 1 .. Len(a) : s[k] = a[k]
    BY <2>2, SeqEqual
  <2>4. \A k \in 1 .. Len(a) : k \in 1 .. m
    BY <1>1, <1>6
  <2>5. Starts(a, b, m) <=> s = a
    BY <1>1, <1>2, <1>3, <1>6, <2>1 DEF Starts
  <2> QED  BY <1>4, <1>6, <2>2, <2>3, <2>4, <2>5
<1>5. CASE ~(Len(a) <= m)
  BY <1>5 DEF Starts
<1> QED  BY <1>5, <1>6

\* check-vol.py accepts exactly the files in which each stamp follows the last.
LEMMA Gapless ==
    ASSUME file \in Seq(Nat)
    PROVE  Stamps!GoodIsGapless
<1>1. PICK b : b = [k \in 1 .. MaxStamp |-> k - 1]
  OBVIOUS
<1>2. Len(b) = MaxStamp /\ MaxStamp \in Nat /\ Len(file) \in Nat
  BY <1>1, StampsAssumption
<1>3. Stamps!check_stamp <=> Within(file, b, MaxStamp)
  BY <1>1, <1>2, SublistFound DEF Stamps!check_stamp
<1>4. \A m \in 1 .. MaxStamp :
         Starts(file, b, m) <=> /\ Len(file) <= m
                                /\ \A k \in 1 .. Len(file) : file[k] = MaxStamp - m + k - 1
  BY <1>1, StartsAt
<1> DEFINE Follow == \A k \in 1 .. Len(file) : file[k] = file[1] + k - 1 /\ file[k] < MaxStamp
<1>5. ASSUME Within(file, b, MaxStamp)
      PROVE  Follow
  <2>1. CASE file = <<>>
    BY <2>1
  <2>2. ASSUME NEW m \in 1 .. MaxStamp, Starts(file, b, m)
        PROVE  Follow
    <3>1. Len(file) <= m /\ \A k \in 1 .. Len(file) : file[k] = MaxStamp - m + k - 1
      BY <1>4, <2>2
    <3>2. \A k \in 1 .. Len(file) : k <= m /\ 1 \in 1 .. Len(file)
      BY <1>2, <3>1
    <3> QED  BY <1>2, <3>1, <3>2
  <2> QED  BY <1>5, <2>1, <2>2 DEF Within
<1>6. ASSUME Follow
      PROVE  Within(file, b, MaxStamp)
  <2>1. CASE Len(file) = 0
    <3>1. file = <<>>
      BY <2>1, EmptySeq
    <3> QED  BY <3>1 DEF Within
  <2>2. CASE Len(file) # 0
    <3>1. 1 \in 1 .. Len(file) /\ Len(file) \in 1 .. Len(file)
      BY <1>2, <2>2
    <3>2. file[1] \in Nat /\ file[1] + Len(file) - 1 < MaxStamp
      BY <1>6, <3>1, ElementOfSeq
    <3>3. PICK m \in 1 .. MaxStamp : m = MaxStamp - file[1] /\ Len(file) <= m
      BY <1>2, <3>1, <3>2
    <3>4. \A k \in 1 .. Len(file) : file[k] = MaxStamp - m + k - 1
      BY <1>2, <1>6, <3>2, <3>3
    <3> QED  BY <1>4, <3>3, <3>4 DEF Within
  <2> QED  BY <2>1, <2>2
<1> QED  BY <1>3, <1>5, <1>6 DEF Stamps!GoodIsGapless

\* The stamps: their number, and, as long as etcd was told of each and nothing
\* was lost, what they are.
StampsBound ==
    /\ key + 1 <= TimeLoop * starts
    /\ stampsPc # "off" =>
          starts # 0 /\ i < TimeLoop /\ stamp <= TimeLoop * (starts - 1) + i

Told ==
    (~cut /\ ~lost) =>
        /\ \A k \in 1 .. Len(file) : file[k] = k - 1
        /\ stampsPc \in {"off", "append"} => key + 1 = Len(file)
        /\ stampsPc = "append" => stamp = Len(file)
        /\ stampsPc = "put" => stamp + 1 = Len(file)

StampsInv == Stamps!TypeOK /\ StampsBound /\ Told

\* What is used of products: the stamps of one more container come on top.
LEMMA Products ==
    ASSUME NEW n \in Nat
    PROVE  /\ TimeLoop * n \in Nat
           /\ TimeLoop * (n + 1) = TimeLoop * n + TimeLoop
           /\ \A m \in Nat : n <= m => TimeLoop * n <= TimeLoop * m
BY StampsAssumption

LEMMA StampsInit == Stamps!Init => StampsInv
<1> SUFFICES ASSUME Stamps!Init
             PROVE  StampsInv
  OBVIOUS
<1>1. /\ file = <<>> /\ key = -1 /\ stampsPc = "off" /\ stamp = 0 /\ i = 0 /\ starts = 0
      /\ cut = FALSE /\ lost = FALSE
  BY DEF Stamps!Init
<1>2. TimeLoop * MaxStarts \in Nat /\ TimeLoop * 0 \in Nat /\ MaxStarts \in Nat
      /\ TimeLoop \in Nat
  BY Products, StampsAssumption
<1>3. file \in Seq(0 .. (TimeLoop * MaxStarts)) /\ Len(file) = 0
  BY <1>1
<1>4. cut \in BOOLEAN /\ lost \in BOOLEAN
  BY <1>1
<1>5. Stamps!TypeOK
  BY <1>1, <1>2, <1>3, <1>4 DEF Stamps!TypeOK
<1>6. StampsBound
  BY <1>1, <1>2 DEF StampsBound
<1>7. Told
  BY <1>1, <1>3 DEF Told
<1> QED  BY <1>5, <1>6, <1>7 DEF StampsInv

\* The most a stamp may be, and what it is below before the containers that
\* are to come.
LEMMA StampTypes ==
    ASSUME StampsInv
    PROVE  /\ file \in Seq(0 .. (TimeLoop * MaxStarts)) /\ Len(file) \in Nat
           /\ key \in -1 .. (TimeLoop * MaxStarts) /\ stampsPc \in {"off", "append", "put"}
           /\ stamp \in 0 .. (TimeLoop * MaxStarts) /\ i \in 0 .. TimeLoop
           /\ starts \in 0 .. MaxStarts /\ TimeLoop \in Nat \ {0} /\ MaxStarts \in Nat
<1>1. file \in Seq(0 .. (TimeLoop * MaxStarts))
  BY DEF StampsInv, Stamps!TypeOK
<1>2. Len(file) \in Nat
  BY <1>1, LenProperties
<1> QED  BY <1>1, <1>2, StampsAssumption DEF StampsInv, Stamps!TypeOK

\* No stamp is beyond those of the containers that were started.
LEMMA StampLimits ==
    ASSUME StampsInv
    PROVE  \E all, top \in Nat :
              /\ all = TimeLoop * MaxStarts /\ top = TimeLoop * starts /\ top <= all
              /\ key \in -1 .. all /\ stamp \in 0 .. all /\ key + 1 <= top
              /\ stampsPc # "off" => stamp + TimeLoop <= top + i /\ i < TimeLoop
<1>1. TimeLoop \in Nat /\ MaxStarts \in Nat /\ starts \in Nat /\ starts <= MaxStarts
  BY StampTypes
<1>2. PICK all \in Nat : all = TimeLoop * MaxStarts
  BY <1>1, Products
<1>3. PICK top \in Nat : top = TimeLoop * starts
  BY <1>1, Products
<1>4. top <= all
  BY <1>1, <1>2, <1>3, Products
<1>5. key \in -1 .. all /\ stamp \in 0 .. all
  BY <1>2, StampTypes
<1>6. key + 1 <= top
  BY <1>3 DEF StampsInv, StampsBound
<1>7. ASSUME stampsPc # "off"
      PROVE  stamp + TimeLoop <= top + i /\ i < TimeLoop
  <2>1. PICK n \in Nat : n = starts - 1 /\ starts = n + 1
    BY <1>1, <1>7 DEF StampsInv, StampsBound
  <2>2. PICK low \in Nat : low = TimeLoop * n
    BY <2>1, Products
  <2>3. stamp <= low + i /\ i < TimeLoop
    BY <1>7, <2>1, <2>2 DEF StampsInv, StampsBound
  <2>4. top = low + TimeLoop
    BY <1>3, <2>1, <2>2, Products
  <2>5. stamp \in Nat /\ i \in Nat
    BY <1>5, StampTypes
  <2> QED  BY ONLY <1>1, <2>2, <2>3, <2>4, <2>5
<1> QED  BY <1>2, <1>3, <1>4, <1>5, <1>6, <1>7

\* The bound again, after a step.
LEMMA BoundStays ==
    ASSUME NEW top \in Nat, NEW n \in Nat \ {0}, starts' = n, top = TimeLoop * n,
           stamp' \in Nat, i' \in Nat, key' + 1 <= top,
           stampsPc' # "off" => stamp' + TimeLoop <= top + i' /\ i' < TimeLoop
    PROVE  StampsBound'
<1>1. PICK m \in Nat : n = m + 1
  BY Products
<1>2. PICK low \in Nat : low = TimeLoop * m
  BY <1>1, Products
<1>3. top = low + TimeLoop
  BY <1>1, <1>2, Products
<1>4. TimeLoop \in Nat
  BY StampsAssumption
<1>5. ASSUME stampsPc' # "off"
      PROVE  stamp' <= low + i' /\ i' < TimeLoop
  <2>1. stamp' + TimeLoop <= top + i' /\ i' < TimeLoop
    BY <1>5
  <2>2. stamp' \in Nat /\ i' \in Nat /\ low \in Nat
    OBVIOUS
  <2>3. PICK st, wr \in Nat : st = stamp' /\ wr = i'
    BY <2>2
  <2>4. st + TimeLoop <= low + TimeLoop + wr /\ wr < TimeLoop
    BY <1>3, <2>1, <2>3
  <2>5. st <= low + wr
    BY ONLY <1>4, <2>4
  <2> QED  BY <2>1, <2>3, <2>5
<1>6. starts' - 1 = m /\ starts' # 0
  BY <1>1
<1> QED  BY <1>2, <1>5, <1>6 DEF StampsBound

\* A container starts, appends, tells etcd, is killed; the volume loses stamps.
LEMMA ContainerStarts == StampsInv /\ Stamps!StartContainer => StampsInv'
<1> SUFFICES ASSUME StampsInv, Stamps!StartContainer
             PROVE  StampsInv'
  OBVIOUS
<1>1. /\ stampsPc = "off" /\ starts < MaxStarts /\ starts' = starts + 1
      /\ (stamp' = key + 1 /\ cut' = cut) \/ (stamp' = 0 /\ cut' = TRUE)
      /\ i' = 0 /\ stampsPc' = "append" /\ UNCHANGED <<file, key, lost>>
  BY DEF Stamps!StartContainer
<1>2. PICK all, top \in Nat :
         /\ all = TimeLoop * MaxStarts /\ top = TimeLoop * starts /\ top <= all
         /\ key \in -1 .. all /\ key + 1 <= top
  BY StampLimits
<1>3. starts \in Nat /\ starts' \in 0 .. MaxStarts /\ starts' \in Nat \ {0}
  BY <1>1, StampTypes
<1>4. PICK new \in Nat : new = TimeLoop * starts' /\ new = top + TimeLoop
  BY <1>1, <1>2, <1>3, Products
<1>5. stamp' \in 0 .. all /\ stamp' <= top
  BY ONLY <1>1, <1>2
<1>6. TimeLoop \in Nat \ {0} /\ 0 \in 0 .. TimeLoop
  BY StampsAssumption
<1>7. cut' \in BOOLEAN /\ lost' \in BOOLEAN
  BY <1>1, Zenon DEF StampsInv, Stamps!TypeOK
<1>8. Stamps!TypeOK'
  BY <1>1, <1>2, <1>3, <1>5, <1>6, <1>7 DEF StampsInv, Stamps!TypeOK
<1>9. StampsBound'
  <2>1. /\ key' + 1 <= new /\ stamp' \in Nat /\ i' \in Nat
        /\ stamp' + TimeLoop <= new + i' /\ i' < TimeLoop
    BY ONLY <1>1, <1>2, <1>4, <1>5, <1>6
  <2> QED  BY <1>3, <1>4, <2>1, BoundStays
<1>10. Told'
  BY <1>1 DEF StampsInv, Told
<1> QED  BY <1>8, <1>9, <1>10 DEF StampsInv

LEMMA StampAppended == StampsInv /\ Stamps!AppendStamp => StampsInv'
<1> SUFFICES ASSUME StampsInv, Stamps!AppendStamp
             PROVE  StampsInv'
  OBVIOUS
<1>1. /\ stampsPc = "append" /\ file' = Append(file, stamp) /\ stampsPc' = "put"
      /\ UNCHANGED <<key, stamp, i, starts, cut, lost>>
  BY DEF Stamps!AppendStamp
<1>2. PICK n \in Nat : n = Len(file)
  BY StampTypes
<1>3. /\ file' \in Seq(0 .. (TimeLoop * MaxStarts)) /\ Len(file') = n + 1
      /\ \A k \in 1 .. n : file'[k] = file[k]
      /\ file'[n + 1] = stamp
  BY <1>1, <1>2, StampTypes, AppendProperties
<1>4. Stamps!TypeOK'
  BY <1>1, <1>3 DEF StampsInv, Stamps!TypeOK
<1>5. StampsBound'
  BY <1>1 DEF StampsInv, StampsBound
<1>6. Told'
  <2> SUFFICES ASSUME ~cut, ~lost
               PROVE  /\ \A k \in 1 .. n + 1 : file'[k] = k - 1
                      /\ stamp + 1 = n + 1
    BY <1>1, <1>3 DEF Told
  <2>1. stamp = n /\ \A k \in 1 .. n : file[k] = k - 1
    BY <1>1, <1>2 DEF StampsInv, Told
  <2>2. \A k \in 1 .. n + 1 : k \in 1 .. n \/ (k = n + 1 /\ k - 1 = n)
    BY <1>2
  <2> QED  BY ONLY <1>2, <1>3, <2>1, <2>2
<1> QED  BY <1>4, <1>5, <1>6 DEF StampsInv

LEMMA StampPut == StampsInv /\ Stamps!PutStamp => StampsInv'
<1> SUFFICES ASSUME StampsInv, Stamps!PutStamp
             PROVE  StampsInv'
  OBVIOUS
<1>1. /\ stampsPc = "put"
      /\ (key' = stamp /\ cut' = cut) \/ (key' = key /\ cut' = TRUE)
      /\ stamp' = stamp + 1 /\ i' = i + 1
      /\ stampsPc' = IF i' = TimeLoop THEN "off" ELSE "append"
      /\ UNCHANGED <<file, starts, lost>>
  BY DEF Stamps!PutStamp
<1>2. PICK all, top \in Nat :
         /\ all = TimeLoop * MaxStarts /\ top = TimeLoop * starts /\ top <= all
         /\ key \in -1 .. all /\ stamp \in 0 .. all /\ key + 1 <= top
         /\ stamp + TimeLoop <= top + i /\ i < TimeLoop
  BY <1>1, StampLimits
<1>3. i \in Nat /\ TimeLoop \in Nat \ {0} /\ starts \in Nat
  BY StampTypes
<1>4. starts # 0
  BY <1>1 DEF StampsInv, StampsBound
<1>5. /\ stamp' \in 0 .. all /\ stamp' + TimeLoop <= top + i' /\ i' \in 0 .. TimeLoop
      /\ key' \in -1 .. all /\ key' + 1 <= top
      /\ stampsPc' # "off" => i' < TimeLoop
  BY ONLY <1>1, <1>2, <1>3
<1>6. cut' \in BOOLEAN /\ lost' \in BOOLEAN
  BY <1>1, Zenon DEF StampsInv, Stamps!TypeOK
<1>7. stampsPc' \in {"off", "append", "put"}
  BY <1>1
<1>8. Stamps!TypeOK'
  BY <1>1, <1>2, <1>5, <1>6, <1>7 DEF StampsInv, Stamps!TypeOK
<1>9. StampsBound'
  <2>1. PICK n \in Nat \ {0} : n = starts /\ starts' = n
    BY <1>1, <1>3, <1>4
  <2>2. top = TimeLoop * n
    BY <1>2, <2>1
  <2>3. stamp' \in Nat /\ i' \in Nat
    BY ONLY <1>2, <1>3, <1>5
  <2> QED  BY ONLY <1>5, <2>1, <2>2, <2>3, BoundStays
<1>10. Told'
  BY <1>1, <1>2, StampTypes DEF StampsInv, Told
<1> QED  BY <1>8, <1>9, <1>10 DEF StampsInv

LEMMA ContainerKilled == StampsInv /\ Stamps!Kill => StampsInv'
<1> SUFFICES ASSUME StampsInv, Stamps!Kill
             PROVE  StampsInv'
  OBVIOUS
<1>1. /\ stampsPc \in {"append", "put"} /\ stampsPc' = "off"
      /\ cut' = (cut \/ stampsPc = "put")
      /\ UNCHANGED <<file, key, stamp, i, starts, lost>>
  BY DEF Stamps!Kill
<1>2. cut' \in BOOLEAN
  BY <1>1
<1>3. Stamps!TypeOK'
  BY <1>1, <1>2 DEF StampsInv, Stamps!TypeOK
<1>4. StampsBound'
  BY <1>1 DEF StampsInv, StampsBound
<1>5. Told'
  BY <1>1 DEF StampsInv, Told
<1> QED  BY <1>3, <1>4, <1>5 DEF StampsInv

LEMMA StampsLost == StampsInv /\ Stamps!Lose => StampsInv'
<1> SUFFICES ASSUME StampsInv, Stamps!Lose
             PROVE  StampsInv'
  OBVIOUS
<1>1. lost' = TRUE /\ UNCHANGED <<key, stampsPc, stamp, i, starts, cut>>
  BY DEF Stamps!Lose
<1>2. PICK a \in 1 .. Len(file), b \in 1 .. Len(file) :
         file' = SubSeq(file, 1, a - 1) \o SubSeq(file, b + 1, Len(file))
  BY DEF Stamps!Lose
<1> DEFINE S == 0 .. (TimeLoop * MaxStarts)
<1>3. file \in Seq(S) /\ Len(file) \in Nat /\ \A k \in 1 .. Len(file) : file[k] \in S
  BY StampTypes, ElementOfSeq
<1>4. SubSeq(file, 1, a - 1) \in Seq(S)
  <2>1. \A k \in 1 .. a - 1 : file[k] \in S
    BY <1>3
  <2> HIDE DEF S
  <2> QED  BY <1>3, <2>1, SubSeqProperties
<1>5. SubSeq(file, b + 1, Len(file)) \in Seq(S)
  <2>1. \A k \in b + 1 .. Len(file) : file[k] \in S
    BY <1>3
  <2> HIDE DEF S
  <2> QED  BY <1>3, <2>1, SubSeqProperties
<1>6. file' \in Seq(S)
  <2> HIDE DEF S
  <2> QED  BY <1>2, <1>4, <1>5, ConcatProperties
<1>7. Stamps!TypeOK'
  <2>1. cut' \in BOOLEAN /\ lost' \in BOOLEAN
    BY <1>1, Zenon DEF StampsInv, Stamps!TypeOK
  <2> QED  BY <1>1, <1>6, <2>1 DEF StampsInv, Stamps!TypeOK
<1>8. StampsBound'
  BY <1>1 DEF StampsInv, StampsBound
<1>9. Told'
  BY <1>1 DEF Told
<1> QED  BY <1>7, <1>8, <1>9 DEF StampsInv

LEMMA StampsStep == StampsInv /\ Stamps!Next => StampsInv'
BY ContainerStarts, StampAppended, StampPut, ContainerKilled, StampsLost DEF Stamps!Next

LEMMA StampsStay == StampsInv /\ UNCHANGED stampsVars => StampsInv'
BY DEF StampsInv, Stamps!TypeOK, StampsBound, Told, stampsVars

\* What the inductive invariant of the stamps is for.
LEMMA StampsSafe ==
    ASSUME StampsInv
    PROVE  Stamps!TypeOK /\ Stamps!GoodIsGapless /\ Stamps!NoFalseAlarm
<1>1. file \in Seq(Nat)
  <2>1. file \in Seq(0 .. (TimeLoop * MaxStarts)) /\ 0 .. (TimeLoop * MaxStarts) \subseteq Nat
    BY StampTypes
  <2> QED  BY <2>1, SeqMonotonic
<1>2. Stamps!GoodIsGapless
  BY <1>1, Gapless
<1>3. ASSUME ~cut, ~lost, Len(file) <= MaxStamp
      PROVE  Stamps!check_stamp
  <2>1. \A k \in 1 .. Len(file) : file[k] = k - 1
    BY <1>3 DEF StampsInv, Told
  <2>2. \A k \in 1 .. Len(file) : file[k] = file[1] + k - 1 /\ file[k] < MaxStamp
    <3> SUFFICES ASSUME NEW k \in 1 .. Len(file)
                 PROVE  file[k] = file[1] + k - 1 /\ file[k] < MaxStamp
      OBVIOUS
    <3>1. 1 \in 1 .. Len(file) /\ k <= MaxStamp /\ MaxStamp \in Nat
      BY <1>3, StampTypes, StampsAssumption
    <3>2. file[1] = 0 /\ file[k] = k - 1
      BY <2>1, <3>1
    <3> QED  BY <3>1, <3>2, StampTypes
  <2> QED  BY <1>2, <2>2 DEF Stamps!GoodIsGapless
<1> QED  BY <1>2, <1>3 DEF StampsInv, Stamps!NoFalseAlarm

-----------------------------------------------------------------------------
(* ScsiHooks.                                                              *)

\* The first of some slots is one of them, and 0 stands for none.
LEMMA FirstSlot ==
    ASSUME NEW S \in SUBSET Hooks!Slot
    PROVE  /\ S = {} => Hooks!First(S) = 0
           /\ S # {} => Hooks!First(S) \in S
           /\ Hooks!First(S) \in 0 .. LastSlot
           /\ Hooks!First(S) # 0 <=> S # {}
<1>1. S \subseteq 1 .. LastSlot /\ S \subseteq Nat /\ LastSlot \in Nat
  BY DiskAssumption DEF Hooks!Slot
<1>2. S # {} => Hooks!Min(S) \in S
  BY <1>1, NatLeast DEF Hooks!Min
<1>3. CASE S = {}
  BY <1>1, <1>3 DEF Hooks!First
<1>4. CASE S # {}
  <2>1. Hooks!First(S) \in S
    BY <1>2, <1>4 DEF Hooks!First
  <2>2. Hooks!First(S) \in 1 .. LastSlot
    BY <1>1, <2>1
  <2> QED  BY <1>1, <1>4, <2>1, <2>2
<1> QED  BY <1>3, <1>4

\* The functions of the template.
Names == {"slave_configure", "slave_destroy", "queuecommand", "eh_timed_out"}

\* The four functions of the template are replaced one by one, each once.
LEMMA FunctionNames ==
    /\ DOMAIN Hooks!Function = 1 .. 4
    /\ Hooks!Function[1] = "slave_configure" /\ Hooks!Function[2] = "slave_destroy"
    /\ Hooks!Function[3] = "queuecommand" /\ Hooks!Function[4] = "eh_timed_out"
    /\ \A k \in 1 .. 4 : Hooks!Function[k] \in Names
    /\ \A f \in Names : \E k \in 1 .. 4 : f = Hooks!Function[k]
    /\ \A j, k \in 1 .. 4 : Hooks!Function[j] = Hooks!Function[k] => j = k
BY DEF Hooks!Function, Names

LEMMA Templates == \A who : Hooks!Template(who) = [f \in Names |-> who]
<1>1. {Hooks!Function[k] : k \in DOMAIN Hooks!Function} = Names
  <2>1. DOMAIN Hooks!Function = 1 .. 4
    BY FunctionNames
  <2>2. {Hooks!Function[k] : k \in 1 .. 4} \subseteq Names
    BY FunctionNames
  <2>3. Names \subseteq {Hooks!Function[k] : k \in 1 .. 4}
    BY FunctionNames
  <2> QED  BY <2>1, <2>2, <2>3
<1> QED  BY <1>1 DEF Hooks!Template

\* Disks have a host, and Nobody is none of them.
LEMMA DiskHost ==
    /\ \A d \in Hooks!Disk : d[1] \in 0 .. LastHost /\ d[1] \in Nat
    /\ Hooks!Nobody \notin Hooks!Disk
<1>1. \A d \in Hooks!Disk : d[1] \in 0 .. LastHost /\ d[1] \in Nat
  BY DiskAssumption DEF Hooks!Disk
<1>2. ASSUME Hooks!Nobody \in Hooks!Disk
      PROVE  FALSE
  <2>1. PICK h \in 0 .. LastHost, t \in Target : <<>> = <<h, t>>
    BY <1>2 DEF Hooks!Disk, Hooks!Nobody
  <2>2. Len(<<>>) = 0 /\ Len(<<h, t>>) = 2
    OBVIOUS
  <2> QED  BY <2>1, <2>2
<1> QED  BY <1>1, <1>2

\* Where the replacement of the functions stands, what was saved, and what
\* host_recovery_funcs has put back.
ScanPlaces == {"off", "save", "replace", "devices", "add", "cut", "over"}
Scans == [pc : ScanPlaces, host : 0 .. LastHost, step : 0 .. 5, slot : 0 .. LastSlot,
          sdev : Hooks!Disk \cup {Hooks!Nobody}, seen : SUBSET Hooks!Disk]

HookTypes ==
    /\ hostt \in [Names -> {"driver", "nvdisk"}]
    /\ old \in [Names -> {"none", "driver"}]
    /\ replace_done \in BOOLEAN /\ limited \in BOOLEAN
    /\ unhook \in 0 .. 5
    /\ scan \in Scans

Replaced(k) == replace_done \/ (scan.pc = "replace" /\ k < scan.step)

Hooking ==
    /\ unhook # 0 => limited /\ replace_done
    /\ scan.pc \in {"off", "replace"} => ~replace_done
    /\ scan.pc \in {"devices", "add", "cut"} => replace_done
    /\ scan.pc = "over" => replace_done \/ limited
    /\ scan.pc = "replace" => scan.step # 0
    /\ replace_done \/ scan.pc = "replace" => \A f \in Names : old[f] = "driver"
    /\ scan.pc \in {"off", "save"} /\ ~replace_done =>
          \A f \in Names : hostt[f] = "driver"
    /\ \A k \in 1 .. 4 : k < unhook => hostt[Hooks!Function[k]] = "driver"
    /\ ~limited => \A k \in 1 .. 4 : Replaced(k) => hostt[Hooks!Function[k]] = "nvdisk"
    /\ ~replace_done => scan.host = 0 /\ scan.seen = {}

HookInv == HookTypes /\ Hooking

\* The template with one function changed.
LEMMA HosttChange ==
    ASSUME HookTypes, NEW k \in 1 .. 4, NEW who \in {"driver", "nvdisk"},
           hostt' = [hostt EXCEPT ![Hooks!Function[k]] = who]
    PROVE  /\ hostt' \in [Names -> {"driver", "nvdisk"}]
           /\ \A j \in 1 .. 4 :
                 hostt'[Hooks!Function[j]] = IF j = k THEN who ELSE hostt[Hooks!Function[j]]
<1>1. PICK f \in Names : f = Hooks!Function[k]
  BY FunctionNames
<1>2. hostt' = [hostt EXCEPT ![f] = who] /\ hostt \in [Names -> {"driver", "nvdisk"}]
  BY <1>1 DEF HookTypes
<1>3. /\ hostt' \in [Names -> {"driver", "nvdisk"}]
      /\ \A g \in Names : hostt'[g] = IF g = f THEN who ELSE hostt[g]
  BY <1>2
<1>4. \A j \in 1 .. 4 : Hooks!Function[j] \in Names /\ (Hooks!Function[j] = f <=> j = k)
  BY <1>1, FunctionNames
<1> QED  BY <1>3, <1>4

\* The fields of the record of the scan, and what records there are.
LEMMA ScanFields ==
    ASSUME scan \in Scans
    PROVE  /\ scan.pc \in ScanPlaces /\ scan.host \in 0 .. LastHost /\ scan.step \in 0 .. 5
           /\ scan.host \in Nat /\ scan.slot \in 0 .. LastSlot
           /\ scan.sdev \in Hooks!Disk \cup {Hooks!Nobody} /\ scan.seen \subseteq Hooks!Disk
           /\ \A l \in ScanPlaces, n \in 0 .. LastHost, m \in 0 .. 5, s \in 0 .. LastSlot,
                 d \in Hooks!Disk \cup {Hooks!Nobody}, S \in SUBSET Hooks!Disk :
                    [pc |-> l, host |-> n, step |-> m, slot |-> s, sdev |-> d, seen |-> S]
                       \in Scans
BY DiskAssumption DEF Scans

LEMMA HookInit == Hooks!Init => HookInv
<1> SUFFICES ASSUME Hooks!Init
             PROVE  HookInv
  OBVIOUS
<1>1. hostt = [f \in Names |-> "driver"] /\ old = [f \in Names |-> "none"]
  BY Templates DEF Hooks!Init
<1>2. scan \in Scans /\ scan.pc = "off" /\ scan.host = 0 /\ scan.seen = {}
  BY DiskAssumption DEF Hooks!Init, Scans, ScanPlaces
<1>3. HookTypes
  <2>1. hostt \in [Names -> {"driver", "nvdisk"}] /\ old \in [Names -> {"none", "driver"}]
    BY ONLY <1>1
  <2>2. replace_done = FALSE /\ limited = FALSE /\ unhook = 0
    BY DEF Hooks!Init
  <2>3. 0 \in 0 .. 5
    OBVIOUS
  <2> QED  BY <1>2, <2>1, <2>2, <2>3, Zenon DEF HookTypes
<1>4. Hooking
  <2>1. \A f \in Names : hostt[f] = "driver"
    BY <1>1
  <2>2. \A k \in 1 .. 4 : ~Replaced(k)
    BY <1>2 DEF Hooks!Init, Replaced
  <2> QED  BY <1>2, <2>1, <2>2 DEF Hooks!Init, Hooking
<1> QED  BY <1>3, <1>4 DEF HookInv

\* The steps that save, replace and put back functions.
LEMMA StartHooks == HookInv /\ Hooks!Start => HookInv'
<1> SUFFICES ASSUME HookInv, Hooks!Start
             PROVE  HookInv'
  OBVIOUS
<1>1. PICK l \in {"over", "save"} : /\ scan' = [scan EXCEPT !.pc = l]
                                    /\ l = "over" => limited
  BY DEF Hooks!Start
<1>2. /\ scan' \in Scans /\ scan'.pc = l /\ scan'.host = scan.host
      /\ scan'.seen = scan.seen
  BY <1>1 DEF HookInv, HookTypes, Scans, ScanPlaces
<1>3. UNCHANGED <<hostt, old, replace_done, limited, unhook>> /\ scan.pc = "off"
  BY DEF Hooks!Start
<1>4. HookTypes'
  BY <1>2, <1>3 DEF HookInv, HookTypes
<1>5. ~replace_done /\ \A f \in Names : hostt[f] = "driver"
  BY <1>3 DEF HookInv, Hooking
<1>6. \A k \in 1 .. 4 : ~Replaced(k)'
  BY <1>2, <1>3, <1>5 DEF Replaced
<1>7. Hooking'
  BY <1>1, <1>2, <1>3, <1>5, <1>6 DEF HookInv, Hooking
<1> QED  BY <1>4, <1>7 DEF HookInv

LEMMA SaveHooks == HookInv /\ Hooks!Save => HookInv'
<1> SUFFICES ASSUME HookInv, Hooks!Save
             PROVE  HookInv'
  OBVIOUS
<1>1. UNCHANGED <<hostt, replace_done, limited, unhook>> /\ scan.pc = "save"
  BY DEF Hooks!Save
<1>2. CASE replace_done
  <2>1. scan' = [scan EXCEPT !.pc = "devices"] /\ old' = old
    BY <1>2 DEF Hooks!Save
  <2>2. scan' \in Scans /\ scan'.pc = "devices"
    BY <2>1 DEF HookInv, HookTypes, Scans, ScanPlaces
  <2>3. HookTypes'
    BY <1>1, <2>1, <2>2 DEF HookInv, HookTypes
  <2>4. \A k \in 1 .. 4 : Replaced(k)
    BY <1>2 DEF Replaced
  <2>5. Hooking'
    BY <1>1, <1>2, <2>1, <2>2, <2>4 DEF HookInv, Hooking
  <2> QED  BY <2>3, <2>5 DEF HookInv
<1>3. CASE ~replace_done
  <2>1. scan' = [scan EXCEPT !.pc = "replace", !.step = 1] /\ old' = hostt
    BY <1>3 DEF Hooks!Save
  <2>2. /\ scan' \in Scans /\ scan'.pc = "replace" /\ scan'.step = 1
        /\ scan'.host = scan.host /\ scan'.seen = scan.seen
    <3>1. 1 \in 0 .. 5 /\ "replace" \in ScanPlaces
      BY DEF ScanPlaces
    <3> QED  BY <2>1, <3>1 DEF HookInv, HookTypes, Scans
  <2>3. \A f \in Names : hostt[f] = "driver"
    BY <1>1, <1>3 DEF HookInv, Hooking
  <2>4. HookTypes'
    BY <1>1, <2>1, <2>2, <2>3 DEF HookInv, HookTypes
  <2>5. \A k \in 1 .. 4 : ~Replaced(k)'
    BY <1>1, <1>3, <2>2 DEF Replaced
  <2>6. Hooking'
    BY <1>1, <1>3, <2>1, <2>2, <2>3, <2>5 DEF HookInv, Hooking
  <2> QED  BY <2>4, <2>6 DEF HookInv
<1> QED  BY <1>2, <1>3

LEMMA ReplaceHooks == HookInv /\ Hooks!Replace => HookInv'
<1> SUFFICES ASSUME HookInv, Hooks!Replace
             PROVE  HookInv'
  OBVIOUS
<1>1. /\ UNCHANGED <<old, limited, unhook>> /\ scan.pc = "replace"
      /\ ~replace_done /\ unhook = 0 /\ scan.step # 0 /\ scan.step \in 0 .. 5
      /\ scan.host = 0 /\ scan.seen = {}
      /\ \A f \in Names : old[f] = "driver"
  BY ScanFields DEF Hooks!Replace, HookInv, HookTypes, Hooking
<1>2. ~limited => \A k \in 1 .. 4 : k < scan.step => hostt[Hooks!Function[k]] = "nvdisk"
  BY <1>1 DEF HookInv, Hooking, Replaced
<1>3. CASE scan.step \in 1 .. 4
  <2>1. /\ hostt' = [hostt EXCEPT ![Hooks!Function[scan.step]] = "nvdisk"]
        /\ scan' = [scan EXCEPT !.step = @ + 1] /\ replace_done' = replace_done
    BY <1>3, FunctionNames DEF Hooks!Replace
  <2>2. /\ scan' \in Scans /\ scan'.pc = "replace" /\ scan'.step = scan.step + 1
        /\ scan'.host = 0 /\ scan'.seen = {}
    <3>1. scan.step + 1 \in 0 .. 5
      BY <1>3
    <3>2. scan' = [scan EXCEPT !.step = scan.step + 1]
      BY <2>1 DEF HookInv, HookTypes, Scans
    <3> HIDE DEF HookInv
    <3> QED  BY <1>1, <3>1, <3>2 DEF HookInv, HookTypes, Scans
  <2>3. /\ hostt' \in [Names -> {"driver", "nvdisk"}]
        /\ \A j \in 1 .. 4 : hostt'[Hooks!Function[j]]
                               = IF j = scan.step THEN "nvdisk" ELSE hostt[Hooks!Function[j]]
    BY <1>3, <2>1, HosttChange DEF HookInv
  <2>4. HookTypes'
    BY <1>1, <2>1, <2>2, <2>3 DEF HookInv, HookTypes
  <2>5. ~limited => \A k \in 1 .. 4 :
                      k < scan.step + 1 => hostt'[Hooks!Function[k]] = "nvdisk"
    BY <1>2, <1>3, <2>3
  <2>6. ~limited' => \A k \in 1 .. 4 : Replaced(k)' => hostt'[Hooks!Function[k]] = "nvdisk"
    BY <1>1, <2>1, <2>2, <2>5 DEF Replaced
  <2>7. scan'.step # 0
    BY <1>3, <2>2
  <2>8. \A k \in 1 .. 4 : ~(k < unhook')
    BY <1>1
  <2>9. Hooking'
    BY <1>1, <2>1, <2>2, <2>6, <2>7, <2>8 DEF Hooking
  <2> QED  BY <2>4, <2>9 DEF HookInv
<1>4. CASE scan.step \notin 1 .. 4
  <2>1. hostt' = hostt /\ scan' = [scan EXCEPT !.pc = "devices"] /\ replace_done' = TRUE
    BY <1>4, FunctionNames DEF Hooks!Replace
  <2>2. scan.step = 5
    BY <1>1, <1>4
  <2>3. scan' \in Scans /\ scan'.pc = "devices"
    BY <2>1 DEF HookInv, HookTypes, Scans, ScanPlaces
  <2>4. HookTypes'
    BY <1>1, <2>1, <2>3 DEF HookInv, HookTypes
  <2>5. ~limited' => \A k \in 1 .. 4 : hostt'[Hooks!Function[k]] = "nvdisk"
    BY <1>1, <1>2, <2>1, <2>2
  <2>6. \A k \in 1 .. 4 : ~(k < unhook')
    BY <1>1
  <2>7. Hooking'
    BY <1>1, <2>1, <2>3, <2>5, <2>6 DEF Hooking
  <2> QED  BY <2>4, <2>7 DEF HookInv
<1> QED  BY <1>3, <1>4

\* Once the functions are replaced the scan leaves them alone.
LEMMA ScanHooks ==
    ASSUME HookInv, scan.pc \in {"devices", "add"}, scan' \in Scans,
           scan'.pc \in ScanPlaces \ {"off", "replace"},
           UNCHANGED <<hostt, old, replace_done, limited, unhook>>
    PROVE  HookInv'
<1>1. replace_done
  BY DEF HookInv, Hooking
<1>2. HookTypes'
  BY DEF HookInv, HookTypes
<1>3. \A k \in 1 .. 4 : Replaced(k)
  BY <1>1 DEF Replaced
<1>4. Hooking'
  BY <1>1, <1>3 DEF HookInv, Hooking
<1> QED  BY <1>2, <1>4 DEF HookInv

LEMMA LimitedHooks == HookInv /\ Hooks!limited_set => HookInv'
<1> SUFFICES ASSUME HookInv, Hooks!limited_set
             PROVE  HookInv'
  OBVIOUS
<1>1. /\ limited' = TRUE /\ unhook' = IF replace_done THEN 1 ELSE 0
      /\ UNCHANGED <<hostt, old, replace_done, scan>>
  BY DEF Hooks!limited_set
<1>2. \A k \in 1 .. 4 : ~(k < unhook')
  BY <1>1
<1>3. HookTypes'
  BY <1>1 DEF HookInv, HookTypes
<1>4. Hooking'
  BY <1>1, <1>2 DEF HookInv, Hooking
<1> QED  BY <1>3, <1>4 DEF HookInv

LEMMA RecoverHooks == HookInv /\ Hooks!Recover => HookInv'
<1> SUFFICES ASSUME HookInv, Hooks!Recover
             PROVE  HookInv'
  OBVIOUS
<1>1. /\ unhook \in 1 .. 4 /\ unhook' = unhook + 1
      /\ hostt' = [hostt EXCEPT ![Hooks!Function[unhook]] = old[Hooks!Function[unhook]]]
      /\ UNCHANGED <<old, replace_done, scan, limited>>
  BY FunctionNames DEF Hooks!Recover
<1>2. limited /\ replace_done /\ \A f \in Names : old[f] = "driver"
  BY <1>1 DEF HookInv, Hooking
<1>3. old[Hooks!Function[unhook]] = "driver"
  BY <1>1, <1>2, FunctionNames
<1>4. /\ hostt' \in [Names -> {"driver", "nvdisk"}]
      /\ \A j \in 1 .. 4 : hostt'[Hooks!Function[j]]
                             = IF j = unhook THEN "driver" ELSE hostt[Hooks!Function[j]]
  BY <1>1, <1>3, HosttChange DEF HookInv
<1>5. HookTypes'
  BY <1>1, <1>4 DEF HookInv, HookTypes
<1>6. \A k \in 1 .. 4 : k < unhook => hostt[Hooks!Function[k]] = "driver"
  BY DEF HookInv, Hooking
<1>7. \A k \in 1 .. 4 : k < unhook' => hostt'[Hooks!Function[k]] = "driver"
  BY <1>1, <1>4, <1>6
<1>8. /\ scan.pc \notin {"off", "replace"}
      /\ scan.pc \in {"off", "save"} /\ ~replace_done => FALSE
  BY <1>2 DEF HookInv, Hooking
<1>9. Hooking'
  BY <1>1, <1>2, <1>7, <1>8 DEF HookInv, Hooking
<1> QED  BY <1>5, <1>9 DEF HookInv

\* The slots: what they hold, who is on the way to one, and, unless a
\* registration went wrong, one for each disk that is known to be there.
DiskStates == {"absent", "new", "adding", "refused", "present"}
Entries == [used : BOOLEAN, sdev : Hooks!Disk \cup {Hooks!Nobody}]

SlotTypes ==
    /\ disk \in [Hooks!Disk -> DiskStates]
    /\ found \in [Hooks!Disk -> 0 .. LastSlot]
    /\ pool \in [Hooks!Slot -> Entries]
    /\ odd \in BOOLEAN
    /\ \A s \in Hooks!Slot : pool[s].used <=> pool[s].sdev # Hooks!Nobody

Adding ==
    /\ scan.pc = "add" => scan.sdev \in Hooks!Disk /\ scan.slot \in Hooks!Slot
    /\ \A d \in Hooks!Disk : disk[d] = "adding" => found[d] \in Hooks!Slot
    /\ \A d \in scan.seen : d[1] <= scan.host

Single == \A s, t \in Hooks!Slot :
             (pool[s].used /\ pool[t].used /\ pool[s].sdev = pool[t].sdev) => s = t
Known  == \A s \in Hooks!Slot : pool[s].used => disk[pool[s].sdev] # "absent"
OneEach == odd \/ (Single /\ Known)

Held(d) == \E s \in Hooks!Slot : pool[s].used /\ pool[s].sdev = d
Pending(d) == /\ scan.pc # "over"
              /\ \/ d[1] > scan.host
                 \/ d[1] = scan.host /\ d \notin scan.seen
                 \/ scan.pc = "add" /\ scan.sdev = d
Covered ==
    (~limited /\ ~odd /\ scan.pc # "cut") =>
        \A d \in Hooks!Disk : d[1] \notin OtherHost /\ disk[d] = "present" =>
            Held(d) \/ Pending(d)

SlotInv == SlotTypes /\ Adding /\ OneEach /\ Covered

\* An entry that is used has a disk.
LEMMA EntryTypes ==
    ASSUME SlotTypes, NEW s \in Hooks!Slot
    PROVE  /\ pool[s] \in Entries /\ pool[s].used \in BOOLEAN
           /\ pool[s].sdev \in Hooks!Disk \cup {Hooks!Nobody}
           /\ pool[s].used => pool[s].sdev \in Hooks!Disk
<1>1. pool[s] \in Entries
  BY DEF SlotTypes
<1>2. pool[s].used \in BOOLEAN /\ pool[s].sdev \in Hooks!Disk \cup {Hooks!Nobody}
  BY ONLY <1>1 DEF Entries
<1>3. pool[s].used <=> pool[s].sdev # Hooks!Nobody
  BY DEF SlotTypes
<1> QED  BY <1>1, <1>2, <1>3

\* scsi_dev_find finds the slot of a disk that has one.
LEMMA FindSlot ==
    ASSUME SlotTypes, NEW d \in Hooks!Disk
    PROVE  /\ Hooks!Find(d) \in 0 .. LastSlot
           /\ Hooks!Find(d) # 0 <=> Held(d)
           /\ Hooks!Find(d) # 0 => /\ Hooks!Find(d) \in Hooks!Slot
                                   /\ pool[Hooks!Find(d)].used
                                   /\ pool[Hooks!Find(d)].sdev = d
<1> DEFINE S == {s \in Hooks!Slot : pool[s].used /\ pool[s].sdev = d}
<1>1. Hooks!Find(d) = Hooks!First(S)
  BY DEF Hooks!Find
<1>2. S \in SUBSET Hooks!Slot
  OBVIOUS
<1>3. S # {} <=> Held(d)
  BY DEF Held
<1> HIDE DEF S
<1>4. /\ Hooks!First(S) \in 0 .. LastSlot
      /\ Hooks!First(S) # 0 <=> S # {}
      /\ S # {} => Hooks!First(S) \in S
  BY <1>2, FirstSlot
<1>5. Hooks!Find(d) # 0 => Hooks!Find(d) \in S
  BY <1>1, <1>4
<1> USE DEF S
<1> QED  BY <1>1, <1>3, <1>4, <1>5

\* The slot that scsi_dev_add finds is free, and there is none only if all are
\* taken.
LEMMA FreeSlot ==
    ASSUME SlotTypes
    PROVE  /\ Hooks!Free \in 0 .. LastSlot
           /\ Hooks!Free # 0 => Hooks!Free \in Hooks!Slot
           /\ Hooks!Free = 0 => \A s \in Hooks!Slot : pool[s].used
<1> DEFINE S == {s \in Hooks!Slot : ~pool[s].used /\ pool[s].sdev = Hooks!Nobody}
<1>1. Hooks!Free = Hooks!First(S)
  BY DEF Hooks!Free
<1>2. S \in SUBSET Hooks!Slot
  OBVIOUS
<1>3. S = {} => \A s \in Hooks!Slot : pool[s].used
  <2> SUFFICES ASSUME S = {}, NEW s \in Hooks!Slot
               PROVE  pool[s].used
    OBVIOUS
  <2>1. pool[s].used \/ pool[s].sdev # Hooks!Nobody
    OBVIOUS
  <2> QED  BY <2>1 DEF SlotTypes
<1> HIDE DEF S
<1>4. /\ Hooks!First(S) \in 0 .. LastSlot
      /\ Hooks!First(S) # 0 <=> S # {}
      /\ S # {} => Hooks!First(S) \in S
  BY <1>2, FirstSlot
<1> QED  BY <1>1, <1>2, <1>3, <1>4

LEMMA SlotInit == Hooks!Init => SlotInv
<1> SUFFICES ASSUME Hooks!Init
             PROVE  SlotInv
  OBVIOUS
<1>1. /\ scan.pc = "off" /\ scan.host = 0 /\ scan.seen = {} /\ odd = FALSE
      /\ disk \in [Hooks!Disk -> {"absent", "present"}]
      /\ found = [d \in Hooks!Disk |-> 0] /\ pool = [s \in Hooks!Slot |-> Hooks!Empty]
  BY DEF Hooks!Init
<1>2. \A s \in Hooks!Slot : /\ pool[s] = [used |-> FALSE, sdev |-> Hooks!Nobody]
                            /\ ~pool[s].used /\ pool[s].sdev = Hooks!Nobody
  BY <1>1 DEF Hooks!Empty
<1>3. pool \in [Hooks!Slot -> Entries]
  <2>1. Hooks!Empty \in Entries
    BY DEF Hooks!Empty, Entries
  <2> QED  BY ONLY <1>1, <2>1
<1>4. SlotTypes
  <2>1. disk \in [Hooks!Disk -> DiskStates] /\ odd \in BOOLEAN
    BY <1>1 DEF DiskStates
  <2>2. found \in [Hooks!Disk -> 0 .. LastSlot]
    BY <1>1, DiskAssumption
  <2> QED  BY <1>2, <1>3, <2>1, <2>2 DEF SlotTypes
<1>5. Adding
  <2>1. \A d \in Hooks!Disk : disk[d] # "adding"
    BY <1>1
  <2> QED  BY <1>1, <2>1 DEF Adding
<1>6. OneEach
  BY <1>2 DEF OneEach, Single, Known
<1>7. Covered
  <2>1. \A d \in Hooks!Disk : Pending(d)
    BY <1>1, DiskHost DEF Pending
  <2> QED  BY <2>1 DEF Covered
<1> QED  BY <1>4, <1>5, <1>6, <1>7 DEF SlotInv

\* A slot is filled for a disk.
LEMMA FillPool ==
    ASSUME SlotTypes, NEW d \in Hooks!Disk, NEW s \in Hooks!Slot, Hooks!Fill(d, s)
    PROVE  /\ pool' \in [Hooks!Slot -> Entries] /\ odd' \in BOOLEAN
           /\ pool'[s].used /\ pool'[s].sdev = d
           /\ \A t \in Hooks!Slot \ {s} : pool'[t] = pool[t]
           /\ \A t \in Hooks!Slot : pool'[t].used <=> pool'[t].sdev # Hooks!Nobody
           /\ ~odd' => ~odd /\ ~Held(d) /\ disk[d] # "absent" /\ ~pool[s].used
<1>1. PICK e \in Entries : e = [used |-> TRUE, sdev |-> d] /\ e.used /\ e.sdev = d
  <2> DEFINE r == [used |-> TRUE, sdev |-> d]
  <2>1. r \in Entries
    BY DEF Entries
  <2>2. r.used /\ r.sdev = d
    OBVIOUS
  <2> QED  BY <2>1, <2>2
<1>2. pool' = [pool EXCEPT ![s] = e]
  BY <1>1 DEF Hooks!Fill
<1>3. /\ pool' \in [Hooks!Slot -> Entries] /\ pool'[s] = e
      /\ \A t \in Hooks!Slot \ {s} : pool'[t] = pool[t]
  BY <1>2 DEF SlotTypes
<1>4. \A t \in Hooks!Slot : pool'[t].used <=> pool'[t].sdev # Hooks!Nobody
  BY <1>1, <1>3, DiskHost DEF SlotTypes
<1>5. odd' = (odd \/ Hooks!Find(d) # 0 \/ disk[d] = "absent" \/ pool[s].used)
  BY DEF Hooks!Fill
<1>6. odd \in BOOLEAN /\ pool[s].used \in BOOLEAN
  BY EntryTypes DEF SlotTypes
<1>7. Hooks!Find(d) # 0 <=> Held(d)
  BY FindSlot
<1> QED  BY <1>1, <1>3, <1>4, <1>5, <1>6, <1>7

\* Those that had a slot still have it, and the disk has its own.
LEMMA FillKeeps ==
    ASSUME SlotTypes, OneEach, NEW d \in Hooks!Disk, NEW s \in Hooks!Slot,
           Hooks!Fill(d, s),
           \A e \in Hooks!Disk : disk[e] # "absent" => disk'[e] # "absent"
    PROVE  /\ OneEach'
           /\ ~odd' => ~odd /\ Held(d)'
           /\ ~odd' => \A e \in Hooks!Disk : Held(e) => Held(e)'
<1>1. /\ pool'[s].used /\ pool'[s].sdev = d
      /\ \A t \in Hooks!Slot \ {s} : pool'[t] = pool[t]
      /\ ~odd' => ~odd /\ ~Held(d) /\ disk[d] # "absent" /\ ~pool[s].used
  BY FillPool
<1>2. Held(d)'
  BY <1>1 DEF Held
<1>3. ASSUME ~odd', NEW e \in Hooks!Disk, Held(e)
      PROVE  Held(e)'
  <2>1. PICK t \in Hooks!Slot : pool[t].used /\ pool[t].sdev = e
    BY <1>3 DEF Held
  <2>2. pool'[t] = pool[t]
    BY <1>1, <1>3, <2>1
  <2> QED  BY <2>1, <2>2 DEF Held
<1>4. ASSUME ~odd'
      PROVE  Single'
  <2>1. Single /\ ~Held(d)
    BY <1>1, <1>4 DEF OneEach
  <2>2. \A t \in Hooks!Slot \ {s} : pool[t].used => pool[t].sdev # d
    BY <2>1 DEF Held
  <2> QED  BY <1>1, <2>1, <2>2 DEF Single
<1>5. ASSUME ~odd'
      PROVE  Known'
  <2>1. Known /\ disk[d] # "absent"
    BY <1>1, <1>5 DEF OneEach
  <2> SUFFICES ASSUME NEW t \in Hooks!Slot, pool'[t].used
               PROVE  disk'[pool'[t].sdev] # "absent"
    BY DEF Known
  <2>2. CASE t = s
    BY <1>1, <2>1, <2>2
  <2>3. CASE t # s
    <3>1. pool'[t] = pool[t] /\ pool[t].used
      BY <1>1, <2>3
    <3>2. pool[t].sdev \in Hooks!Disk /\ disk[pool[t].sdev] # "absent"
      BY <2>1, <3>1, EntryTypes DEF Known
    <3> QED  BY <3>1, <3>2
  <2> QED  BY <2>2, <2>3
<1> QED  BY <1>1, <1>2, <1>3, <1>4, <1>5 DEF OneEach

\* The disks whose state does not change, and what the scan still has to do.
LEMMA PendingSame ==
    ASSUME NEW d, UNCHANGED scan
    PROVE  Pending(d)' <=> Pending(d)
BY DEF Pending

\* Who has a slot is read off the pool.
LEMMA HeldSame ==
    ASSUME NEW d, UNCHANGED pool
    PROVE  Held(d)' <=> Held(d)
BY DEF Held

\* The scan looks at one disk or host after the other.
LEMMA FindCovered ==
    ASSUME HookInv, SlotInv, Hooks!ScanFind
    PROVE  scan' \in Scans /\ scan'.pc \in {"devices", "save", "add", "over", "cut"}
           /\ SlotInv'
<1>1. /\ scan.pc = "devices" /\ UNCHANGED <<pool, disk, found, odd, limited>>
  BY DEF Hooks!ScanFind, Hooks!diskVars
<1>2. scan \in Scans /\ scan.host \in 0 .. LastHost /\ scan.host \in Nat
      /\ LastHost \in Nat /\ scan.seen \subseteq Hooks!Disk
  BY ScanFields, DiskAssumption DEF HookInv, HookTypes
<1>3. SlotTypes' /\ OneEach'
  BY <1>1 DEF SlotInv, SlotTypes, OneEach, Single, Known
<1>4. \A d \in Hooks!Disk : Held(d)' <=> Held(d)
  BY <1>1, HeldSame
<1>5. /\ \A d \in Hooks!Disk : disk[d] = "adding" => found[d] \in Hooks!Slot
      /\ \A d \in scan.seen : d[1] <= scan.host
  BY DEF SlotInv, Adding
<1>6. \A d \in Hooks!Disk : Pending(d) <=> \/ d[1] > scan.host
                                           \/ d[1] = scan.host /\ d \notin scan.seen
  BY <1>1 DEF Pending
<1>7. CASE Hooks!Listed = {}
  <2>1. \A d \in Hooks!Disk :
          d[1] \notin OtherHost /\ disk[d] = "present" /\ d[1] = scan.host => d \in scan.seen
    BY <1>7 DEF Hooks!Listed, Hooks!IsDisk
  <2>2. CASE scan.host = LastHost
    <3>1. scan' = [scan EXCEPT !.pc = "over"]
      BY <1>7, <2>2 DEF Hooks!ScanFind
    <3>2. /\ scan' \in Scans /\ scan'.pc = "over" /\ scan'.host = scan.host
          /\ scan'.seen = scan.seen
      BY <1>2, <3>1 DEF Scans, ScanPlaces
    <3>3. \A d \in Hooks!Disk :
            d[1] \notin OtherHost /\ disk[d] = "present" => ~Pending(d)
      <4>1. \A d \in Hooks!Disk : d[1] \in Nat /\ d[1] <= scan.host
        BY <1>2, <2>2, DiskHost
      <4> QED  BY <1>2, <1>6, <2>1, <4>1
    <3>4. Adding'
      BY <1>1, <1>5, <3>2 DEF Adding
    <3>5. Covered'
      BY <1>1, <1>4, <3>3 DEF Covered, SlotInv
    <3> QED  BY <1>3, <3>2, <3>4, <3>5 DEF SlotInv
  <2>3. CASE scan.host # LastHost
    <3>1. scan' = [scan EXCEPT !.pc = "save", !.host = scan.host + 1]
      BY <1>2, <1>7, <2>3 DEF Hooks!ScanFind, Scans
    <3>2. scan.host + 1 \in 0 .. LastHost
      BY <1>2, <2>3
    <3>3. /\ scan' \in Scans /\ scan'.pc = "save" /\ scan'.host = scan.host + 1
          /\ scan'.seen = scan.seen
      BY <1>2, <3>1, <3>2 DEF Scans, ScanPlaces
    <3>4. ASSUME NEW d \in Hooks!Disk, d[1] \notin OtherHost, disk[d] = "present",
                 Pending(d)
          PROVE  Pending(d)'
      <4>1. d[1] \in Nat /\ d[1] > scan.host
        BY <1>6, <2>1, <3>4, DiskHost
      <4>2. d \notin scan.seen
        BY <1>2, <1>5, <4>1
      <4>3. d[1] > scan.host + 1 \/ d[1] = scan.host + 1
        BY <1>2, <4>1
      <4> QED  BY <3>3, <4>2, <4>3 DEF Pending
    <3>5. Adding'
      <4>1. \A d \in scan.seen : d[1] <= scan.host + 1
        BY <1>2, <1>5, DiskHost
      <4> QED  BY <1>1, <1>5, <3>3, <4>1 DEF Adding
    <3>6. Covered'
      BY <1>1, <1>4, <3>4 DEF Covered, SlotInv
    <3> QED  BY <1>3, <3>3, <3>5, <3>6 DEF SlotInv
  <2> QED  BY <2>2, <2>3
<1>8. CASE Hooks!Listed # {}
  <2>1. PICK d \in Hooks!Listed :
           scan' = IF Hooks!Free = 0 THEN [scan EXCEPT !.pc = "cut"]
                   ELSE [scan EXCEPT !.pc = "add", !.slot = Hooks!Free, !.sdev = d,
                                     !.seen = scan.seen \cup {d}]
    BY <1>2, <1>8 DEF Hooks!ScanFind, Scans
  <2>2. d \in Hooks!Disk /\ d[1] = scan.host
    BY <2>1 DEF Hooks!Listed
  <2>3. CASE Hooks!Free = 0
    <3>1. /\ scan' \in Scans /\ scan'.pc = "cut" /\ scan'.host = scan.host
          /\ scan'.seen = scan.seen
      BY <1>2, <2>1, <2>3 DEF Scans, ScanPlaces
    <3>2. Adding'
      BY <1>1, <1>5, <3>1 DEF Adding
    <3>3. Covered'
      BY <3>1 DEF Covered
    <3> QED  BY <1>3, <3>1, <3>2, <3>3 DEF SlotInv
  <2>4. CASE Hooks!Free # 0
    <3>1. Hooks!Free \in Hooks!Slot /\ Hooks!Free \in 0 .. LastSlot
      BY <2>4, FreeSlot DEF SlotInv
    <3>2. scan' = [scan EXCEPT !.pc = "add", !.slot = Hooks!Free, !.sdev = d,
                               !.seen = scan.seen \cup {d}]
      BY <2>1, <2>4
    <3>3. /\ scan' \in Scans /\ scan'.pc = "add" /\ scan'.host = scan.host
          /\ scan'.seen = scan.seen \cup {d} /\ scan'.slot = Hooks!Free /\ scan'.sdev = d
      BY <1>2, <2>2, <3>1, <3>2 DEF Scans, ScanPlaces
    <3>4. Adding'
      <4>1. \A e \in scan'.seen : e[1] <= scan'.host
        BY <1>2, <1>5, <2>2, <3>3
      <4> QED  BY <1>1, <1>5, <2>2, <3>1, <3>3, <4>1 DEF Adding
    <3>5. \A e \in Hooks!Disk : Pending(e) => Pending(e)'
      BY <1>6, <3>3 DEF Pending
    <3>6. Covered'
      BY <1>1, <1>4, <3>5 DEF Covered, SlotInv
    <3> QED  BY <1>3, <3>3, <3>4, <3>6 DEF SlotInv
  <2> QED  BY <2>3, <2>4
<1> QED  BY <1>7, <1>8

\* The steps that bring a disk or fill a slot keep every disk covered: the scan,
\* a disk that comes, a disk that is configured.
LEMMA FillCovered ==
    ASSUME HookInv, SlotInv, Hooks!ScanFill
    PROVE  scan' \in Scans /\ scan'.pc \in {"devices", "cut"} /\ SlotInv'
<1>1. scan.pc = "add" /\ UNCHANGED <<disk, found, limited>>
  BY DEF Hooks!ScanFill
<1>2. PICK d \in Hooks!Disk, s \in Hooks!Slot : /\ d = scan.sdev /\ s = scan.slot
                                                /\ Hooks!Fill(d, s)
  BY <1>1 DEF SlotInv, Adding, Hooks!ScanFill
<1>3. PICK l \in {"devices", "cut"} :
         scan' = [scan EXCEPT !.pc = l, !.slot = 0, !.sdev = Hooks!Nobody]
  BY DEF Hooks!ScanFill
<1>4. /\ scan' \in Scans /\ scan'.pc = l /\ scan'.host = scan.host
      /\ scan'.seen = scan.seen
  <2>1. 0 \in 0 .. LastSlot /\ l \in ScanPlaces
    BY DiskAssumption DEF ScanPlaces
  <2>2. scan \in Scans
    BY DEF HookInv, HookTypes
  <2> QED  BY <1>3, <2>1, <2>2 DEF Scans
<1>5. SlotTypes /\ OneEach /\ Adding /\ Covered
  BY DEF SlotInv
<1>6. SlotTypes'
  BY <1>1, <1>2, <1>5, FillPool DEF SlotTypes
<1>7. /\ OneEach'
      /\ ~odd' => ~odd /\ Held(d)'
      /\ ~odd' => \A e \in Hooks!Disk : Held(e) => Held(e)'
  <2>1. \A e \in Hooks!Disk : disk[e] # "absent" => disk'[e] # "absent"
    BY <1>1
  <2> QED  BY <1>2, <1>5, <2>1, FillKeeps
<1>8. Adding'
  BY <1>1, <1>4, <1>5 DEF Adding
<1>9. Covered'
  <2> SUFFICES ASSUME ~limited, ~odd', scan'.pc = "devices",
                      NEW e \in Hooks!Disk, e[1] \notin OtherHost, disk[e] = "present"
               PROVE  Held(e)' \/ Pending(e)'
    BY <1>1, <1>4 DEF Covered
  <2>1. Held(e) \/ Pending(e)
    BY <1>1, <1>5, <1>7 DEF Covered
  <2>2. CASE Held(e) \/ e = d
    BY <1>7, <2>2
  <2>3. CASE Pending(e) /\ e # d
    BY <1>2, <1>4, <2>3 DEF Pending
  <2> QED  BY <2>1, <2>2, <2>3
<1> QED  BY <1>4, <1>6, <1>7, <1>8, <1>9 DEF SlotInv

\* The start of the module, its end, and the functions of the template.
LEMMA TemplateCovered ==
    ASSUME HookInv, SlotInv,
           Hooks!Start \/ Hooks!Save \/ Hooks!Replace \/ Hooks!limited_set \/ Hooks!Recover
    PROVE  SlotInv'
<1>1. UNCHANGED <<pool, disk, found, odd>>
  BY DEF Hooks!Start, Hooks!Save, Hooks!Replace, Hooks!limited_set, Hooks!Recover,
         Hooks!diskVars
<1>2. scan \in Scans
  BY DEF HookInv, HookTypes
<1>3. /\ scan'.host = scan.host /\ scan'.seen = scan.seen
      /\ \/ scan' = scan
         \/ /\ scan.pc \in {"off", "save", "replace"}
            /\ scan'.pc \in {"over", "save", "replace", "devices"}
      /\ scan'.pc = "over" => scan.pc = "over" \/ limited
  <2>1. CASE Hooks!Start
    <3>1. PICK l \in {"over", "save"} : /\ scan' = [scan EXCEPT !.pc = l]
                                        /\ l = "over" => limited
      BY <2>1 DEF Hooks!Start
    <3> QED  BY <1>2, <2>1, <3>1 DEF Hooks!Start, Scans
  <2>2. CASE Hooks!Save
    <3>1. \/ scan' = [scan EXCEPT !.pc = "devices"]
          \/ scan' = [scan EXCEPT !.pc = "replace", !.step = 1]
      BY <2>2 DEF Hooks!Save
    <3> QED  BY <1>2, <2>2, <3>1 DEF Hooks!Save, Scans
  <2>3. CASE Hooks!Replace
    <3>1. PICK n : \/ scan' = [scan EXCEPT !.pc = "devices"]
                   \/ scan' = [scan EXCEPT !.step = n]
      BY <1>2, <2>3 DEF Hooks!Replace, Scans
    <3> QED  BY <1>2, <2>3, <3>1 DEF Hooks!Replace, Scans
  <2>4. CASE Hooks!limited_set \/ Hooks!Recover
    BY <2>4 DEF Hooks!limited_set, Hooks!Recover
  <2> QED  BY <2>1, <2>2, <2>3, <2>4
<1>4. limited => limited'
  BY DEF Hooks!Start, Hooks!Save, Hooks!Replace, Hooks!limited_set, Hooks!Recover
<1>5. SlotTypes' /\ OneEach' /\ Adding'
  <2>1. SlotTypes /\ OneEach /\ Adding
    BY DEF SlotInv
  <2>2. SlotTypes' /\ OneEach'
    BY <1>1, <2>1 DEF SlotTypes, OneEach, Single, Known
  <2>3. Adding'
    BY <1>1, <1>3, <2>1 DEF Adding
  <2> QED  BY <2>2, <2>3
<1>6. Covered'
  <2> SUFFICES ASSUME ~limited', ~odd, scan'.pc # "cut",
                      NEW d \in Hooks!Disk, d[1] \notin OtherHost, disk[d] = "present"
               PROVE  Held(d)' \/ Pending(d)'
    BY <1>1 DEF Covered
  <2>1. Held(d) \/ Pending(d)
    BY <1>3, <1>4 DEF SlotInv, Covered
  <2>2. CASE Held(d)
    BY <1>1, <2>2, HeldSame
  <2>3. CASE Pending(d)
    <3>1. scan'.pc # "over"
      BY <1>3, <1>4, <2>3 DEF Pending
    <3> QED  BY <1>3, <2>3, <3>1 DEF Pending
  <2> QED  BY <2>1, <2>2, <2>3
<1> QED  BY <1>5, <1>6 DEF SlotInv

LEMMA AttachCovered ==
    ASSUME SlotInv, NEW d \in Hooks!Disk, Hooks!Attach(d)
    PROVE  SlotInv'
<1>1. /\ disk' = [disk EXCEPT ![d] = "new"]
      /\ UNCHANGED <<scan, limited, found, pool, odd>>
  BY DEF Hooks!Attach, Hooks!hookVars
<1>2. /\ disk' \in [Hooks!Disk -> DiskStates] /\ disk'[d] = "new"
      /\ \A e \in Hooks!Disk \ {d} : disk'[e] = disk[e]
  BY <1>1 DEF SlotInv, SlotTypes, DiskStates
<1>3. SlotTypes'
  BY <1>1, <1>2 DEF SlotInv, SlotTypes
<1>4. Adding'
  BY <1>1, <1>2 DEF SlotInv, Adding
<1>5. OneEach'
  <2>1. \A s \in Hooks!Slot : pool[s].used => pool[s].sdev \in Hooks!Disk
    BY EntryTypes DEF SlotInv
  <2> QED  BY <1>1, <1>2, <2>1 DEF SlotInv, OneEach, Single, Known
<1>6. Covered'
  BY <1>1, <1>2, HeldSame, PendingSame DEF SlotInv, Covered
<1> QED  BY <1>3, <1>4, <1>5, <1>6 DEF SlotInv

\* A disk that is not looked at by nvdisk will be when the scan comes to it.
LEMMA ConfigureCovered ==
    ASSUME HookInv, SlotInv, NEW d \in Hooks!Disk, Hooks!Configure(d)
    PROVE  SlotInv'
<1>1. PICK a \in {"present", "refused", "adding"}, n \in 0 .. LastSlot :
         /\ disk' = [disk EXCEPT ![d] = a] /\ found' = [found EXCEPT ![d] = n]
         /\ a = "adding" => n \in Hooks!Slot
         /\ a = "present" => ~Hooks!Hooked("slave_configure")
  <2>1. Hooks!Free \in 0 .. LastSlot /\ (Hooks!Free # 0 => Hooks!Free \in Hooks!Slot)
    BY FreeSlot DEF SlotInv
  <2>2. 0 \in 0 .. LastSlot
    BY DiskAssumption
  <2>3. PICK a \in {"present", "refused", "adding"} :
           /\ disk' = [disk EXCEPT ![d] = a] /\ (a = "adding" => Hooks!Free # 0)
           /\ a = "present" => ~Hooks!Hooked("slave_configure")
           /\ found' = [found EXCEPT ![d] = IF a = "adding" THEN Hooks!Free ELSE 0]
    BY DEF Hooks!Configure
  <2> QED  BY <2>1, <2>2, <2>3
<1>2. UNCHANGED <<hostt, replace_done, scan, limited, pool, odd>>
      /\ disk[d] = "new"
  BY DEF Hooks!Configure, Hooks!hookVars
<1>3. /\ disk' \in [Hooks!Disk -> DiskStates] /\ disk'[d] = a
      /\ \A e \in Hooks!Disk \ {d} : disk'[e] = disk[e]
  BY <1>1 DEF SlotInv, SlotTypes, DiskStates
<1>4. /\ found' \in [Hooks!Disk -> 0 .. LastSlot] /\ found'[d] = n
      /\ \A e \in Hooks!Disk \ {d} : found'[e] = found[e]
  BY <1>1 DEF SlotInv, SlotTypes
<1>5. SlotTypes'
  BY <1>2, <1>3, <1>4 DEF SlotInv, SlotTypes
<1>6. Adding'
  BY <1>1, <1>2, <1>3, <1>4 DEF SlotInv, Adding
<1>7. OneEach'
  <2>1. \A s \in Hooks!Slot : pool[s].used => pool[s].sdev \in Hooks!Disk
    BY EntryTypes DEF SlotInv
  <2> QED  BY <1>2, <1>3, <2>1 DEF SlotInv, OneEach, Single, Known
<1>8. Covered'
  <2> SUFFICES ASSUME ~limited, ~odd, scan.pc # "cut",
                      NEW e \in Hooks!Disk, e[1] \notin OtherHost, disk'[e] = "present"
               PROVE  Held(e) \/ Pending(e)
    BY <1>2, HeldSame, PendingSame DEF Covered
  <2>1. CASE e = d
    <3>1. hostt["slave_configure"] # "nvdisk"
      BY <1>1, <1>3, <2>1 DEF Hooks!Hooked
    <3>2. ~Replaced(1)
      BY <3>1, FunctionNames DEF HookInv, Hooking
    <3>3. ~replace_done
      BY <3>2 DEF Replaced
    <3>4. scan.host = 0 /\ scan.seen = {} /\ scan.pc # "over"
      BY <3>3 DEF HookInv, Hooking
    <3> QED  BY <2>1, <3>4, DiskHost DEF Pending
  <2>2. CASE e # d
    BY <1>3, <2>2 DEF SlotInv, Covered
  <2> QED  BY <2>1, <2>2
<1> QED  BY <1>5, <1>6, <1>7, <1>8 DEF SlotInv

LEMMA ConfigureFillCovered ==
    ASSUME SlotInv, NEW d \in Hooks!Disk, Hooks!ConfigureFill(d)
    PROVE  SlotInv'
<1>1. PICK a \in {"present", "refused"} : disk' = [disk EXCEPT ![d] = a]
  BY DEF Hooks!ConfigureFill
<1>2. /\ disk[d] = "adding" /\ Hooks!Fill(d, found[d])
      /\ found' = [found EXCEPT ![d] = 0] /\ UNCHANGED <<scan, limited>>
  BY DEF Hooks!ConfigureFill, Hooks!hookVars
<1>3. found[d] \in Hooks!Slot /\ SlotTypes /\ OneEach /\ Adding /\ Covered
  BY <1>2 DEF SlotInv, Adding
<1>4. /\ disk' \in [Hooks!Disk -> DiskStates] /\ disk'[d] = a
      /\ \A e \in Hooks!Disk \ {d} : disk'[e] = disk[e]
  BY <1>1, <1>3 DEF SlotTypes, DiskStates
<1>5. /\ found' \in [Hooks!Disk -> 0 .. LastSlot]
      /\ \A e \in Hooks!Disk \ {d} : found'[e] = found[e]
  BY <1>2, <1>3, DiskAssumption DEF SlotTypes
<1>6. SlotTypes'
  BY <1>2, <1>3, <1>4, <1>5, FillPool DEF SlotTypes
<1>7. \A e \in Hooks!Disk : disk[e] # "absent" => disk'[e] # "absent"
  BY <1>4
<1>8. /\ OneEach'
      /\ ~odd' => ~odd /\ Held(d)'
      /\ ~odd' => \A e \in Hooks!Disk : Held(e) => Held(e)'
  BY <1>2, <1>3, <1>7, FillKeeps
<1>9. Adding'
  BY <1>2, <1>3, <1>4, <1>5 DEF Adding
<1>10. Covered'
  BY <1>2, <1>3, <1>4, <1>8, PendingSame DEF Covered
<1> QED  BY <1>6, <1>8, <1>9, <1>10 DEF SlotInv

\* A disk leaves, and with it its slot.
LEMMA DetachCovered ==
    ASSUME SlotInv, NEW d \in Hooks!Disk, Hooks!Detach(d)
    PROVE  SlotInv'
<1>1. /\ disk' = [disk EXCEPT ![d] = "absent"]
      /\ UNCHANGED <<scan, limited, found>>
  BY DEF Hooks!Detach, Hooks!hookVars
<1>2. SlotTypes /\ OneEach /\ Adding /\ Covered
  BY DEF SlotInv
<1>3. /\ disk' \in [Hooks!Disk -> DiskStates] /\ disk'[d] = "absent"
      /\ \A e \in Hooks!Disk \ {d} : disk'[e] = disk[e]
  BY <1>1, <1>2 DEF SlotTypes, DiskStates
<1>4. Adding'
  BY <1>1, <1>2, <1>3 DEF Adding
<1>5. /\ Hooks!Find(d) # 0 <=> Held(d)
      /\ Hooks!Find(d) # 0 => /\ Hooks!Find(d) \in Hooks!Slot
                              /\ pool[Hooks!Find(d)].used
                              /\ pool[Hooks!Find(d)].sdev = d
  BY <1>2, FindSlot
<1>6. CASE Hooks!Hooked("slave_destroy") /\ Hooks!Find(d) # 0
  <2>1. PICK s \in Hooks!Slot : s = Hooks!Find(d) /\ pool[s].used /\ pool[s].sdev = d
    BY <1>5, <1>6
  <2>2. pool' = [pool EXCEPT ![s] = Hooks!Empty] /\ odd' = odd
    BY <1>6, <2>1 DEF Hooks!Detach
  <2>3. Hooks!Empty \in Entries /\ ~Hooks!Empty.used /\ Hooks!Empty.sdev = Hooks!Nobody
    BY DEF Hooks!Empty, Entries
  <2>4. /\ pool' \in [Hooks!Slot -> Entries] /\ pool'[s] = Hooks!Empty
        /\ \A t \in Hooks!Slot \ {s} : pool'[t] = pool[t]
    BY <1>2, <2>2, <2>3 DEF SlotTypes
  <2>5. ~pool'[s].used /\ pool'[s].sdev = Hooks!Nobody
    BY <2>3, <2>4
  <2>6. SlotTypes'
    <3>1. \A t \in Hooks!Slot : pool'[t].used <=> pool'[t].sdev # Hooks!Nobody
      BY <1>2, <2>4, <2>5 DEF SlotTypes
    <3> QED  BY <1>1, <1>2, <1>3, <2>2, <2>4, <3>1 DEF SlotTypes
  <2>7. \A t \in Hooks!Slot : pool'[t].used => t # s /\ pool'[t] = pool[t] /\ pool[t].used
    BY <2>4, <2>5
  <2>8. ASSUME ~odd
        PROVE  Single' /\ Known'
    <3>1. Single /\ Known
      BY <1>2, <2>8 DEF OneEach
    <3>2. Single'
      BY <2>7, <3>1 DEF Single
    <3>3. \A t \in Hooks!Slot : pool'[t].used => pool[t].sdev \in Hooks!Disk \ {d}
      BY <1>2, <2>1, <2>7, <3>1, EntryTypes DEF Single
    <3>4. Known'
      BY <1>3, <2>7, <3>1, <3>3 DEF Known
    <3> QED  BY <3>2, <3>4
  <2>9. OneEach'
    BY <2>2, <2>8 DEF OneEach
  <2>10. \A e \in Hooks!Disk \ {d} : Held(e) => Held(e)'
    <3> SUFFICES ASSUME NEW e \in Hooks!Disk \ {d}, Held(e)
                 PROVE  Held(e)'
      OBVIOUS
    <3>1. PICK t \in Hooks!Slot : pool[t].used /\ pool[t].sdev = e
      BY DEF Held
    <3>2. t # s
      BY <2>1, <3>1
    <3>3. pool'[t] = pool[t]
      BY <2>4, <3>2
    <3> QED  BY <3>1, <3>3 DEF Held
  <2>11. Covered'
    BY <1>1, <1>2, <1>3, <2>2, <2>10, PendingSame DEF Covered
  <2> QED  BY <1>4, <2>6, <2>9, <2>11 DEF SlotInv
<1>7. CASE ~(Hooks!Hooked("slave_destroy") /\ Hooks!Find(d) # 0)
  <2>1. pool' = pool /\ odd' = (odd \/ Hooks!Find(d) # 0)
    BY <1>7 DEF Hooks!Detach
  <2>2. odd \in BOOLEAN
    BY <1>2 DEF SlotTypes
  <2>3. SlotTypes'
    BY <1>1, <1>2, <1>3, <2>1, <2>2 DEF SlotTypes
  <2>4. ~odd' => ~odd /\ ~Held(d)
    BY <1>5, <2>1, <2>2
  <2>5. OneEach'
    <3> SUFFICES ASSUME ~odd'
                 PROVE  Single' /\ Known'
      BY DEF OneEach
    <3>1. Single /\ Known /\ ~Held(d)
      BY <1>2, <2>4 DEF OneEach
    <3>2. \A t \in Hooks!Slot : pool[t].used => pool[t].sdev \in Hooks!Disk \ {d}
      BY <1>2, <3>1, EntryTypes DEF Held
    <3> QED  BY <1>3, <2>1, <3>1, <3>2 DEF Single, Known
  <2>6. Covered'
    BY <1>1, <1>2, <1>3, <2>1, <2>4, HeldSame, PendingSame DEF Covered
  <2> QED  BY <1>4, <2>3, <2>5, <2>6 DEF SlotInv
<1> QED  BY <1>6, <1>7

\* Steps that leave slots, or hooks, alone.
LEMMA SlotStays ==
    ASSUME SlotInv, UNCHANGED <<scan, limited, disk, found, pool, odd>>
    PROVE  SlotInv'
<1>1. SlotTypes' /\ Adding' /\ OneEach'
  BY DEF SlotInv, SlotTypes, Adding, OneEach, Single, Known
<1>2. Covered'
  BY HeldSame, PendingSame DEF SlotInv, Covered
<1> QED  BY <1>1, <1>2 DEF SlotInv

LEMMA HookStays ==
    ASSUME HookInv, UNCHANGED <<hostt, old, replace_done, scan, limited, unhook>>
    PROVE  HookInv'
<1>1. HookTypes'
  BY DEF HookInv, HookTypes
<1>2. \A k : Replaced(k)' <=> Replaced(k)
  BY DEF Replaced
<1>3. Hooking'
  BY <1>2 DEF HookInv, Hooking
<1> QED  BY <1>1, <1>3 DEF HookInv

\* The scsi_cmnds, and what the bios of those that were not prepared anew go back
\* to.
Prepareds == [sdev : Hooks!Disk \cup {Hooks!Nobody}, ptr : {"none", "own"}]
EndIos == {"own", "nvdisk", "none"}
WayBack(c) == bio[c] # "none" /\ (bio[c] = "nvdisk" => cmd[c].ptr = "own")
CommandInv ==
    /\ cmd \in [Command -> Prepareds] /\ bio \in [Command -> EndIos]
    /\ renewed \subseteq Command
    /\ \A c \in Command : WayBack(c) \/ c \in renewed
    /\ \A c \in Command : cmd[c] # Hooks!NoCommand => bio[c] # "none"

LEMMA Preparing ==
    /\ \A d \in Hooks!Disk \cup {Hooks!Nobody} : Hooks!Prepared(d) \in Prepareds
    /\ Hooks!NoCommand \in Prepareds
    /\ \A r \in Prepareds : r.sdev \in Hooks!Disk \cup {Hooks!Nobody}
                            /\ r.ptr \in {"none", "own"}
BY DEF Hooks!Prepared, Hooks!NoCommand, Prepareds

\* One command gets another scsi_cmnd and another bi_end_io.
LEMMA CommandChange ==
    ASSUME CommandInv, NEW c \in Command, NEW r \in Prepareds, NEW e \in EndIos,
           cmd' = [cmd EXCEPT ![c] = r], bio' = [bio EXCEPT ![c] = e],
           renewed \subseteq renewed', renewed' \subseteq Command,
           (e # "none" /\ (e = "nvdisk" => r.ptr = "own")) \/ c \in renewed',
           r # Hooks!NoCommand => e # "none"
    PROVE  CommandInv'
<1>1. /\ cmd' \in [Command -> Prepareds] /\ cmd'[c] = r
      /\ \A b \in Command \ {c} : cmd'[b] = cmd[b]
  BY DEF CommandInv
<1>2. /\ bio' \in [Command -> EndIos] /\ bio'[c] = e
      /\ \A b \in Command \ {c} : bio'[b] = bio[b]
  BY DEF CommandInv
<1>3. \A b \in Command : WayBack(b)' \/ b \in renewed'
  BY <1>1, <1>2 DEF CommandInv, WayBack
<1>4. \A b \in Command : cmd'[b] # Hooks!NoCommand => bio'[b] # "none"
  BY <1>1, <1>2 DEF CommandInv
<1> QED  BY <1>1, <1>2, <1>3, <1>4 DEF CommandInv, Hooks!NoCommand, Hooks!Prepared, Hooks!Nobody

\* host_queuecommand, given a scsi_cmnd that has the way back if it needs one.
LEMMA Queueing ==
    ASSUME CommandInv, NEW c \in Command, NEW r \in Prepareds, Hooks!Queue(c, r),
           renewed \subseteq renewed', renewed' \subseteq Command,
           bio[c] # "none",
           (bio[c] = "nvdisk" => r.ptr = "own") \/ c \in renewed'
    PROVE  CommandInv'
<1>1. bio[c] \in {"own", "nvdisk"} /\ bio \in [Command -> EndIos]
  BY DEF CommandInv, EndIos
<1>2. CASE Hooks!Hooked("queuecommand") /\ bio[c] # "nvdisk"
  <2>1. PICK q \in Prepareds : q = [r EXCEPT !.ptr = bio[c]] /\ q.ptr = "own"
    <3>1. [r EXCEPT !.ptr = bio[c]] \in Prepareds /\ [r EXCEPT !.ptr = bio[c]].ptr = "own"
      BY <1>1, <1>2 DEF Prepareds
    <3> QED  BY <3>1
  <2>2. cmd' = [cmd EXCEPT ![c] = q] /\ bio' = [bio EXCEPT ![c] = "nvdisk"]
    BY <1>2, <2>1 DEF Hooks!Queue
  <2>3. "nvdisk" \in EndIos
    BY DEF EndIos
  <2> QED  BY <2>1, <2>2, <2>3, CommandChange
<1>3. CASE ~(Hooks!Hooked("queuecommand") /\ bio[c] # "nvdisk")
  <2>1. cmd' = [cmd EXCEPT ![c] = r] /\ bio' = bio
    BY <1>3 DEF Hooks!Queue
  <2>2. PICK e \in EndIos : e = bio[c] /\ bio' = [bio EXCEPT ![c] = e]
    BY <1>1, <2>1
  <2> QED  BY <2>1, <2>2, CommandChange
<1> QED  BY <1>2, <1>3

LEMMA CommandStep == CommandInv /\ Hooks!Next => CommandInv'
<1> SUFFICES ASSUME CommandInv, Hooks!Next
             PROVE  CommandInv'
  OBVIOUS
<1>1. CASE UNCHANGED <<cmd, bio, renewed>>
  BY <1>1 DEF CommandInv, WayBack, Hooks!NoCommand, Hooks!Prepared, Hooks!Nobody
<1>2. ASSUME NEW d \in Hooks!Disk, NEW c \in Command, Hooks!Dispatch(c, d)
      PROVE  CommandInv'
  <2>1. /\ bio[c] = "own" /\ Hooks!Queue(c, Hooks!Prepared(d)) /\ renewed' = renewed
        /\ Hooks!Prepared(d) \in Prepareds /\ renewed \subseteq Command
    BY <1>2, Preparing DEF Hooks!Dispatch, CommandInv
  <2> QED  BY <2>1, Queueing
<1>3. ASSUME NEW c \in Command, Hooks!Redispatch(c)
      PROVE  CommandInv'
  <2>1. /\ bio[c] # "none" /\ cmd[c] \in Prepareds /\ renewed \subseteq Command
        /\ WayBack(c) \/ c \in renewed
    BY <1>3 DEF Hooks!Redispatch, CommandInv
  <2>2. CASE Hooks!Queue(c, cmd[c]) /\ renewed' = renewed
    BY <2>1, <2>2, Queueing DEF WayBack
  <2>3. CASE /\ Hooks!Queue(c, Hooks!Prepared(cmd[c].sdev))
             /\ renewed' = IF bio[c] = "nvdisk" THEN renewed \cup {c} ELSE renewed
    <3>1. Hooks!Prepared(cmd[c].sdev) \in Prepareds
      BY <2>1, Preparing
    <3>2. /\ renewed \subseteq renewed' /\ renewed' \subseteq Command
          /\ bio[c] = "nvdisk" => c \in renewed'
      BY <2>1, <2>3
    <3> QED  BY <2>1, <2>3, <3>1, <3>2, Queueing
  <2> QED  BY <1>3, <2>2, <2>3 DEF Hooks!Redispatch
<1>4. ASSUME NEW c \in Command, Hooks!Complete(c)
      PROVE  CommandInv'
  <2>1. /\ cmd[c] \in Prepareds /\ bio[c] \in EndIos /\ renewed \subseteq Command
        /\ WayBack(c) \/ c \in renewed
        /\ cmd[c] # Hooks!NoCommand /\ bio[c] # "none"
    BY <1>4 DEF Hooks!Complete, CommandInv
  <2>2. PICK e : e = (IF bio[c] = "nvdisk" THEN cmd[c].ptr ELSE bio[c])
    OBVIOUS
  <2>3. cmd[c].ptr \in {"none", "own"}
    BY <2>1, Preparing
  <2>4. e \in EndIos /\ e # "nvdisk" /\ (e # "none" \/ c \in renewed)
    BY <2>1, <2>2, <2>3 DEF EndIos, WayBack
  <2>5. /\ cmd' = [cmd EXCEPT ![c] = Hooks!NoCommand] /\ bio' = [bio EXCEPT ![c] = e]
        /\ renewed' = renewed
    BY <1>4, <2>2 DEF Hooks!Complete, CommandInv
  <2> QED  BY <2>1, <2>4, <2>5, Preparing, CommandChange
<1> QED
  BY <1>1, <1>2, <1>3, <1>4
  DEF Hooks!Next, Hooks!Scan, Hooks!Start, Hooks!Save, Hooks!Replace, Hooks!ScanFind,
      Hooks!ScanFill, Hooks!limited_set, Hooks!Recover, Hooks!Attach, Hooks!Configure,
      Hooks!ConfigureFill, Hooks!Detach, Hooks!cmdVars

HooksInv == HookInv /\ SlotInv /\ CommandInv

LEMMA HooksInit == Hooks!Init => HooksInv
<1>1. Hooks!Init => CommandInv
  <2> SUFFICES ASSUME Hooks!Init
               PROVE  CommandInv
    OBVIOUS
  <2>1. /\ cmd = [c \in Command |-> Hooks!NoCommand] /\ bio = [c \in Command |-> "own"]
        /\ renewed = {}
    BY DEF Hooks!Init
  <2> QED  BY <2>1, Preparing DEF CommandInv, EndIos, WayBack
<1> QED  BY <1>1, HookInit, SlotInit DEF HooksInv

\* The three invariants together.
LEMMA HooksStep == HooksInv /\ Hooks!Next => HooksInv'
<1> SUFFICES ASSUME HookInv, SlotInv, Hooks!Next
             PROVE  HookInv' /\ SlotInv'
  BY CommandStep DEF HooksInv
<1>1. CASE Hooks!Start \/ Hooks!Save \/ Hooks!Replace \/ Hooks!limited_set \/ Hooks!Recover
  BY <1>1, StartHooks, SaveHooks, ReplaceHooks, LimitedHooks, RecoverHooks, TemplateCovered
<1>2. CASE Hooks!ScanFind
  <2>1. scan.pc = "devices" /\ UNCHANGED <<hostt, old, replace_done, limited, unhook>>
    BY <1>2 DEF Hooks!ScanFind
  <2>2. scan' \in Scans /\ scan'.pc \in {"devices", "save", "add", "over", "cut"} /\ SlotInv'
    BY <1>2, FindCovered
  <2>3. scan'.pc \in ScanPlaces \ {"off", "replace"}
    BY <2>2 DEF ScanPlaces
  <2> QED  BY <2>1, <2>2, <2>3, ScanHooks
<1>3. CASE Hooks!ScanFill
  <2>1. scan.pc = "add" /\ UNCHANGED <<hostt, old, replace_done, limited, unhook>>
    BY <1>3 DEF Hooks!ScanFill
  <2>2. scan' \in Scans /\ scan'.pc \in {"devices", "cut"} /\ SlotInv'
    BY <1>3, FillCovered
  <2>3. scan'.pc \in ScanPlaces \ {"off", "replace"}
    BY <2>2 DEF ScanPlaces
  <2> QED  BY <2>1, <2>2, <2>3, ScanHooks
<1>4. ASSUME NEW d \in Hooks!Disk,
             Hooks!Attach(d) \/ Hooks!Configure(d) \/ Hooks!ConfigureFill(d) \/ Hooks!Detach(d)
      PROVE  HookInv' /\ SlotInv'
  <2>1. UNCHANGED <<hostt, old, replace_done, scan, limited, unhook>>
    BY <1>4 DEF Hooks!Attach, Hooks!Configure, Hooks!ConfigureFill, Hooks!Detach,
                Hooks!hookVars
  <2> QED
    BY <1>4, <2>1, HookStays, AttachCovered, ConfigureCovered, ConfigureFillCovered,
       DetachCovered
<1>5. ASSUME NEW c \in Command,
             (\E d \in Hooks!Disk : Hooks!Dispatch(c, d)) \/ Hooks!Redispatch(c)
               \/ Hooks!Complete(c)
      PROVE  HookInv' /\ SlotInv'
  <2>1. UNCHANGED <<hostt, old, replace_done, scan, limited, unhook, disk, found, pool, odd>>
    BY <1>5 DEF Hooks!Dispatch, Hooks!Redispatch, Hooks!Complete, Hooks!hookVars,
                Hooks!diskVars
  <2> QED  BY <2>1, HookStays, SlotStays
<1> QED  BY <1>1, <1>2, <1>3, <1>4, <1>5 DEF Hooks!Next, Hooks!Scan

LEMMA HooksStay == HooksInv /\ UNCHANGED hooksVars => HooksInv'
<1> SUFFICES ASSUME HookInv, SlotInv, CommandInv, UNCHANGED hooksVars
             PROVE  HookInv' /\ SlotInv' /\ CommandInv'
  BY DEF HooksInv
<1>1. /\ UNCHANGED <<hostt, old, replace_done, scan, limited, unhook>>
      /\ UNCHANGED <<disk, found, pool, odd, cmd, bio, renewed>>
  BY DEF hooksVars
<1>2. CommandInv'
  BY <1>1 DEF CommandInv, WayBack, Hooks!NoCommand, Hooks!Prepared, Hooks!Nobody
<1> QED  BY <1>1, <1>2, HookStays, SlotStays

\* What the inductive invariants of the hooks are for.
LEMMA HooksGood ==
    ASSUME HooksInv
    PROVE  /\ Hooks!TypeOK /\ Hooks!EveryDiskHasSlot /\ Hooks!EndIoKept
           /\ Hooks!RestoredForGood
<1> USE DEF HooksInv
<1>1. Hooks!TypeOK
  <2>1. \A who : DOMAIN Hooks!Template(who) = Names
    BY Templates
  <2>2. DOMAIN hostt = Names /\ DOMAIN old = Names
    BY DEF HookInv, HookTypes
  <2>3. \A f \in Names : hostt[f] \in {"driver", "nvdisk"} /\ old[f] \in {"none", "driver"}
    BY DEF HookInv, HookTypes
  <2>4. scan.host \in 0 .. LastHost /\ scan.seen \subseteq Hooks!Disk
    BY ScanFields DEF HookInv, HookTypes
  <2>5. \A s \in Hooks!Slot : /\ pool[s].sdev \in Hooks!Disk \cup {Hooks!Nobody}
                              /\ pool[s].used \in BOOLEAN
    BY EntryTypes DEF SlotInv
  <2>6. /\ \A c \in Command : cmd[c].sdev \in Hooks!Disk \cup {Hooks!Nobody}
        /\ bio \in [Command -> {"own", "nvdisk", "none"}] /\ renewed \subseteq Command
    <3>1. \A c \in Command : cmd[c] \in Prepareds
      BY DEF CommandInv
    <3>2. \A r \in Prepareds : r.sdev \in Hooks!Disk \cup {Hooks!Nobody}
      BY DEF Prepareds
    <3> QED  BY <3>1, <3>2 DEF CommandInv, EndIos
  <2>7. replace_done \in BOOLEAN /\ limited \in BOOLEAN /\ unhook \in 0 .. 5
    BY DEF HookInv, HookTypes
  <2>8. /\ disk \in [Hooks!Disk -> {"absent", "new", "adding", "refused", "present"}]
        /\ found \in [Hooks!Disk -> 0 .. LastSlot] /\ odd \in BOOLEAN
    BY DEF SlotInv, SlotTypes, DiskStates
  <2> QED  BY <2>1, <2>2, <2>3, <2>4, <2>5, <2>6, <2>7, <2>8 DEF Hooks!TypeOK
<1>2. Hooks!EveryDiskHasSlot
  <2> SUFFICES ASSUME scan.pc \in {"over", "cut"}, ~limited, ~odd
               PROVE  /\ scan.pc = "over" => \A d \in Hooks!Disk :
                             d[1] \notin OtherHost /\ disk[d] = "present" => Hooks!Find(d) # 0
                      /\ \A s \in Hooks!Slot : pool[s].sdev # Hooks!Nobody =>
                             disk[pool[s].sdev] # "absent" /\ Hooks!Find(pool[s].sdev) = s
    BY DEF Hooks!EveryDiskHasSlot, Hooks!IsDisk
  <2>1. SlotTypes /\ Single /\ Known /\ Covered
    BY DEF SlotInv, OneEach
  <2>2. ASSUME scan.pc = "over", NEW d \in Hooks!Disk, d[1] \notin OtherHost,
               disk[d] = "present"
        PROVE  Hooks!Find(d) # 0
    <3>1. Held(d)
      BY <2>1, <2>2 DEF Covered, Pending
    <3> QED  BY <2>1, <3>1, FindSlot
  <2>3. ASSUME NEW s \in Hooks!Slot, pool[s].sdev # Hooks!Nobody
        PROVE  disk[pool[s].sdev] # "absent" /\ Hooks!Find(pool[s].sdev) = s
    <3>1. pool[s].used /\ pool[s].sdev \in Hooks!Disk
      BY <2>1, <2>3, EntryTypes DEF SlotTypes
    <3>2. PICK d \in Hooks!Disk : d = pool[s].sdev
      BY <3>1
    <3>3. Held(d)
      BY <3>1, <3>2 DEF Held
    <3>4. /\ Hooks!Find(d) \in Hooks!Slot /\ pool[Hooks!Find(d)].used
          /\ pool[Hooks!Find(d)].sdev = d
      BY <2>1, <3>3, FindSlot
    <3>5. Hooks!Find(d) = s
      BY <2>1, <3>1, <3>2, <3>4 DEF Single
    <3> QED  BY <2>1, <3>1, <3>2, <3>5 DEF Known
  <2> QED  BY <2>2, <2>3
<1>3. Hooks!EndIoKept
  BY DEF CommandInv, WayBack, Hooks!EndIoKept
<1>4. Hooks!RestoredForGood
  <2> SUFFICES ASSUME unhook = 5
               PROVE  hostt = Hooks!Template("driver")
    BY DEF Hooks!RestoredForGood
  <2>1. \A k \in 1 .. 4 : hostt[Hooks!Function[k]] = "driver"
    BY DEF HookInv, Hooking
  <2>2. \A f \in Names : hostt[f] = "driver"
    BY <2>1, FunctionNames
  <2>3. hostt = [f \in Names |-> hostt[f]]
    BY DEF HookInv, HookTypes
  <2> QED  BY <2>2, <2>3, Templates
<1> QED  BY <1>1, <1>2, <1>3, <1>4

-----------------------------------------------------------------------------
(* DiskHealth.                                                             *)

\* While nothing is issued or done the timeouts in a row are counted, but for
\* the first of them, which only remembers how much is outstanding.
Judged ==
    /\ total_tm_cnt <= timeouts /\ curr_tm_cnt <= timeouts /\ stuck <= timeouts
    /\ stuck # 0 => curr_prc_cnt = outstanding /\ curr_tm_cnt + 1 >= stuck
    /\ stuck > CurrFailMax => status = "fail"

HealthInv == Health!TypeOK /\ Judged

LEMMA HealthInit == Health!Init => HealthInv
BY TimeoutAssumption DEF Health!Init, HealthInv, Health!TypeOK, Judged

\* A timeout is where a disk is judged.
LEMMA TimeoutStep == HealthInv /\ Health!host_eh_timeout => HealthInv'
<1> SUFFICES ASSUME HealthInv, Health!host_eh_timeout
             PROVE  HealthInv'
  OBVIOUS
<1>1. Health!TypeOK /\ Judged
  BY DEF HealthInv
<1>2. /\ timeouts < MaxTimeouts /\ timeouts' = timeouts + 1 /\ stuck' = stuck + 1
      /\ total_tm_cnt' = total_tm_cnt + 1 /\ curr_prc_cnt' = outstanding
      /\ curr_tm_cnt' = (IF outstanding = curr_prc_cnt THEN curr_tm_cnt + 1 ELSE 0)
      /\ outstanding' = outstanding
      /\ Health!Judge(curr_tm_cnt', total_tm_cnt')
  BY DEF Health!host_eh_timeout
<1>3. /\ status' \in {"good", "err", "fail"} /\ told' \in {"nothing", "DISK_STATE", "DISK_ERR"}
      /\ curr_tm_cnt' >= CurrFailMax => status' = "fail"
  BY <1>1, <1>2 DEF Health!TypeOK, Health!Judge
<1>4. Health!TypeOK'
  BY <1>1, <1>2, <1>3, TimeoutAssumption DEF Health!TypeOK, Judged
<1>5. stuck # 0 => curr_tm_cnt' = curr_tm_cnt + 1
  BY <1>1, <1>2 DEF Judged
<1>6. curr_tm_cnt' + 1 >= stuck'
  BY <1>1, <1>2, <1>4, <1>5 DEF Health!TypeOK, Judged
<1>7. Judged'
  BY <1>1, <1>2, <1>3, <1>4, <1>6, TimeoutAssumption DEF Health!TypeOK, Judged
<1> QED  BY <1>4, <1>7 DEF HealthInv

LEMMA HealthStep == HealthInv /\ Health!Next => HealthInv'
<1> SUFFICES ASSUME HealthInv, Health!Next
             PROVE  HealthInv'
  OBVIOUS
<1>1. CASE Health!Issue \/ Health!Done
  BY <1>1, TimeoutAssumption
     DEF HealthInv, Health!TypeOK, Judged, Health!Issue, Health!Done, Health!Progress,
         Health!counters
<1>2. CASE Health!Replug
  BY <1>2, TimeoutAssumption DEF HealthInv, Health!TypeOK, Judged, Health!Replug
<1> QED  BY <1>1, <1>2, TimeoutStep DEF Health!Next

LEMMA HealthStays == HealthInv /\ UNCHANGED healthVars => HealthInv'
BY DEF HealthInv, healthVars, Health!TypeOK, Judged

\* What the inductive invariant of the judgement of disks is for.
LEMMA HealthSafe == HealthInv => Health!TypeOK /\ Health!StuckIsFailed
BY DEF HealthInv, Judged, Health!StuckIsFailed

\* A disk fails in one place, and is only good again in Replug.
LEMMA HealthFails ==
    ASSUME Health!Next \/ UNCHANGED healthVars
    PROVE  /\ status = "fail" => status' = "fail" \/ Health!Replug
           /\ (status # "fail" /\ status' = "fail") => told' = "DISK_STATE"
BY DEF Health!Next, Health!Issue, Health!Done, Health!Progress, Health!host_eh_timeout,
       Health!Judge, Health!Replug, healthVars

-----------------------------------------------------------------------------
(* The programs together.                                                  *)

\* Each takes its own steps or none.
LEMMA OwnSteps ==
    ASSUME [Next]_vars
    PROVE  /\ Joke!Next \/ UNCHANGED jokeVars
           /\ Net!Next \/ UNCHANGED netVars
           /\ Runner!Next \/ UNCHANGED runnerVars
           /\ Stamps!Next \/ UNCHANGED stampsVars
           /\ Hooks!Next \/ UNCHANGED hooksVars
           /\ Health!Next \/ UNCHANGED healthVars
BY DEF Next, JokeNext, NetNext, RunnerNext, StampsNext, HooksNext, HealthNext, vars,
       goVars, cometVars, nvdiskVars

\* The inductive invariants hold in every behaviour.
LEMMA ServicesInductive == Spec => [](JokeInv /\ NetInv)
<1>1. Init => JokeInv /\ NetInv
  BY JokeInit, NetInit DEF Init
<1>2. (JokeInv /\ NetInv) /\ [Next]_vars => (JokeInv /\ NetInv)'
  BY OwnSteps, JokeStep, JokeStays, NetStep, NetStays
<1> QED  BY <1>1, <1>2, PTL DEF Spec

LEMMA HealthInductive == Spec => []HealthInv
<1>1. Init => HealthInv
  BY HealthInit DEF Init
<1>2. HealthInv /\ [Next]_vars => HealthInv'
  BY OwnSteps, HealthStep, HealthStays
<1> QED  BY <1>1, <1>2, PTL DEF Spec

\* A request for a joke leaves at most one goroutine behind, blocked on a
\* channel nobody reads, the statistics are right unless two increments
\* overlapped, and the list of networks has a place for each that is there.
THEOREM Services == Spec => []ServicesSafe
<1>1. JokeInv /\ NetInv => ServicesSafe
  BY JokeSafe, NetSafe DEF ServicesSafe
<1> QED  BY <1>1, ServicesInductive, PTL

\* A network that was deleted stays so while the body of a PUT that found it is
\* awaited, and a disk that has failed does until it is plugged in again.
THEOREM Ends == Spec => EndsForGood
<1>1. (JokeInv /\ NetInv) /\ [Next]_vars =>
         [Net!StaysDeleted]_(Net!vars)
  <2> SUFFICES ASSUME NetInv, [Next]_vars, NEW u \in issued \ Net!Stored
               PROVE  u \notin DOMAIN networks'
    BY DEF Net!StaysDeleted
  <2> QED  BY OwnSteps, NetDeleted
<1>2. [Next]_vars => [Health!StaysFailed]_(Health!vars)
  BY OwnSteps, HealthFails DEF Health!StaysFailed
<1>3. Spec => Net!DeletedForGood
  BY <1>1, ServicesInductive, PTL DEF Spec, Net!DeletedForGood
<1>4. Spec => Health!FailedForGood
  BY <1>2, PTL DEF Spec, Health!FailedForGood
<1> QED  BY <1>3, <1>4 DEF EndsForGood

\* A thread of the comet tests goes by the verdict of its own test and deletes
\* the volumes it can, the report is made of the output of all tests, and
\* check-vol.py accepts the files without a gap, among them those of volumes that
\* lost nothing and of whose stamps etcd was told.
THEOREM Tests == Spec => []TestsSafe
<1>1. Init => RunnerInv /\ StampsInv
  BY RunnerInit, StampsInit DEF Init
<1>2. (RunnerInv /\ StampsInv) /\ [Next]_vars => (RunnerInv /\ StampsInv)'
  BY OwnSteps, RunnerStep, RunnerStays, StampsStep, StampsStay
<1>3. RunnerInv /\ StampsInv => TestsSafe
  BY RunnerSafe, StampsSafe DEF TestsSafe
<1> QED  BY <1>1, <1>2, <1>3, PTL DEF Spec

LEMMA HooksInductive == Spec => []HooksInv
<1>1. Init => HooksInv
  BY HooksInit DEF Init
<1>2. HooksInv /\ [Next]_vars => HooksInv'
  BY OwnSteps, HooksStep, HooksStay
<1> QED  BY <1>1, <1>2, PTL DEF Spec

\* After a scan that was not cut short nvdisk has each disk in one slot, and no
\* other slot is taken, unless a registration went wrong; and a disk on which
\* nothing moves is failed in time.
THEOREM Disks == Spec => []DisksSafe
<1>1. HooksInv /\ HealthInv => DisksSafe
  BY HooksGood, HealthSafe DEF DisksSafe
<1> QED  BY <1>1, HooksInductive, HealthInductive, PTL

\* nvd_bio_end_io has a function of the owner to call, unless the command was
\* prepared anew, and functions that were put back stay so, in whatever order
\* the hooks come and go and commands are dispatched, repeated and completed.
THEOREM Functions == Spec => []HooksSafe
<1>1. HooksInv => HooksSafe
  BY HooksGood DEF HooksSafe
<1> QED  BY <1>1, HooksInductive, PTL
=============================================================================
