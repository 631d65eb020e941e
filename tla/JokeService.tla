----------------------------- MODULE JokeService -----------------------------
(***************************************************************************)
(* The joke service (joke/joke-service.go): the handler of a request, the  *)
(* two goroutines it starts to fetch a name and a joke, the unbuffered     *)
(* channels on which they hand over what they got, and the statistics all  *)
(* handlers update without a lock.                                         *)
(***************************************************************************)
EXTENDS Naturals, FiniteSets

CONSTANTS
    Request,  \* requests for a joke, each made once
    Limit     \* answers that are no name before the fetch gives up (10)

VARIABLES
    pc,       \* where the handler of each request stands
    fetcher,  \* where its goroutines stand
    count,    \* how often the name has been asked for in vain
    parsed,   \* results the handler has received and decoded
    loaded,   \* the counter it has loaded and not yet stored
    Stat,
    raced     \* history: two handlers were at one counter at a time

vars == <<pc, fetcher, count, parsed, loaded, Stat, raced>>

Url == {"name", "joke"}
Answered == {"ok", "error"}

\* Blocked on datac, with what can be decoded or not, or on errc.
Sending == {"good", "bad", "failed"}

Goto(r, label) == pc' = [pc EXCEPT ![r] = label]

-----------------------------------------------------------------------------
(* getJokeHandlerV1.                                                       *)

Arrive(r) ==
    /\ pc[r] = "new"
    /\ Goto(r, "loadTotal")
    /\ UNCHANGED <<fetcher, count, parsed, loaded, Stat, raced>>

\* The two halves of s.Stat.TotalReq++ and s.Stat.ErrReq++.
Load(r, counter, here, next) ==
    /\ pc[r] = here
    /\ loaded' = [loaded EXCEPT ![r] = Stat[counter]]
    /\ raced' = (raced \/ \E q \in Request : pc[q] = next)
    /\ Goto(r, next)
    /\ UNCHANGED <<fetcher, count, parsed, Stat>>

Store(r, counter, here) ==
    /\ pc[r] = here
    /\ Stat' = [Stat EXCEPT ![counter] = loaded[r] + 1]
    /\ loaded' = [loaded EXCEPT ![r] = 0]
    /\ UNCHANGED <<count, parsed, raced>>

CountRequest(r) ==
    \/ Load(r, "TotalReq", "loadTotal", "storeTotal")
    \/ /\ Store(r, "TotalReq", "storeTotal")
       /\ fetcher' = [fetcher EXCEPT ![r] = [u \in Url |-> "get"]]
       /\ Goto(r, "select")

CountError(r) ==
    \/ Load(r, "ErrReq", "loadErr", "storeErr")
    \/ /\ Store(r, "ErrReq", "storeErr")
       /\ Goto(r, "error")
       /\ fetcher' = fetcher

\* The select: the first result that is an error, or that is no JSON, is
\* answered at once, and nobody receives what comes after it.
Receive(r, u) ==
    /\ pc[r] = "select"
    /\ fetcher[r][u] \in Sending
    /\ fetcher' = [fetcher EXCEPT ![r][u] = "done"]
    /\ parsed' = IF fetcher[r][u] = "good"
                 THEN [parsed EXCEPT ![r] = @ \cup {u}] ELSE parsed
    /\ Goto(r, IF fetcher[r][u] # "good" THEN "loadErr"
               ELSE IF parsed'[r] = Url THEN "ok" ELSE "select")
    /\ UNCHANGED <<count, loaded, Stat, raced>>

-----------------------------------------------------------------------------
(* fetchWithTimeout.                                                       *)

\* What the goroutine does next, and whether it counts one more attempt.
Fetched(r, u, next, again) ==
    /\ fetcher[r][u] = "get"
    /\ fetcher' = [fetcher EXCEPT ![r][u] = next]
    /\ count' = IF again THEN [count EXCEPT ![r] = @ + 1] ELSE count
    /\ UNCHANGED <<pc, parsed, loaded, Stat, raced>>

\* Faulty: the name is asked for until there is one.
NoName_Forever(r) == Fetched(r, "name", "wait", FALSE)

\* An answer that is no name is waited out, a number of times.
NoName(r) ==
    IF count[r] > Limit THEN Fetched(r, "name", "failed", FALSE)
                        ELSE Fetched(r, "name", "wait", TRUE)

Fetch(r) ==
    \/ \E u \in Url, result \in {"good", "failed"} : Fetched(r, u, result, FALSE)
    \/ Fetched(r, "joke", "bad", FALSE)
    \/ NoName(r)

\* <-time.After(1 * time.Second)
Retry(r) ==
    /\ fetcher[r]["name"] = "wait"
    /\ fetcher' = [fetcher EXCEPT ![r]["name"] = "get"]
    /\ UNCHANGED <<pc, count, parsed, loaded, Stat, raced>>

-----------------------------------------------------------------------------

Init ==
    /\ pc = [r \in Request |-> "new"]
    /\ fetcher = [r \in Request |-> [u \in Url |-> "off"]]
    /\ count = [r \in Request |-> 0]
    /\ parsed = [r \in Request |-> {}]
    /\ loaded = [r \in Request |-> 0]
    /\ Stat = [TotalReq |-> 0, ErrReq |-> 0]
    /\ raced = FALSE

Serve(r) ==
    \/ CountRequest(r) \/ CountError(r)
    \/ \E u \in Url : Receive(r, u)
    \/ Fetch(r) \/ Retry(r)

Next == \E r \in Request : Arrive(r) \/ Serve(r)

Spec == Init /\ [][Next]_vars

\* Goroutines that can run do, and the HTTP client has a timeout.
Fairness ==
    \A r \in Request :
        /\ WF_vars(CountRequest(r) \/ CountError(r) \/ \E u \in Url : Receive(r, u))
        /\ \A u \in Url : WF_vars(Fetch(r) /\ fetcher'[r][u] # fetcher[r][u])
        /\ WF_vars(Retry(r))

FairSpec == Spec /\ Fairness

-----------------------------------------------------------------------------
(* Properties.                                                             *)

TypeOK ==
    /\ pc \in [Request -> {"new", "loadTotal", "storeTotal", "select", "loadErr",
                           "storeErr"} \cup Answered]
    /\ fetcher \in [Request -> [Url -> {"off", "get", "wait", "done"} \cup Sending]]
    /\ count \in [Request -> 0..(Limit + 1)]
    /\ parsed \in [Request -> SUBSET Url]
    /\ loaded \in [Request -> 0..Cardinality(Request)]
    /\ Stat \in [{"TotalReq", "ErrReq"} -> 0..Cardinality(Request)]
    /\ raced \in BOOLEAN

\* A request that got its joke leaves no goroutine behind; one that got an
\* error leaves at most one, blocked on a channel nobody reads any more.
LeavesAtMostOne ==
    \A r \in Request :
        LET left == {u \in Url : fetcher[r][u] # "done"} IN
            /\ pc[r] = "ok" => left = {}
            /\ pc[r] = "error" => Cardinality(left) <= 1

\* When nobody is being served, the statistics count the requests and the
\* errors, unless two handlers once incremented one counter at a time.
StatAccounted ==
    (~raced /\ \A r \in Request : pc[r] \in {"new"} \cup Answered) =>
        /\ Stat.TotalReq = Cardinality({r \in Request : pc[r] \in Answered})
        /\ Stat.ErrReq = Cardinality({r \in Request : pc[r] = "error"})

\* Every request is answered, whatever the two servers answer or fail to.
EveryRequestAnswered ==
    \A r \in Request : (pc[r] # "new") ~> (pc[r] \in Answered)

=============================================================================
