---------------------------- MODULE NetworkStore ----------------------------
(***************************************************************************)
(* The network store (appnet/api-server/antman.go): handlers that read and *)
(* change one map of networks under a read-write lock.  PUT decodes the    *)
(* body of its request while it holds the lock, POST before it takes it.   *)
(***************************************************************************)
EXTENDS Naturals, FiniteSets

CONSTANTS
    Client,   \* connections, each with one request at a time
    Uuid,     \* identifiers uuid.Rand can give, each once
    Network   \* contents of a network

VARIABLES
    Store,    \* [uuid -> network], for the networks there are
    issued,   \* identifiers given so far
    writer,   \* who holds the lock for writing, as a set
    readers,  \* who holds it for reading
    pc,       \* where each handler stands
    op,       \* the request it serves
    id,       \* the identifier in its path
    body,     \* the network it has decoded
    size      \* the length of the list it returns

requestVars == <<op, id, body>>
vars == <<Store, issued, writer, readers, pc, op, id, body, size>>

Operation == {"get", "pool", "post", "put", "delete"}
Stored == DOMAIN Store

\* Store with a network put under i, and without i.
With(i, n) == [j \in Stored \cup {i} |-> IF j = i THEN n ELSE Store[j]]
Without(i) == [j \in Stored \ {i} |-> Store[j]]

Goto(c, label) == pc' = [pc EXCEPT ![c] = label]

-----------------------------------------------------------------------------

\* A request comes in.
Call(c, o, i) ==
    /\ pc[c] = "idle"
    /\ op' = [op EXCEPT ![c] = o]
    /\ id' = [id EXCEPT ![c] = i]
    /\ Goto(c, CASE o \in {"get", "pool"} -> "rlock"
                 [] o = "post" -> "decode"
                 [] OTHER -> "lock")
    /\ UNCHANGED <<Store, issued, writer, readers, body, size>>

Lock(c) ==
    /\ pc[c] = "lock"
    /\ writer = {} /\ readers = {}
    /\ writer' = {c}
    /\ Goto(c, "write")
    /\ UNCHANGED <<Store, issued, readers, requestVars, size>>

Unlock(c) == writer' = {} /\ Goto(c, "idle") /\ UNCHANGED readers

RLock(c) ==
    /\ pc[c] = "rlock"
    /\ writer = {}
    /\ readers' = readers \cup {c}
    /\ Goto(c, "read")
    /\ UNCHANGED <<Store, issued, writer, requestVars, size>>

\* GetNetworkUuid: the network is copied, or there is none.
Get(c) ==
    /\ pc[c] = "read" /\ op[c] = "get"
    /\ readers' = readers \ {c}
    /\ Goto(c, "idle")
    /\ UNCHANGED <<Store, issued, writer, requestVars, size>>

\* Faulty: the lock is given back when the list has been made.
PoolMake_Unlocks(c) ==
    /\ pc[c] = "read" /\ op[c] = "pool"
    /\ size' = [size EXCEPT ![c] = Cardinality(Stored)]
    /\ readers' = readers \ {c}
    /\ Goto(c, "fill")
    /\ UNCHANGED <<Store, issued, writer, requestVars>>

\* GetNetworkPool makes the list, and fills it.
PoolMake(c) ==
    /\ pc[c] = "read" /\ op[c] = "pool"
    /\ size' = [size EXCEPT ![c] = Cardinality(Stored)]
    /\ Goto(c, "fill")
    /\ UNCHANGED <<Store, issued, writer, readers, requestVars>>

PoolFill(c) ==
    /\ pc[c] = "fill"
    /\ readers' = readers \ {c}
    /\ Goto(c, "idle")
    /\ UNCHANGED <<Store, issued, writer, requestVars, size>>

\* PostNetwork, which answers a body it cannot decode with an error.
PostDecode(c) ==
    /\ pc[c] = "decode"
    /\ \/ Goto(c, "idle") /\ body' = body
       \/ \E n \in Network :
            /\ body' = [body EXCEPT ![c] = n]
            /\ Goto(c, "lock")
    /\ UNCHANGED <<Store, issued, writer, readers, op, id, size>>

PostInsert(c) ==
    /\ pc[c] = "write" /\ op[c] = "post"
    /\ \E i \in Uuid \ issued :
         /\ issued' = issued \cup {i}
         /\ Store' = With(i, body[c])
    /\ Unlock(c)
    /\ UNCHANGED <<requestVars, size>>

\* Faulty: the lock is given back while the body is decoded.
PutLookup_Unlocks(c) ==
    /\ pc[c] = "write" /\ op[c] = "put"
    /\ writer' = {}
    /\ Goto(c, IF id[c] \in Stored THEN "body" ELSE "idle")
    /\ UNCHANGED <<Store, issued, readers, requestVars, size>>

\* PutNetworkUuid: no such network, or its body is decoded under the lock.
PutLookup(c) ==
    /\ pc[c] = "write" /\ op[c] = "put"
    /\ IF id[c] \in Stored
       THEN Goto(c, "body") /\ UNCHANGED <<writer, readers>>
       ELSE Unlock(c)
    /\ UNCHANGED <<Store, issued, requestVars, size>>

PutDecode(c) ==
    /\ pc[c] = "body"
    /\ \/ Store' = Store
       \/ \E n \in Network : Store' = With(id[c], n)
    /\ Unlock(c)
    /\ UNCHANGED <<issued, requestVars, size>>

DeleteNetwork(c) ==
    /\ pc[c] = "write" /\ op[c] = "delete"
    /\ Store' = Without(id[c])
    /\ Unlock(c)
    /\ UNCHANGED <<issued, requestVars, size>>

-----------------------------------------------------------------------------

Init ==
    /\ Store = [i \in {} |-> CHOOSE n \in Network : TRUE]
    /\ issued = {}
    /\ writer = {} /\ readers = {}
    /\ pc = [c \in Client |-> "idle"]
    /\ op = [c \in Client |-> "get"]
    /\ id = [c \in Client |-> CHOOSE i \in Uuid : TRUE]
    /\ body = [c \in Client |-> CHOOSE n \in Network : TRUE]
    /\ size = [c \in Client |-> 0]

\* What a handler does by itself.
Work(c) ==
    \/ Get(c) \/ PoolMake(c) \/ PoolFill(c)
    \/ PostInsert(c) \/ PutLookup(c) \/ DeleteNetwork(c)

\* What waits for the body of a request: for ever, if it does not arrive, as
\* http.ListenAndServe sets no time limit.
Decode(c) == PostDecode(c) \/ PutDecode(c)

\* Bound: no more POST requests than identifiers.
MayPost(c) ==
    Cardinality(issued) +
      Cardinality({d \in Client \ {c} : op[d] = "post" /\ pc[d] # "idle"})
        < Cardinality(Uuid)

Next ==
    \E c \in Client :
        \/ \E o \in Operation, i \in Uuid :
             (o = "post" => MayPost(c)) /\ Call(c, o, i)
        \/ Lock(c) \/ RLock(c) \/ Work(c) \/ Decode(c)

Spec == Init /\ [][Next]_vars

\* Handlers run, and sync.RWMutex lets nobody starve.  That a body arrives
\* nobody sees to.
Fairness ==
    \A c \in Client : WF_vars(Work(c)) /\ SF_vars(Lock(c) \/ RLock(c))

FairSpec == Spec /\ Fairness

-----------------------------------------------------------------------------
(* Properties.                                                             *)

TypeOK ==
    /\ Store \in UNION {[I -> Network] : I \in SUBSET Uuid}
    /\ issued \subseteq Uuid /\ Stored \subseteq issued
    /\ writer \subseteq Client /\ readers \subseteq Client
    /\ pc \in [Client -> {"idle", "rlock", "read", "fill", "decode", "lock",
                          "write", "body"}]
    /\ op \in [Client -> Operation] /\ id \in [Client -> Uuid]
    /\ body \in [Client -> Network]
    /\ size \in [Client -> 0..Cardinality(Uuid)]

\* The list a handler fills has a place for each network, and no more: the
\* map does not change between make and the loop, whoever else is served.
PoolFits == \A c \in Client : pc[c] = "fill" => size[c] = Cardinality(Stored)

\* A network that was deleted does not come back, however long the body of a
\* PUT that found it takes to arrive.
StaysDeleted == \A i \in issued \ Stored : i \notin DOMAIN Store'

DeletedForGood == [][StaysDeleted]_vars

\* A request is answered if its own body arrives and those of the PUTs do, of
\* all clients: a handler that waits for the body of a PUT holds the lock, and a
\* client that sends none keeps everybody waiting.  One that sends no body of a
\* POST keeps nobody.
EveryCallReturns ==
    \A c \in Client :
        ([]<>(pc[c] # "decode") /\ \A d \in Client : []<>(pc[d] # "body"))
            => []<>(pc[c] = "idle")

=============================================================================
