----------------------------- MODULE NetlinkQueue -----------------------------
(***************************************************************************)
(* The events nvdisk sends to user space (netlink.c and its client,        *)
(* ntlk_demo.c).  Message nodes wait in a pool; netlink_enq takes one on   *)
(* any processor, fills it and appends it to the queue; a kernel thread    *)
(* broadcasts the queue's nodes and puts them back, each only after the    *)
(* client has asked for it by a message of its own (client_ready).  The    *)
(* two lists are pointers (KernelList), for most of what can go wrong here *)
(* goes wrong in them.                                                     *)
(*                                                                         *)
(* What the kernel does after it has used something that is not a node, a  *)
(* thread or code any more (broken) is not modelled.                       *)
(***************************************************************************)
EXTENDS Naturals, FiniteSets, SequencesExt

CONSTANTS
    Node,       \* NODE_NUM_MAX message nodes
    Cpu,        \* processors that report events
    Event, NoEvent,
    MsgHead,    \* G_nl_msg_head
    FreeHead,   \* G_free_msg_head
    Poison,     \* LIST_POISON1, LIST_POISON2
    MaxCredit   \* bound: requests and messages under way to and from clients

ASSUME NodeAssumption ==
    /\ IsFiniteSet(Node) /\ Node # {}
    /\ MsgHead \notin Node /\ FreeHead \notin Node /\ MsgHead # FreeHead
    /\ Poison \notin Node \cup {MsgHead, FreeHead}
ASSUME CreditAssumption == MaxCredit \in Nat \ {0} /\ NoEvent \notin Event

VARIABLES
    link,     \* the links of the two lists
    msg,      \* the message in each node (in the pool, where the old one stays, nobody reads it)
    enq,      \* the call of netlink_enq on each processor
    thread,   \* netlink_thread: where it is, its loop variables, its task state
    credit,   \* what the completion client_ready has counted
    module,   \* where nvdisk_init and nvdisk_exit are, and the loop of the latter
    hooked,   \* nvdisk is called, by the host templates or by commands begun with them
    expired,  \* the clock has passed EXPIRED_TIME_JIFFIES
    limited,  \* g_limited
    client,   \* the client: down, about to ask, waiting for a message
    answers,  \* the number of messages in its socket
    broken,   \* history: memory that is no node, a dead thread or unloaded code was used
    orphan,   \* history: the client waits for an answer to a request to an earlier module
    restarted \* history: a client has ended since the module was loaded, or is older

moduleVars == <<module, hooked, limited, expired>>
clientVars == <<client, answers>>
history == <<orphan, restarted>>
vars == <<link, msg, enq, thread, credit, moduleVars, clientVars, broken, history>>

Cell == Node \cup {MsgHead, FreeHead}

INSTANCE KernelList

Queue == Members(link, MsgHead)
Pool  == Members(link, FreeHead)

NoCall == [pc |-> "idle", node |-> FreeHead, event |-> NoEvent]
Loaded == module.pc # "absent"

\* Requests that are not answered yet, and answers that are not taken yet.
UnderWay == credit + (IF thread.pc = "check" THEN 1 ELSE 0) + answers

\* list_add_tail of c to h in the kernel's memory.
Put(c, h) ==
    IF link.prev[h] = Poison
    THEN link' = link /\ broken' = TRUE
    ELSE link' = AddTail(link, c, h) /\ broken' = broken

-----------------------------------------------------------------------------
(* netlink_enq, called by completions, time-outs and configuration.        *)

\* netlink_node_get looks at the pool without the lock.  With an empty pool
\* the event is dropped, and nothing changes.
EnqTest(c, e) ==
    /\ ~broken /\ hooked
    /\ enq[c].pc = "idle"
    /\ ~ListEmpty(link, FreeHead)
    /\ enq' = [enq EXCEPT ![c] = [pc |-> "get", node |-> FreeHead, event |-> e]]
    /\ UNCHANGED <<link, msg, thread, credit, moduleVars, clientVars, broken, history>>

\* It takes the first entry under the lock, whatever that is by now.
EnqGet(c) ==
    /\ ~broken
    /\ enq[c].pc = "get"
    /\ LET n == link.next[FreeHead] IN
         IF n \in Node /\ Linked(link, n)
         THEN /\ link' = Del(link, n)
              /\ enq' = [enq EXCEPT ![c].pc = "fill", ![c].node = n]
              /\ broken' = broken
         ELSE broken' = TRUE /\ UNCHANGED <<link, enq>>
    /\ UNCHANGED <<msg, thread, credit, moduleVars, clientVars, history>>

\* Faulty: list_add.
EnqAdd_First(c) ==
    /\ ~broken
    /\ enq[c].pc = "fill"
    /\ msg' = [msg EXCEPT ![enq[c].node] = enq[c].event]
    /\ Put(enq[c].node, link.next[MsgHead])
    /\ enq' = [enq EXCEPT ![c] = [NoCall EXCEPT !.pc = "wake"]]
    /\ UNCHANGED <<thread, credit, moduleVars, clientVars, history>>

\* The node is filled, and appended under the lock.
EnqAdd(c) ==
    /\ ~broken
    /\ enq[c].pc = "fill"
    /\ msg' = [msg EXCEPT ![enq[c].node] = enq[c].event]
    /\ Put(enq[c].node, MsgHead)
    /\ enq' = [enq EXCEPT ![c] = [NoCall EXCEPT !.pc = "wake"]]
    /\ UNCHANGED <<thread, credit, moduleVars, clientVars, history>>

\* Faulty: the thread is not woken.
EnqWake_Silent(c) ==
    /\ ~broken
    /\ enq[c].pc = "wake"
    /\ enq' = [enq EXCEPT ![c] = NoCall]
    /\ UNCHANGED <<link, msg, thread, credit, moduleVars, clientVars, broken, history>>

\* wake_up_process(Gp_ntlk).
EnqWake(c) ==
    /\ ~broken
    /\ enq[c].pc = "wake"
    /\ enq' = [enq EXCEPT ![c] = NoCall]
    /\ broken' = (thread.pc \in {"dead", "ended"})
    /\ thread' = [thread EXCEPT !.task = "running"]
    /\ UNCHANGED <<link, msg, credit, moduleVars, clientVars, history>>

-----------------------------------------------------------------------------
(* netlink_thread.                                                         *)

ThreadGoes(from, to) ==
    /\ ~broken
    /\ thread.pc = from
    /\ thread' = [thread EXCEPT !.pc = to]

\* Outside the loop over the queue its variables do not matter.
AtLoop == [pc |-> "loop", pos |-> MsgHead, nxt |-> MsgHead, task |-> "running"]

\* while (!kthread_should_stop())
ThreadLoop ==
    /\ ThreadGoes("loop", IF module.pc = "stop" THEN "ended" ELSE "mark")
    /\ UNCHANGED <<link, msg, enq, credit, moduleVars, clientVars, broken, history>>

\* __set_current_state(TASK_INTERRUPTIBLE)
ThreadMark ==
    /\ ~broken
    /\ thread.pc = "mark"
    /\ thread' = [thread EXCEPT !.pc = "test", !.task = "interruptible"]
    /\ UNCHANGED <<link, msg, enq, credit, moduleVars, clientVars, broken, history>>

\* schedule() only if the queue is empty.
ThreadTest ==
    /\ ThreadGoes("test", IF ListEmpty(link, MsgHead) THEN "sleep" ELSE "scan")
    /\ UNCHANGED <<link, msg, enq, credit, moduleVars, clientVars, broken, history>>

\* schedule() returns when the task has been woken, perhaps before.
ThreadSleep ==
    /\ thread.task = "running"
    /\ ThreadGoes("sleep", "scan")
    /\ UNCHANGED <<link, msg, enq, credit, moduleVars, clientVars, broken, history>>

\* list_for_each_safe begins, if there is something.
ThreadScan ==
    /\ ~broken
    /\ thread.pc = "scan"
    /\ LET first == link.next[MsgHead] IN
         thread' = IF ListEmpty(link, MsgHead)
                   THEN AtLoop
                   ELSE [pc |-> "wait", pos |-> first, nxt |-> link.next[first],
                         task |-> "running"]
    /\ UNCHANGED <<link, msg, enq, credit, moduleVars, clientVars, broken, history>>

\* Faulty: the completion is not counted down.
ThreadWait_All ==
    /\ credit > 0
    /\ ThreadGoes("wait", "check")
    /\ UNCHANGED <<link, msg, enq, credit, moduleVars, clientVars, broken, history>>

\* wait_for_completion(&client_ready), without the lock.
ThreadWait ==
    /\ credit > 0
    /\ ThreadGoes("wait", "check")
    /\ credit' = credit - 1
    /\ UNCHANGED <<link, msg, enq, moduleVars, clientVars, broken, history>>

\* After the end of its time the module takes itself out of the templates;
\* commands under way may still complete through it.
ThreadLimit ==
    /\ expired
    /\ ThreadGoes("check", "lapse")
    /\ limited' = TRUE
    /\ hooked' \in {FALSE, hooked}
    /\ UNCHANGED <<link, msg, enq, credit, module, expired, clientVars, broken, history>>

\* The node goes back to the pool, and is still in the queue.
ThreadLapse ==
    /\ ~broken
    /\ thread.pc = "lapse"
    /\ Put(thread.pos, FreeHead)
    /\ msg' = [n \in Node |-> IF n = thread.pos THEN NoEvent ELSE msg[n]]
    /\ thread' = [thread EXCEPT !.pc = "advance"]
    /\ UNCHANGED <<enq, credit, moduleVars, clientVars, history>>

\* netlink_broadcast: who does not listen misses the message.
ThreadSend ==
    /\ ~expired
    /\ ThreadGoes("check", "del")
    /\ answers' = IF client = "down" THEN answers ELSE answers + 1
    /\ UNCHANGED <<link, msg, enq, credit, moduleVars, client, broken, history>>

\* Without memory for the message the thread returns.
ThreadFail ==
    /\ ~expired
    /\ ThreadGoes("check", "dead")
    /\ UNCHANGED <<link, msg, enq, credit, moduleVars, clientVars, broken, history>>

\* Faulty: the node stays in the queue.
ThreadDel_Forgets ==
    /\ ThreadGoes("del", "put")
    /\ UNCHANGED <<link, msg, enq, credit, moduleVars, clientVars, broken, history>>

\* list_del under the queue's lock,
ThreadDel ==
    /\ ThreadGoes("del", "put")
    /\ link' = Del(link, thread.pos)
    /\ UNCHANGED <<msg, enq, credit, moduleVars, clientVars, broken, history>>

\* and netlink_node_put under the pool's.
ThreadPut ==
    /\ ~broken
    /\ thread.pc = "put"
    /\ Put(thread.pos, FreeHead)
    /\ msg' = [n \in Node |-> IF n = thread.pos THEN NoEvent ELSE msg[n]]
    /\ thread' = [thread EXCEPT !.pc = "advance"]
    /\ UNCHANGED <<enq, credit, moduleVars, clientVars, history>>

\* The loop goes on with the entry it had seen behind the one it has done.
ThreadAdvance ==
    /\ ~broken
    /\ thread.pc = "advance"
    /\ IF thread.nxt = Poison
       THEN broken' = TRUE /\ thread' = thread
       ELSE /\ broken' = broken
            /\ thread' = IF thread.nxt = MsgHead
                         THEN AtLoop
                         ELSE [thread EXCEPT !.pc = "wait", !.pos = thread.nxt,
                                             !.nxt = link.next[thread.nxt]]
    /\ UNCHANGED <<link, msg, enq, credit, moduleVars, clientVars, history>>

-----------------------------------------------------------------------------
(* The client.                                                             *)

ClientStart ==
    /\ ~broken
    /\ Loaded /\ client = "down"
    /\ UnderWay < MaxCredit
    /\ client' = "ask"
    /\ UNCHANGED <<link, msg, enq, thread, credit, moduleVars, answers, broken, history>>

\* Its empty message calls netlink_data_reply; without a module sendmsg
\* returns -1, which the client does not look at.
ClientAsk ==
    /\ ~broken
    /\ client = "ask"
    /\ client' = "wait"
    /\ credit' = IF Loaded THEN credit + 1 ELSE credit
    /\ UNCHANGED <<link, msg, enq, thread, moduleVars, answers, broken, history>>

ClientReceive ==
    /\ ~broken
    /\ client = "wait" /\ answers > 0
    /\ client' = "ask"
    /\ answers' = answers - 1
    /\ UNCHANGED <<link, msg, enq, thread, credit, moduleVars, broken, history>>

ClientEnd ==
    /\ ~broken
    /\ client # "down"
    /\ client' = "down" /\ answers' = 0
    /\ orphan' = FALSE
    /\ restarted' = TRUE
    /\ UNCHANGED <<link, msg, enq, thread, credit, moduleVars, broken>>

-----------------------------------------------------------------------------
(* nvdisk_init, nvdisk_exit.                                               *)

\* The pool with the first k of the nodes.
PoolOf(k) ==
    LET links[n \in 0 .. Cardinality(Node)] ==
            IF n = 0 THEN Fresh({MsgHead, FreeHead})
                     ELSE AddTail(links[n - 1], SetToSeq(Node)[n], FreeHead)
    IN links[k]

\* A module is loaded: statics, socket, nodes, thread.  It enters the host
\* templates unless its time is over or memory has run out, in which case
\* nvdisk_init returns a positive number, and the module stays.
Load ==
    /\ ~broken /\ ~Loaded
    /\ \E k \in 0 .. Cardinality(Node) :
         /\ link' = PoolOf(k)
         /\ IF k = Cardinality(Node)
            THEN thread' = AtLoop
            ELSE thread' = [AtLoop EXCEPT !.pc = "none"]
         /\ hooked' = (k = Cardinality(Node) /\ ~expired)
    /\ limited' = expired
    /\ msg' = [n \in Node |-> NoEvent]
    /\ credit' = 0
    /\ module' = [pc |-> "on", pos |-> FreeHead, nxt |-> FreeHead]
    /\ orphan' = (client = "wait" /\ answers = 0)
    /\ restarted' = (client # "down")
    /\ UNCHANGED <<enq, expired, clientVars, broken>>

\* kthread_stop marks the thread and wakes it; a thread that has returned is
\* no thread any more.
ExitStop ==
    /\ ~broken
    /\ module.pc = "on"
    /\ module' = [module EXCEPT !.pc = IF thread.pc = "none" THEN "first" ELSE "stop"]
    /\ thread' = [thread EXCEPT !.task = "running"]
    /\ broken' = (thread.pc = "dead")
    /\ UNCHANGED <<link, msg, enq, credit, hooked, limited, expired, clientVars, history>>

\* It waits for the thread to end.
ExitJoin ==
    /\ ~broken
    /\ module.pc = "stop" /\ thread.pc = "ended"
    /\ module' = [module EXCEPT !.pc = "first"]
    /\ UNCHANGED <<link, msg, enq, thread, credit, hooked, limited, expired, clientVars, broken,
                   history>>

\* netlink_node_free walks the pool with the lock
ExitWalk ==
    /\ ~broken
    /\ module.pc \in {"first", "walk"}
    /\ LET p == IF module.pc = "first" THEN link.next[FreeHead] ELSE module.nxt IN
         IF p \notin Node \cup {FreeHead}
         THEN broken' = TRUE /\ module' = module
         ELSE /\ broken' = broken
              /\ module' = [pc |-> IF p = FreeHead THEN "unhook" ELSE "kfree", pos |-> p,
                            nxt |-> link.next[p]]
    /\ UNCHANGED <<link, msg, enq, thread, credit, hooked, limited, expired, clientVars, history>>

\* and deletes and frees without it.
ExitFree ==
    /\ ~broken
    /\ module.pc = "kfree"
    /\ IF Linked(link, module.pos)
       THEN link' = Del(link, module.pos) /\ broken' = broken
       ELSE link' = link /\ broken' = TRUE
    /\ module' = [module EXCEPT !.pc = "walk"]
    /\ UNCHANGED <<msg, enq, thread, credit, hooked, limited, expired, clientVars, history>>

\* The socket is released, the templates are put back and the memory of the
\* module goes; nobody waits for calls or commands under way that are in it
\* or will come back to it.
ExitUnhook ==
    /\ ~broken
    /\ module.pc = "unhook"
    /\ link' = Fresh({MsgHead, FreeHead})
    /\ msg' = [n \in Node |-> NoEvent]
    /\ thread' = [AtLoop EXCEPT !.pc = "none"]
    /\ credit' = 0
    /\ module' = [pc |-> "absent", pos |-> FreeHead, nxt |-> FreeHead]
    /\ hooked' = FALSE /\ limited' = FALSE
    /\ \E completion \in {FALSE, hooked} :
         broken' = (completion \/ \E c \in Cpu : enq[c].pc # "idle")
    /\ UNCHANGED <<enq, expired, clientVars, history>>

Expire ==
    /\ ~broken /\ ~expired
    /\ expired' = TRUE
    /\ UNCHANGED <<link, msg, enq, thread, credit, module, hooked, limited, clientVars, broken,
                   history>>

-----------------------------------------------------------------------------
Init ==
    /\ link = Fresh({MsgHead, FreeHead})
    /\ msg = [n \in Node |-> NoEvent]
    /\ enq = [c \in Cpu |-> NoCall]
    /\ thread = [AtLoop EXCEPT !.pc = "none"]
    /\ credit = 0
    /\ module = [pc |-> "absent", pos |-> FreeHead, nxt |-> FreeHead]
    /\ hooked = FALSE /\ limited = FALSE
    /\ expired \in BOOLEAN
    /\ client = "down" /\ answers = 0
    /\ broken = FALSE /\ orphan = FALSE /\ restarted = FALSE

EnqOn(c) == EnqGet(c) \/ EnqAdd(c) \/ EnqWake(c)

Thread ==
    \/ ThreadLoop \/ ThreadMark \/ ThreadTest \/ ThreadSleep \/ ThreadScan \/ ThreadWait
    \/ ThreadLimit \/ ThreadLapse \/ ThreadSend \/ ThreadFail
    \/ ThreadDel \/ ThreadPut \/ ThreadAdvance

ClientOn == ClientAsk \/ ClientReceive

Exit == ExitStop \/ ExitJoin \/ ExitWalk \/ ExitFree \/ ExitUnhook

Next ==
    \/ \E c \in Cpu : (\E e \in Event : EnqTest(c, e)) \/ EnqOn(c)
    \/ Thread
    \/ ClientStart \/ ClientOn \/ ClientEnd
    \/ Load \/ Exit \/ Expire

\* Runnable code runs.  Nobody has to start or end a client, to load or
\* unload the module, or to report an event.
Spec ==
    /\ Init /\ [][Next]_vars
    /\ WF_vars(Thread) /\ WF_vars(ClientOn)
    /\ \A c \in Cpu : WF_vars(EnqOn(c))

-----------------------------------------------------------------------------
(* Properties.                                                             *)

TypeOK ==
    /\ link \in Links
    /\ msg \in [Node -> Event \cup {NoEvent}]
    /\ enq \in [Cpu -> [pc : {"idle", "get", "fill", "wake"}, node : Node \cup {FreeHead},
                        event : Event \cup {NoEvent}]]
    /\ thread \in [pc : {"none", "loop", "mark", "test", "sleep", "scan", "wait", "check",
                         "lapse", "del", "put", "advance", "dead", "ended"},
                   pos : Cell, nxt : Cell \cup {Poison}, task : {"running", "interruptible"}]
    /\ credit \in 0 .. MaxCredit
    /\ module \in [pc : {"absent", "on", "stop", "first", "walk", "kfree", "unhook"},
                   pos : Node \cup {FreeHead}, nxt : Cell \cup {Poison}]
    /\ client \in {"down", "ask", "wait"} /\ answers \in 0 .. MaxCredit
    /\ \A b \in {hooked, expired, limited, broken, orphan, restarted} : b \in BOOLEAN

\* The module works: it is loaded, within its time, and nothing is broken.
Working == module.pc \in {"on", "stop"} /\ ~limited /\ ~broken

\* The nodes in nobody's list.
Hands ==
    {enq[c].node : c \in {d \in Cpu : enq[d].pc = "fill"}}
        \cup {n \in {thread.pos} : thread.pc = "put"}

\* Both lists stay sound, and every node is in one of them or in one hand,
\* exactly once, however processors and thread interleave between the locks:
\* no node is lost, and none is sent and filled at a time.  (And always, the
\* variables have their types.)
NodesAccounted ==
    /\ TypeOK
    /\ Working /\ thread.pc # "none" =>
         /\ Sound(link, MsgHead) /\ Sound(link, FreeHead)
         /\ ToSet(Queue) \cup ToSet(Pool) \cup Hands = Node
         /\ Len(Queue) + Len(Pool) + Cardinality(Hands) = Cardinality(Node)

\* The nodes of the queue whose event has not been sent: the one that has is
\* its first, until it is deleted.
Unsent ==
    IF thread.pc = "del" /\ link.next[MsgHead] = thread.pos THEN Tail(Queue) ELSE Queue

\* Queue, nodes and thread implement EventChannel.
Abstract == INSTANCE EventChannel WITH
    open <- Working,
    pending <- IF Working THEN [i \in DOMAIN Unsent |-> msg[Unsent[i]]] ELSE <<>>
ChannelSpec == Abstract!Spec

\* A client that waits has exactly one request or answer under way, and one
\* that does not has none: no answer comes unasked and none is forgotten, for
\* the first client of a module.
OneAnswerEach ==
    Working /\ ~restarted /\ thread.pc # "dead" =>
        UnderWay = IF client = "wait" THEN 1 ELSE 0

\* An event in the queue is sent as long as a client is there that was
\* started after the module, also when others were ended before it.
EventsLeave ==
    \A n \in Node :
        (Working /\ n \in ToSet(Queue)) ~>
            (\/ n \notin ToSet(Queue) \/ ~Working \/ module.pc = "stop"
             \/ client = "down" \/ orphan \/ expired \/ thread.pc = "dead")
=============================================================================
