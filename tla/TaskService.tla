----------------------------- MODULE TaskService -----------------------------
(***************************************************************************)
(* The task side of docker_registry_replication: the Flask handlers        *)
(* (api.py), the task objects and their list (task.py), the two MongoDB    *)
(* collections (db.py) and the control of one worker thread per task       *)
(* (SyncJob in sync_job.py).  What a worker copies between the registries  *)
(* is abstracted to the length and the kinds of its work list; module      *)
(* RegistrySync models the copying itself.                                 *)
(*                                                                         *)
(* Flask's development server runs the handlers one after the other in a   *)
(* single thread; the workers are threads of their own.  A handler is      *)
(* split where a worker or a crash can come between two effects: at the    *)
(* calls to the registries and to the database.                            *)
(***************************************************************************)
EXTENDS Integers, Sequences, FiniteSets

CONSTANTS
    Uuid,      \* task identities: namespace + source + target
    Route,     \* what a request names: namespace + target
    RouteOf,   \* the route of each uuid (two sources may share one)
    Obj,       \* Task objects the process may allocate
    NoObj,     \* no task object
    MaxRows,   \* bound: rows of one uuid in the tasks collection
    MaxBatch,  \* bound: images of one kind found by one get_diff
    MaxLogs,   \* bound: log documents of one uuid
    MaxCrash   \* bound: crashes of the service

ASSUME RouteAssumption == RouteOf \in [Uuid -> Route]
ASSUME NoObjAssumption == NoObj \notin Obj
ASSUME BoundAssumption ==
    MaxRows \in Nat /\ MaxBatch \in Nat /\ MaxLogs \in Nat /\ MaxCrash \in Nat
\* init_tasks never runs out of objects.
ASSUME ObjAssumption ==
    IsFiniteSet(Obj) /\ MaxRows * Cardinality(Uuid) <= Cardinality(Obj)

VARIABLES
    uuid,      \* Task.uuid of each object
    status,    \* Task.status of each object
    tasks,     \* taskset.tasks, as the list of objects of each route
    pc,        \* where the worker thread of each object stands
    stop,      \* SyncJob.stop
    quit,      \* SyncJob.quit
    todo,      \* what is left of d["add"] and then of d["del"]
    index,     \* SyncJob.log_index
    api,       \* the handler the Flask thread is in
    boot,      \* rows init_tasks has still to load
    dbTasks,   \* tasks collection: statuses of the rows of each uuid, in order
    dbLogs,    \* logs collection: indices of the documents of each uuid
    crashes,   \* crashes so far
    late,      \* history: images begun since a stop or quit request
    dup,       \* history: uuids that once had two rows
    mixed      \* history: uuids whose logs two writers may have shared

taskVars   == <<uuid, status, tasks>>
workerVars == <<pc, stop, quit, todo, index>>
dbVars     == <<dbTasks, dbLogs>>
vars == <<uuid, status, tasks, pc, stop, quit, todo, index, api, boot,
          dbTasks, dbLogs, crashes, late, dup, mixed>>

-----------------------------------------------------------------------------

Kind   == {"add", "del"}
Status == {"pause", "started", "deleted"}

\* A thread that is not there: never started, returned from run, or killed by
\* an exception nothing in run catches.
Finished == {"none", "ended", "died"}

PC == Finished \cup {"top", "loop", "gate", "wait", "woken", "begin", "work",
                     "store", "nap"}

Idle == [op |-> "idle", obj |-> NoObj, now |-> FALSE]

\* The Flask thread serves nobody, or is in a handler of some object.
Api == [op: {"idle", "boot"}, obj: {NoObj}, now: {FALSE}]
       \cup [op: {"validate", "kick", "launched", "dellog"}, obj: Obj,
             now: BOOLEAN]

\* Objects get_task and init_tasks can reach.
Listed == UNION {{tasks[r][i] : i \in DOMAIN tasks[r]} : r \in Route}

\* No reference to the object and no thread of its own is left.
Free(o) == o \notin Listed /\ api.obj # o /\ pc[o] \in Finished

\* The worker of o can still reach add_log.
MayWrite(o) ==
    \/ pc[o] \in {"begin", "work", "store"}
    \/ pc[o] \in {"gate", "wait", "woken"} /\ todo[o] # <<>>
    \/ pc[o] \notin Finished /\ ~quit[o]

OtherWriter(o) == \E p \in Obj \ {o} : uuid[p] = uuid[o] /\ MayWrite(p)

-----------------------------------------------------------------------------
(* The database.                                                           *)

\* find_one_and_update changes the first row that matches, if any does.
SetFirst(rows, s) == IF rows = <<>> THEN rows ELSE [rows EXCEPT ![1] = s]

\* Faulty: delete_many.
DropFirst_All(rows) == <<>>

\* delete_one deletes the first row that matches, if any does.
DropFirst(rows) == IF rows = <<>> THEN rows ELSE Tail(rows)

update_task_status(u, s) ==
    dbTasks' = [dbTasks EXCEPT ![u] = SetFirst(@, s)]

-----------------------------------------------------------------------------
(* The worker thread of object o: SyncJob.run and what it calls.           *)

\* Faulty: while True.
Poll_Forever(o) ==
    /\ pc[o] = "top"
    /\ pc' = [pc EXCEPT ![o] = "loop"]
    /\ todo' = [todo EXCEPT ![o] = <<>>]
    /\ UNCHANGED <<taskVars, stop, quit, index, api, boot, dbVars, crashes,
                   late, dup, mixed>>

\* while not self.quit: get_diff
Poll(o) ==
    /\ pc[o] = "top"
    /\ \/ /\ quit[o]
          /\ pc' = [pc EXCEPT ![o] = "ended"]
          /\ todo' = [todo EXCEPT ![o] = <<>>]
       \/ /\ ~quit[o]
          /\ pc' = [pc EXCEPT ![o] = "loop"]
          /\ \E a, d \in 0..MaxBatch :
               /\ a + d + Len(dbLogs[uuid[o]]) <= MaxLogs
               /\ todo' = [todo EXCEPT ![o] =
                    [i \in 1..(a + d) |-> IF i <= a THEN "add" ELSE "del"]]
    /\ UNCHANGED <<taskVars, stop, quit, index, api, boot, dbVars, crashes,
                   late, dup, mixed>>

\* Faulty: the loops over the images do not test quit.
Loop_NoBreak(o) ==
    /\ pc[o] = "loop"
    /\ pc' = [pc EXCEPT ![o] = "gate"]
    /\ UNCHANGED <<taskVars, stop, quit, todo, index, api, boot, dbVars,
                   crashes, late, dup, mixed>>

\* for repository in d[...]: if self.quit: break
\* A break leaves the first loop for the second one, which breaks at once.
Loop(o) ==
    /\ pc[o] = "loop"
    /\ pc' = [pc EXCEPT ![o] = "gate"]
    /\ todo' = [todo EXCEPT ![o] = IF quit[o] THEN <<>> ELSE @]
    /\ UNCHANGED <<taskVars, stop, quit, index, api, boot, dbVars, crashes,
                   late, dup, mixed>>

\* What follows check_for_stop: the next image, or wait_for_call.
AfterGate(o) == IF todo[o] = <<>> THEN "nap" ELSE "begin"

\* check_for_stop: the flag is read and wait entered under the lock.
CheckForStop(o) ==
    /\ pc[o] = "gate"
    /\ pc' = [pc EXCEPT ![o] = IF stop[o] THEN "wait" ELSE AfterGate(o)]
    /\ UNCHANGED <<taskVars, stop, quit, todo, index, api, boot, dbVars,
                   crashes, late, dup, mixed>>

\* stop_con.wait() returns; the flag is not read again.
Woken(o) ==
    /\ pc[o] = "woken"
    /\ pc' = [pc EXCEPT ![o] = AfterGate(o)]
    /\ UNCHANGED <<taskVars, stop, quit, todo, index, api, boot, dbVars,
                   crashes, late, dup, mixed>>

\* stat_log.append(in_progress) and the first request of the image.
Begin(o) ==
    /\ pc[o] = "begin"
    /\ pc' = [pc EXCEPT ![o] = "work"]
    /\ late' = [late EXCEPT ![o] = IF stop[o] \/ quit[o] THEN @ + 1 ELSE @]
    /\ UNCHANGED <<taskVars, stop, quit, todo, index, api, boot, dbVars,
                   crashes, dup, mixed>>

\* The docker client's pull, tag, push and remove calls, or delete_one_tag,
\* whose result is ignored.  The docker client raises when the daemon
\* answers with an error, and nothing catches it.
Work(o) ==
    /\ pc[o] = "work"
    /\ \/ pc' = [pc EXCEPT ![o] = "store"]
       \/ Head(todo[o]) = "add" /\ pc' = [pc EXCEPT ![o] = "died"]
    /\ UNCHANGED <<taskVars, stop, quit, todo, index, api, boot, dbVars,
                   crashes, late, dup, mixed>>

\* task.add_log(self.stat_log[-1], log_index); self.log_index += 1
Store(o) ==
    /\ pc[o] = "store"
    /\ dbLogs' = [dbLogs EXCEPT ![uuid[o]] = Append(@, index[o])]
    /\ index' = [index EXCEPT ![o] = @ + 1]
    /\ todo' = [todo EXCEPT ![o] = Tail(@)]
    /\ pc' = [pc EXCEPT ![o] = "loop"]
    /\ UNCHANGED <<taskVars, stop, quit, api, boot, dbTasks, crashes, late,
                   dup, mixed>>

\* wait_for_call: nobody calls SyncJob.notify, so it is the 10 s timeout.
WaitForCall(o) ==
    /\ pc[o] = "nap"
    /\ pc' = [pc EXCEPT ![o] = "top"]
    /\ UNCHANGED <<taskVars, stop, quit, todo, index, api, boot, dbVars,
                   crashes, late, dup, mixed>>

Worker(o) ==
    \/ Poll(o) \/ Loop(o) \/ CheckForStop(o) \/ Woken(o)
    \/ Begin(o) \/ Work(o) \/ Store(o) \/ WaitForCall(o)

-----------------------------------------------------------------------------
(* The handlers.                                                           *)

\* The object a request for route r acts on: get_task's first match.
get_task(r) == Head(tasks[r])

\* Where the Flask thread goes when a handler, or a step of init_tasks, ends.
Return == [Idle EXCEPT !.op = IF \E u \in Uuid : boot[u] # <<>>
                              THEN "boot" ELSE "idle"]

\* The Flask thread enters kickoff of object o.
Kick(o) == [op |-> "kick", obj |-> o, now |-> FALSE]

\* A fresh Task object: no SyncJob.
NewTask(o, u, s) ==
    /\ Free(o)
    /\ uuid' = [uuid EXCEPT ![o] = u]
    /\ status' = [status EXCEPT ![o] = s]
    /\ pc' = [pc EXCEPT ![o] = "none"]
    /\ stop' = [stop EXCEPT ![o] = FALSE]
    /\ quit' = [quit EXCEPT ![o] = FALSE]
    /\ todo' = [todo EXCEPT ![o] = <<>>]
    /\ index' = [index EXCEPT ![o] = 0]
    /\ late' = [late EXCEPT ![o] = 0]

\* create_task, first part: the constructor inserts the row.  (For a request that
\* carries a "uuid" it would take the branch for rows of the database, and insert
\* none; no client of the service sends one, and none is in the model.)
CreateTask(o, u, immediate_start) ==
    /\ api.op = "idle"
    /\ Len(dbTasks[u]) < MaxRows
    /\ NewTask(o, u, "pause")
    /\ dbTasks' = [dbTasks EXCEPT ![u] = Append(@, "pause")]
    /\ dup' = [dup EXCEPT ![u] = @ \/ dbTasks[u] # <<>>]
    /\ api' = [op |-> "validate", obj |-> o, now |-> immediate_start]
    /\ UNCHANGED <<tasks, boot, dbLogs, crashes, mixed>>

\* create_task, second part: an invalid task is answered with an error and
\* dropped, its row stays; a valid one joins the list.
Validate ==
    /\ api.op = "validate"
    /\ \/ /\ tasks' = tasks
          /\ api' = Return
       \/ /\ tasks' = [tasks EXCEPT ![RouteOf[uuid[api.obj]]] =
                         Append(@, api.obj)]
          /\ api' = IF api.now THEN Kick(api.obj) ELSE Return
    /\ UNCHANGED <<uuid, status, workerVars, boot, dbVars, crashes, late, dup,
                   mixed>>

\* Faulty: the handler tries again until the registries answer.
KickoffRefused_Retry ==
    /\ api.op = "kick"
    /\ api' = [api EXCEPT !.now = ~@]
    /\ UNCHANGED <<taskVars, workerVars, boot, dbVars, crashes, late, dup,
                   mixed>>

\* kickoff: the JobConfig it builds is not valid.
KickoffRefused ==
    /\ api.op = "kick"
    /\ api' = Return
    /\ UNCHANGED <<taskVars, workerVars, boot, dbVars, crashes, late, dup,
                   mixed>>

\* Faulty: log_index is the index of the last log.
KickoffLaunch_LastIndex ==
    /\ api.op = "kick"
    /\ pc' = [pc EXCEPT ![api.obj] = "top"]
    /\ index' = [index EXCEPT ![api.obj] = Len(dbLogs[uuid[api.obj]]) - 1]
    /\ api' = [op |-> "launched", obj |-> api.obj, now |-> FALSE]
    /\ UNCHANGED <<taskVars, stop, quit, todo, boot, dbVars, crashes, late,
                   dup, mixed>>

\* Faulty: a new SyncJob numbers its logs from 0.
KickoffLaunch_FromZero ==
    /\ api.op = "kick"
    /\ pc' = [pc EXCEPT ![api.obj] = "top"]
    /\ index' = [index EXCEPT ![api.obj] = 0]
    /\ mixed' = [mixed EXCEPT ![uuid[api.obj]] = @ \/ OtherWriter(api.obj)]
    /\ api' = [op |-> "launched", obj |-> api.obj, now |-> FALSE]
    /\ UNCHANGED <<taskVars, stop, quit, todo, boot, dbVars, crashes, late,
                   dup>>

\* kickoff: SyncJob(config, self), which reads the logs, and thread.start().
KickoffLaunch ==
    /\ api.op = "kick"
    /\ LET o == api.obj IN
         /\ pc' = [pc EXCEPT ![o] = "top"]
         /\ stop' = [stop EXCEPT ![o] = FALSE]
         /\ quit' = [quit EXCEPT ![o] = FALSE]
         /\ index' = [index EXCEPT ![o] = Len(dbLogs[uuid[o]])]
         /\ mixed' = [mixed EXCEPT ![uuid[o]] = @ \/ OtherWriter(o)]
    /\ api' = [op |-> "launched", obj |-> api.obj, now |-> FALSE]
    /\ UNCHANGED <<taskVars, todo, boot, dbVars, crashes, late, dup>>

\* Faulty: the status is not written to the database.
KickoffDone_MemoryOnly ==
    /\ api.op = "launched"
    /\ status' = [status EXCEPT ![api.obj] = "started"]
    /\ api' = Return
    /\ UNCHANGED <<uuid, tasks, workerVars, boot, dbVars, crashes, late, dup,
                   mixed>>

\* kickoff: the status, in the object and in the database.
KickoffDone ==
    /\ api.op = "launched"
    /\ status' = [status EXCEPT ![api.obj] = "started"]
    /\ update_task_status(uuid[api.obj], "started")
    /\ api' = Return
    /\ UNCHANGED <<uuid, tasks, workerVars, boot, dbLogs, crashes, late, dup,
                   mixed>>

\* start or resume of a task without a SyncJob: kickoff.
StartTask(r) ==
    /\ api.op = "idle"
    /\ tasks[r] # <<>>
    /\ pc[get_task(r)] = "none"
    /\ api' = Kick(get_task(r))
    /\ UNCHANGED <<taskVars, workerVars, boot, dbVars, crashes, late, dup,
                   mixed>>

\* Faulty: no notify.
ResumeJob_NoNotify(o) ==
    /\ stop' = [stop EXCEPT ![o] = FALSE]
    /\ pc' = pc

\* Faulty: notify without resetting the flag.
ResumeJob_KeepsFlag(o) ==
    /\ stop' = stop
    /\ pc' = [pc EXCEPT ![o] = IF @ = "wait" THEN "woken" ELSE @]

\* SyncJob.resume: notify moves the waiting thread out of the wait set.
ResumeJob(o) ==
    /\ stop' = [stop EXCEPT ![o] = FALSE]
    /\ pc' = [pc EXCEPT ![o] = IF @ = "wait" THEN "woken" ELSE @]

\* start or resume of a task with a SyncJob.
ResumeTask(r) ==
    /\ api.op = "idle"
    /\ tasks[r] # <<>>
    /\ LET o == get_task(r) IN
         /\ pc[o] # "none"
         /\ ResumeJob(o)
         /\ status' = [status EXCEPT ![o] = "started"]
         /\ update_task_status(uuid[o], "started")
         /\ late' = [late EXCEPT ![o] = 0]
    /\ UNCHANGED <<uuid, tasks, quit, todo, index, api, boot, dbLogs, crashes,
                   dup, mixed>>

\* stop.  Without a SyncJob the handler fails before it changes anything.
PauseTask(r) ==
    /\ api.op = "idle"
    /\ tasks[r] # <<>>
    /\ LET o == get_task(r) IN
         /\ pc[o] # "none"
         /\ stop' = [stop EXCEPT ![o] = TRUE]
         /\ status' = [status EXCEPT ![o] = "pause"]
         /\ update_task_status(uuid[o], "pause")
    /\ UNCHANGED <<uuid, tasks, pc, quit, todo, index, api, boot, dbLogs,
                   crashes, late, dup, mixed>>

\* delete, first part: set_to_quit (no notify), the status, the row.
DeleteTask(r) ==
    /\ api.op = "idle"
    /\ tasks[r] # <<>>
    /\ LET o == get_task(r) IN
         /\ pc[o] # "none"
         /\ quit' = [quit EXCEPT ![o] = TRUE]
         /\ status' = [status EXCEPT ![o] = "deleted"]
         /\ dbTasks' = [dbTasks EXCEPT ![uuid[o]] = DropFirst(@)]
         /\ api' = [op |-> "dellog", obj |-> o, now |-> FALSE]
    /\ UNCHANGED <<uuid, tasks, pc, stop, todo, index, boot, dbLogs, crashes,
                   late, dup, mixed>>

\* delete, second part: the logs, then taskset.delete_task.
DeleteLogs ==
    /\ api.op = "dellog"
    /\ LET o == api.obj
           u == uuid[o] IN
         /\ dbLogs' = [dbLogs EXCEPT ![u] = <<>>]
         /\ tasks' = [tasks EXCEPT ![RouteOf[u]] = Tail(@)]
         /\ mixed' = [mixed EXCEPT ![u] = \E p \in Obj : uuid[p] = u /\ MayWrite(p)]
    /\ api' = Return
    /\ UNCHANGED <<uuid, status, workerVars, boot, dbTasks, crashes, late, dup>>

\* An unknown task or action, or a stop, delete or details request for a task
\* without a SyncJob (an uncaught AttributeError): answered, nothing changes.
Refuse(r) ==
    /\ api.op = "idle"
    /\ tasks[r] # <<>> => pc[get_task(r)] = "none"
    /\ UNCHANGED vars

-----------------------------------------------------------------------------
(* Crash and restart.                                                      *)

\* In a process that has just started every object is unused.
All(v) == [o \in Obj |-> v]

\* The process dies: objects, threads and the handler are gone.  A new one
\* reads the rows (find_tasks) before it serves.
Crash ==
    /\ crashes < MaxCrash
    /\ crashes' = crashes + 1
    /\ uuid' = uuid
    /\ status' = All("pause")
    /\ tasks' = [r \in Route |-> <<>>]
    /\ pc' = All("none")
    /\ stop' = All(FALSE)
    /\ quit' = All(FALSE)
    /\ todo' = All(<<>>)
    /\ index' = All(0)
    /\ late' = All(0)
    /\ boot' = dbTasks
    /\ api' = [Idle EXCEPT !.op = IF \E u \in Uuid : dbTasks[u] # <<>>
                                  THEN "boot" ELSE "idle"]
    /\ UNCHANGED <<dbVars, dup, mixed>>

\* init_tasks, one row: the task joins the list before it is validated; a
\* valid task that was started is kicked off.
BootTask(o, u) ==
    /\ api.op = "boot"
    /\ boot[u] # <<>>
    /\ NewTask(o, u, Head(boot[u]))
    /\ tasks' = [tasks EXCEPT ![RouteOf[u]] = Append(@, o)]
    /\ boot' = [boot EXCEPT ![u] = Tail(@)]
    /\ \/ api' = Return'
       \/ /\ Head(boot[u]) = "started"
          /\ api' = Kick(o)
    /\ UNCHANGED <<dbVars, crashes, dup, mixed>>

-----------------------------------------------------------------------------

Init ==
    /\ uuid \in {All(u) : u \in Uuid}
    /\ status = All("pause")
    /\ tasks = [r \in Route |-> <<>>]
    /\ pc = All("none")
    /\ stop = All(FALSE)
    /\ quit = All(FALSE)
    /\ todo = All(<<>>)
    /\ index = All(0)
    /\ late = All(0)
    /\ api = Idle
    /\ boot = [u \in Uuid |-> <<>>]
    /\ dbTasks = [u \in Uuid |-> <<>>]
    /\ dbLogs = [u \in Uuid |-> <<>>]
    /\ crashes = 0
    /\ dup = [u \in Uuid |-> FALSE]
    /\ mixed = [u \in Uuid |-> FALSE]

\* The steps of a handler that is under way, and of init_tasks.
Handler ==
    \/ Validate \/ KickoffRefused \/ KickoffLaunch \/ KickoffDone \/ DeleteLogs
    \/ \E o \in Obj, u \in Uuid : BootTask(o, u)

Request ==
    \/ \E o \in Obj, u \in Uuid, now \in BOOLEAN : CreateTask(o, u, now)
    \/ \E r \in Route : \/ StartTask(r) \/ ResumeTask(r) \/ PauseTask(r)
                        \/ DeleteTask(r) \/ Refuse(r)

Next ==
    \/ \E o \in Obj : Worker(o)
    \/ Handler
    \/ Request
    \/ Crash

Spec == Init /\ [][Next]_vars

\* The scheduler runs every thread; requests and crashes need not happen.
\* A thread is runnable in each of its steps except in "wait".
FairSpec == Spec /\ WF_vars(Handler) /\ \A o \in Obj : WF_vars(Worker(o))

-----------------------------------------------------------------------------
(* Properties.                                                             *)

TypeOK ==
    /\ uuid \in [Obj -> Uuid]
    /\ status \in [Obj -> Status]
    /\ tasks \in [Route -> Seq(Obj)]
    /\ pc \in [Obj -> PC]
    /\ stop \in [Obj -> BOOLEAN]
    /\ quit \in [Obj -> BOOLEAN]
    /\ todo \in [Obj -> Seq(Kind)]
    /\ index \in [Obj -> Nat]
    /\ api \in Api
    /\ boot \in [Uuid -> Seq(Status)]
    /\ dbTasks \in [Uuid -> Seq(Status)]
    /\ dbLogs \in [Uuid -> Seq(Nat)]
    /\ crashes \in Nat
    /\ late \in [Obj -> Nat]
    /\ dup \in [Uuid -> BOOLEAN]
    /\ mixed \in [Uuid -> BOOLEAN]

\* However the requests interleave with a worker, it begins at most one more
\* image after a stop or a delete, also when a resume and a new stop come
\* while it waits (check_for_stop reads the flag once; run tests quit before
\* every image).
AtMostOneLateImage == \A o \in Obj : late[o] <= 1

\* A worker waits on stop_con only while the stop flag is set, so a resume is
\* never lost: flag and wait set change under one lock, and resume does both.
NoLostWakeup == \A o \in Obj : pc[o] = "wait" => stop[o]

\* Between requests, the worker of a listed task is told to stop exactly when
\* the task is reported as paused.
StopMatchesStatus ==
    api.op = "idle" =>
        \A o \in Listed : pc[o] # "none" => (stop[o] <=> status[o] = "pause")

\* The listed tasks with uuid u.
Own(u) == {o \in Listed : uuid[o] = u}

\* Every task the service lists has a row of its own and so survives a
\* restart, whatever was created twice, rejected, deleted or interrupted by
\* a crash (delete removes one row, not all that match).
EveryTaskPersisted ==
    api.op = "idle" => \A u \in Uuid : Cardinality(Own(u)) <= Len(dbTasks[u])

\* Between requests a restart would bring back each task with the status it
\* has now, unless its uuid was once posted twice (then update_task_status
\* can change the other row).
StatusPersisted ==
    api.op = "idle" =>
        \A o \in Listed : ~dup[uuid[o]] => dbTasks[uuid[o]] = <<status[o]>>

\* The log of a task is numbered 0, 1, 2, ... without gap or repetition over
\* pauses, deaths of the thread and restarts, unless a second worker of the
\* uuid or a delete in mid-image came between (del_log does not wait for the
\* worker, and index is a private counter).
LogsNumbered ==
    \A u \in Uuid : ~mixed[u] => \A i \in DOMAIN dbLogs[u] : dbLogs[u][i] = i - 1

\* A worker told to quit while it is not stopped ends: in particular every
\* deleted task that was running.  A paused one stays in wait for ever, since
\* set_to_quit does not notify and nothing lists the task any more.
DeletedWorkerEnds ==
    \A o \in Obj : (quit[o] /\ ~stop[o]) ~> (pc[o] \in Finished)

\* A live worker that nobody stops comes back to get_diff for ever: no resume
\* is lost and no batch holds it.
WorkerKeepsPolling ==
    \A o \in Obj : []<>(pc[o] \in Finished \cup {"top"} \/ stop[o])

\* Every handler, and init_tasks after every restart, comes to an end.
ServiceReturns == []<>(api.op = "idle")

-----------------------------------------------------------------------------
(* What the proofs in TaskService_proofs add to make these inductive.      *)

\* A task is in the list its uuid belongs to, and in no list twice.
ListsByRoute ==
    \A r \in Route : \A i \in DOMAIN tasks[r] :
        /\ RouteOf[uuid[tasks[r][i]]] = r
        /\ \A j \in DOMAIN tasks[r] : tasks[r][i] = tasks[r][j] => i = j

\* A worker inside an image has that image at the head of its list.
AtImage == \A o \in Obj : pc[o] \in {"begin", "work", "store"} => todo[o] # <<>>

\* What each handler has established about its object when it pauses.
HandlerOK ==
    /\ api.op = "validate" => pc[api.obj] = "none" /\ api.obj \notin Listed
    /\ api.op = "kick" => pc[api.obj] = "none"
    /\ api.op = "launched" => ~stop[api.obj]
    /\ api.op = "dellog" =>
         /\ tasks[RouteOf[uuid[api.obj]]] # <<>>
         /\ get_task(RouteOf[uuid[api.obj]]) = api.obj

\* Once an image has begun after a request, the worker meets the flag of that
\* request before the next one: quit empties its list, stop holds it.
LateOK ==
    \A o \in Obj :
        /\ late[o] <= 1
        /\ pc[o] = "none" => late[o] = 0
        /\ late[o] = 1 =>
             /\ stop[o] \/ quit[o]
             /\ pc[o] \notin {"begin", "woken"}
             /\ pc[o] = "gate" => stop[o] \/ todo[o] = <<>>

\* StopMatchesStatus in the middle of a handler: the object the handler has
\* changed half way is excepted.
StopStatusOK ==
    \A o \in Listed :
        \/ pc[o] = "none"
        \/ api.op \in {"launched", "dellog"} /\ api.obj = o
        \/ (stop[o] <=> status[o] = "pause")

\* A uuid that was never mixed has one writer, whose index is the next one.
LogsOK ==
    \A u \in Uuid : ~mixed[u] =>
        /\ \A i \in DOMAIN dbLogs[u] : dbLogs[u][i] = i - 1
        /\ \A o \in Obj : uuid[o] = u /\ MayWrite(o) =>
                            index[o] = Len(dbLogs[u]) /\ ~OtherWriter(o)

IndInv ==
    /\ TypeOK
    /\ ListsByRoute
    /\ AtImage
    /\ HandlerOK
    /\ NoLostWakeup
    /\ LateOK
    /\ StopStatusOK
    /\ LogsOK

\* What TaskPersistence_proofs adds.  A handler may hold a task that has a row
\* and is not listed yet, or is listed and has no row any more.
Arriving(u) == IF api.op = "validate" /\ uuid[api.obj] = u THEN 1 ELSE 0
Leaving(u)  == IF api.op = "dellog" /\ uuid[api.obj] = u THEN 1 ELSE 0

\* EveryTaskPersisted at every moment: each listed task, each task a handler
\* has just made and each row still to be loaded has a row of its own.
RowsOK ==
    \A u \in Uuid :
        Cardinality(Own(u)) + Arriving(u) + Len(boot[u]) <= Len(dbTasks[u]) + Leaving(u)

\* StatusPersisted at every moment: a uuid never posted twice has one row at
\* most, which is still to be loaded or has the status of its task.
RowStatusOK ==
    \A u \in Uuid : ~dup[u] =>
        /\ Len(dbTasks[u]) <= 1
        /\ boot[u] # <<>> => boot[u] = dbTasks[u]
        /\ \A o \in Obj :
             uuid[o] = u /\ (o \in Listed \/ (api.op = "validate" /\ api.obj = o))
                => \/ dbTasks[u] = <<status[o]>>
                   \/ api.op = "dellog" /\ api.obj = o

\* Only listed tasks are kicked off.
KickedListed == api.op \in {"kick", "launched"} => api.obj \in Listed

PersistInv == RowsOK /\ RowStatusOK /\ KickedListed

=============================================================================
