------------------------- MODULE TaskService_proofs -------------------------
(***************************************************************************)
(* Proofs about TaskService for every set of uuids, routes and objects and *)
(* every value of the bounds.                                              *)
(***************************************************************************)
EXTENDS TaskService, TLAPS

(* Sequence facts the database helpers rest on.                            *)

\* A row status change keeps the number of rows and their type.
LEMMA SetFirstType ==
    ASSUME NEW rows \in Seq(Status), NEW s \in Status
    PROVE  SetFirst(rows, s) \in Seq(Status) /\ Len(SetFirst(rows, s)) = Len(rows)
BY DEF SetFirst

\* delete_one removes one row of a non-empty collection and keeps the type.
LEMMA DropFirstType ==
    ASSUME NEW rows \in Seq(Status)
    PROVE  /\ DropFirst(rows) \in Seq(Status)
           /\ rows # <<>> => Len(DropFirst(rows)) = Len(rows) - 1
BY DEF DropFirst

\* Adding an object to the list of a route keeps the type of the lists.
LEMMA AddTaskType ==
    ASSUME TypeOK, NEW r \in Route, NEW o \in Obj
    PROVE  [tasks EXCEPT ![r] = Append(@, o)] \in [Route -> Seq(Obj)]
BY DEF TypeOK

\* Return is a state of the Flask thread without an object.
LEMMA ReturnType == Return \in Api /\ Return.op \in {"idle", "boot"}
BY DEF Return, Idle, Api

\* Kick is a state of the Flask thread with an object.
LEMMA KickType == ASSUME NEW o \in Obj PROVE Kick(o) \in Api
BY DEF Kick, Api

\* The type of an object in the list of a route.
LEMMA GetTaskType ==
    ASSUME TypeOK, NEW r \in Route, tasks[r] # <<>>
    PROVE  get_task(r) \in Obj
BY DEF TypeOK, get_task

\* A handler under way is a handler of an object.
LEMMA HandlerObject ==
    ASSUME TypeOK, api.op \in {"validate", "kick", "launched", "dellog"}
    PROVE  api.obj \in Obj
BY DEF TypeOK, Api

-----------------------------------------------------------------------------
(* Type correctness.                                                       *)

LEMMA InitType == Init => TypeOK
<1> SUFFICES ASSUME Init PROVE TypeOK
  OBVIOUS
<1>1. /\ uuid \in [Obj -> Uuid] /\ status \in [Obj -> Status]
      /\ pc \in [Obj -> PC] /\ stop \in [Obj -> BOOLEAN]
      /\ quit \in [Obj -> BOOLEAN] /\ index \in [Obj -> Nat]
      /\ late \in [Obj -> Nat] /\ crashes \in Nat
  BY DEF Init, All, PC, Finished, Status
<1>2. todo \in [Obj -> Seq(Kind)] /\ tasks \in [Route -> Seq(Obj)]
  BY DEF Init, All
<1>3. api \in Api /\ dup \in [Uuid -> BOOLEAN] /\ mixed \in [Uuid -> BOOLEAN]
  BY DEF Init, Idle, Api
<1>4. /\ boot \in [Uuid -> Seq(Status)] /\ dbTasks \in [Uuid -> Seq(Status)]
      /\ dbLogs \in [Uuid -> Seq(Nat)]
  BY DEF Init
<1> QED BY <1>1, <1>2, <1>3, <1>4 DEF TypeOK

\* One step of a worker keeps the types.
LEMMA WorkerType ==
    ASSUME TypeOK, AtImage, NEW o \in Obj, Worker(o)
    PROVE  TypeOK'
<1> USE DEF TypeOK, taskVars, workerVars, dbVars, PC, Finished
<1>1. CASE Poll(o)
  <2>1. CASE quit[o]
    <3>1. todo' = [todo EXCEPT ![o] = <<>>] /\ <<>> \in Seq(Kind)
      BY <1>1, <2>1 DEF Poll
    <3> QED BY <1>1, <2>1, <3>1 DEF Poll
  <2>2. CASE ~quit[o]
    <3>1. PICK a \in 0..MaxBatch, d \in 0..MaxBatch :
            todo' = [todo EXCEPT ![o] =
                      [i \in 1..(a + d) |-> IF i <= a THEN "add" ELSE "del"]]
      BY <1>1, <2>2 DEF Poll
    <3>2. [i \in 1..(a + d) |-> IF i <= a THEN "add" ELSE "del"] \in Seq(Kind)
      BY BoundAssumption DEF Kind
    <3> QED BY <1>1, <2>2, <3>1, <3>2 DEF Poll
  <2> QED BY <2>1, <2>2
<1>2. CASE Loop(o)
  BY <1>2 DEF Loop
<1>3. CASE CheckForStop(o)
  BY <1>3 DEF CheckForStop, AfterGate
<1>4. CASE Woken(o)
  BY <1>4 DEF Woken, AfterGate
<1>5. CASE Begin(o)
  BY <1>5 DEF Begin
<1>6. CASE Work(o)
  BY <1>6 DEF Work
<1>7. CASE Store(o)
  <2>1. todo[o] # <<>>
    BY <1>7 DEF Store, AtImage
  <2>2. todo' \in [Obj -> Seq(Kind)] /\ index' \in [Obj -> Nat]
    BY <1>7, <2>1 DEF Store
  <2>3. dbLogs' \in [Uuid -> Seq(Nat)]
    BY <1>7 DEF Store
  <2> QED BY <1>7, <2>2, <2>3 DEF Store
<1>8. CASE WaitForCall(o)
  BY <1>8 DEF WaitForCall
<1> QED BY <1>1, <1>2, <1>3, <1>4, <1>5, <1>6, <1>7, <1>8 DEF Worker


\* A constructor keeps the types of what it initialises.
LEMMA NewTaskType ==
    ASSUME TypeOK, NEW o \in Obj, NEW u \in Uuid, NEW s \in Status,
           NewTask(o, u, s)
    PROVE  /\ uuid' \in [Obj -> Uuid]
           /\ status' \in [Obj -> Status]
           /\ pc' \in [Obj -> PC]
           /\ stop' \in [Obj -> BOOLEAN]
           /\ quit' \in [Obj -> BOOLEAN]
           /\ todo' \in [Obj -> Seq(Kind)]
           /\ index' \in [Obj -> Nat]
           /\ late' \in [Obj -> Nat]
<1>1. <<>> \in Seq(Kind)
  OBVIOUS
<1> QED BY <1>1 DEF TypeOK, NewTask, PC, Finished

\* One step of a handler keeps the types.
LEMMA HandlerType ==
    ASSUME TypeOK, HandlerOK, Handler
    PROVE  TypeOK'
<1> USE DEF taskVars, workerVars, dbVars
<1>1. CASE Validate
  <2>1. api.obj \in Obj
    BY <1>1, HandlerObject DEF Validate
  <2>2. api' \in Api
    BY <1>1, <2>1, ReturnType, KickType DEF Validate
  <2>3. RouteOf[uuid[api.obj]] \in Route
    BY <2>1, RouteAssumption DEF TypeOK
  <2>4. tasks' \in [Route -> Seq(Obj)]
    <3>1. [tasks EXCEPT ![RouteOf[uuid[api.obj]]] = Append(@, api.obj)]
            \in [Route -> Seq(Obj)]
      BY <2>1, <2>3, AddTaskType
    <3>2. tasks \in [Route -> Seq(Obj)]
      BY DEF TypeOK
    <3> QED BY <1>1, <3>1, <3>2 DEF Validate
  <2> QED BY <1>1, <2>2, <2>4 DEF Validate, TypeOK
<1>2. CASE KickoffRefused
  BY <1>2, ReturnType DEF KickoffRefused, TypeOK
<1>3. CASE KickoffLaunch
  <2>1. api.obj \in Obj
    BY <1>3, HandlerObject DEF KickoffLaunch
  <2>2. api' \in Api
    BY <1>3, <2>1 DEF KickoffLaunch, TypeOK, Api
  <2>3. /\ uuid[api.obj] \in Uuid
        /\ Len(dbLogs[uuid[api.obj]]) \in Nat
    BY <2>1 DEF TypeOK
  <2>4. /\ index' \in [Obj -> Nat]
        /\ mixed' \in [Uuid -> BOOLEAN]
    BY <1>3, <2>1, <2>3 DEF KickoffLaunch, TypeOK
  <2> QED BY <1>3, <2>1, <2>2, <2>4 DEF KickoffLaunch, TypeOK, PC, Finished
<1>4. CASE KickoffDone
  <2>1. api.obj \in Obj
    BY <1>4, HandlerObject DEF KickoffDone
  <2>2. uuid[api.obj] \in Uuid /\ "started" \in Status
    BY <2>1 DEF TypeOK, Status
  <2>3. dbTasks' \in [Uuid -> Seq(Status)]
    BY <1>4, <2>2, SetFirstType DEF KickoffDone, update_task_status, TypeOK
  <2> QED BY <1>4, <2>1, <2>2, <2>3, ReturnType DEF KickoffDone, TypeOK
<1>5. CASE DeleteLogs
  <2>1. api.obj \in Obj
    BY <1>5, HandlerObject DEF DeleteLogs
  <2>2. uuid[api.obj] \in Uuid /\ RouteOf[uuid[api.obj]] \in Route
    BY <2>1, RouteAssumption DEF TypeOK
  <2>3. mixed' \in [Uuid -> BOOLEAN]
    BY <1>5, <2>2 DEF DeleteLogs, TypeOK
  <2>4. tasks' \in [Route -> Seq(Obj)]
    BY <1>5, <2>2 DEF DeleteLogs, HandlerOK, TypeOK
  <2>5. dbLogs' \in [Uuid -> Seq(Nat)]
    <3>1. <<>> \in Seq(Nat)
      OBVIOUS
    <3> QED BY <1>5, <2>2, <3>1 DEF DeleteLogs, TypeOK
  <2> QED BY <1>5, <2>3, <2>4, <2>5, ReturnType DEF DeleteLogs, TypeOK
<1>6. ASSUME NEW o \in Obj, NEW u \in Uuid, BootTask(o, u)
      PROVE  TypeOK'
  <2>1. Head(boot[u]) \in Status /\ Tail(boot[u]) \in Seq(Status)
    BY <1>6 DEF BootTask, TypeOK
  <2>2. api' \in Api
    <3>1. Return' \in Api
      BY DEF Return, Idle, Api
    <3> QED BY <1>6, <3>1, KickType DEF BootTask
  <2>3. tasks' \in [Route -> Seq(Obj)]
    <3>1. RouteOf[u] \in Route
      BY RouteAssumption
    <3> QED BY <1>6, <3>1 DEF BootTask, TypeOK
  <2> QED BY <1>6, <2>1, <2>2, <2>3, NewTaskType DEF BootTask, TypeOK
<1> QED BY <1>1, <1>2, <1>3, <1>4, <1>5, <1>6 DEF Handler

\* The first step of a request keeps the types.
LEMMA RequestType ==
    ASSUME TypeOK, Request
    PROVE  TypeOK'
<1> USE DEF taskVars, workerVars, dbVars
<1>1. ASSUME NEW o \in Obj, NEW u \in Uuid, NEW now \in BOOLEAN,
             CreateTask(o, u, now)
      PROVE  TypeOK'
  <2>1. "pause" \in Status
    BY DEF Status
  <2>2. api' \in Api
    BY <1>1 DEF CreateTask, Api
  <2>3. /\ dbTasks' \in [Uuid -> Seq(Status)]
        /\ dup' \in [Uuid -> BOOLEAN]
    BY <1>1, <2>1 DEF CreateTask, TypeOK
  <2> QED BY <1>1, <2>1, <2>2, <2>3, NewTaskType DEF CreateTask, TypeOK
<1>2. ASSUME NEW r \in Route, StartTask(r)
      PROVE  TypeOK'
  <2>1. api' \in Api
    BY <1>2, GetTaskType DEF StartTask, Kick, Api
  <2> QED BY <1>2, <2>1 DEF StartTask, TypeOK
<1>3. ASSUME NEW r \in Route, ResumeTask(r)
      PROVE  TypeOK'
  <2> DEFINE o == get_task(r)
  <2>1. o \in Obj /\ uuid[o] \in Uuid /\ "started" \in Status
    BY <1>3, GetTaskType DEF ResumeTask, TypeOK, Status
  <2>2. dbTasks' \in [Uuid -> Seq(Status)]
    BY <1>3, <2>1, SetFirstType DEF ResumeTask, update_task_status, TypeOK
  <2>3. pc' \in [Obj -> PC]
    BY <1>3, <2>1 DEF ResumeTask, ResumeJob, TypeOK, PC, Finished
  <2>4. stop' \in [Obj -> BOOLEAN]
    BY <1>3, <2>1 DEF ResumeTask, ResumeJob, TypeOK
  <2> QED BY <1>3, <2>1, <2>2, <2>3, <2>4 DEF ResumeTask, TypeOK
<1>4. ASSUME NEW r \in Route, PauseTask(r)
      PROVE  TypeOK'
  <2> DEFINE o == get_task(r)
  <2>1. o \in Obj /\ uuid[o] \in Uuid /\ "pause" \in Status
    BY <1>4, GetTaskType DEF PauseTask, TypeOK, Status
  <2>2. dbTasks' \in [Uuid -> Seq(Status)]
    BY <1>4, <2>1, SetFirstType DEF PauseTask, update_task_status, TypeOK
  <2> QED BY <1>4, <2>1, <2>2 DEF PauseTask, TypeOK
<1>5. ASSUME NEW r \in Route, DeleteTask(r)
      PROVE  TypeOK'
  <2> DEFINE o == get_task(r)
  <2>1. o \in Obj /\ uuid[o] \in Uuid /\ "deleted" \in Status
    BY <1>5, GetTaskType DEF DeleteTask, TypeOK, Status
  <2>2. dbTasks' \in [Uuid -> Seq(Status)]
    BY <1>5, <2>1, DropFirstType DEF DeleteTask, TypeOK
  <2>3. api' \in Api
    BY <1>5, <2>1 DEF DeleteTask, Api
  <2> QED BY <1>5, <2>1, <2>2, <2>3 DEF DeleteTask, TypeOK
<1>6. ASSUME NEW r \in Route, Refuse(r)
      PROVE  TypeOK'
  BY <1>6 DEF Refuse, vars, TypeOK
<1> QED BY <1>1, <1>2, <1>3, <1>4, <1>5, <1>6 DEF Request

\* A crash leaves an empty process and the database.
LEMMA CrashType ==
    ASSUME TypeOK, Crash
    PROVE  TypeOK'
<1> USE DEF dbVars
<1>1. /\ uuid' \in [Obj -> Uuid] /\ status' \in [Obj -> Status]
      /\ pc' \in [Obj -> PC] /\ stop' \in [Obj -> BOOLEAN]
      /\ quit' \in [Obj -> BOOLEAN] /\ index' \in [Obj -> Nat]
      /\ late' \in [Obj -> Nat] /\ crashes' \in Nat
  BY DEF Crash, All, TypeOK, PC, Finished, Status
<1>2. todo' \in [Obj -> Seq(Kind)] /\ tasks' \in [Route -> Seq(Obj)]
  BY DEF Crash, All
<1>3. api' \in Api
  BY DEF Crash, Idle, Api
<1> QED BY <1>1, <1>2, <1>3 DEF Crash, TypeOK

LEMMA NextType ==
    ASSUME TypeOK, AtImage, HandlerOK, Next
    PROVE  TypeOK'
BY WorkerType, HandlerType, RequestType, CrashType DEF Next

-----------------------------------------------------------------------------
(* What each group of actions changes, and what it leaves alone.           *)

\* A worker step changes its own thread, the logs of its uuid and nothing of
\* the lists, the handlers and the flags.
LEMMA WorkerFrame ==
    ASSUME TypeOK, NEW o \in Obj, Worker(o)
    PROVE  /\ UNCHANGED <<uuid, status, tasks, stop, quit, api, boot, dbTasks,
                          crashes, dup, mixed>>
           /\ pc[o] # "none" /\ pc'[o] # "none"
           /\ \A p \in Obj \ {o} : /\ pc'[p] = pc[p] /\ todo'[p] = todo[p]
                                   /\ index'[p] = index[p] /\ late'[p] = late[p]
<1> USE DEF TypeOK, taskVars, dbVars
<1>1. CASE Poll(o)
  BY <1>1 DEF Poll
<1>2. CASE Loop(o)
  BY <1>2 DEF Loop
<1>3. CASE CheckForStop(o)
  BY <1>3 DEF CheckForStop, AfterGate
<1>4. CASE Woken(o)
  BY <1>4 DEF Woken, AfterGate
<1>5. CASE Begin(o)
  BY <1>5 DEF Begin
<1>6. CASE Work(o)
  BY <1>6 DEF Work
<1>7. CASE Store(o)
  BY <1>7 DEF Store
<1>8. CASE WaitForCall(o)
  BY <1>8 DEF WaitForCall
<1> QED BY <1>1, <1>2, <1>3, <1>4, <1>5, <1>6, <1>7, <1>8 DEF Worker

\* What a constructor does to its object and to every other one.
LEMMA NewTaskFrame ==
    ASSUME TypeOK, NEW o \in Obj, NEW u \in Uuid, NEW s \in Status,
           NewTask(o, u, s)
    PROVE  /\ o \notin Listed /\ api.obj # o /\ pc[o] \in Finished
           /\ uuid'[o] = u /\ status'[o] = s /\ pc'[o] = "none"
           /\ ~stop'[o] /\ ~quit'[o] /\ todo'[o] = <<>> /\ late'[o] = 0
           /\ \A p \in Obj \ {o} :
                /\ uuid'[p] = uuid[p] /\ status'[p] = status[p]
                /\ pc'[p] = pc[p] /\ stop'[p] = stop[p] /\ quit'[p] = quit[p]
                /\ todo'[p] = todo[p] /\ index'[p] = index[p]
                /\ late'[p] = late[p]
BY DEF TypeOK, NewTask, Free

\* The objects a route lists, in terms of Listed.
LEMMA ListedObjects ==
    ASSUME TypeOK
    PROVE  /\ Listed \subseteq Obj
           /\ \A r \in Route : \A i \in DOMAIN tasks[r] : tasks[r][i] \in Listed
           /\ \A o \in Listed : \E r \in Route : \E i \in DOMAIN tasks[r] :
                                    tasks[r][i] = o
BY DEF TypeOK, Listed

-----------------------------------------------------------------------------
(* Late images and lost wakeups.                                           *)

LEMMA WorkerLate ==
    ASSUME TypeOK, AtImage, NoLostWakeup, LateOK, NEW o \in Obj, Worker(o)
    PROVE  AtImage' /\ NoLostWakeup' /\ LateOK'
<1> SUFFICES /\ pc'[o] \in {"begin", "work", "store"} => todo'[o] # <<>>
             /\ pc'[o] = "wait" => stop'[o]
             /\ late'[o] <= 1
             /\ pc'[o] # "none"
             /\ late'[o] = 1 =>
                  /\ stop'[o] \/ quit'[o]
                  /\ pc'[o] \notin {"begin", "woken"}
                  /\ pc'[o] = "gate" => stop'[o] \/ todo'[o] = <<>>
  BY WorkerFrame DEF AtImage, NoLostWakeup, LateOK
<1> USE DEF TypeOK, AtImage, NoLostWakeup, LateOK, taskVars, dbVars
<1>1. CASE Poll(o)
  BY <1>1 DEF Poll
<1>2. CASE Loop(o)
  BY <1>2 DEF Loop
<1>3. CASE CheckForStop(o)
  BY <1>3 DEF CheckForStop, AfterGate
<1>4. CASE Woken(o)
  BY <1>4 DEF Woken, AfterGate
<1>5. CASE Begin(o)
  BY <1>5 DEF Begin
<1>6. CASE Work(o)
  BY <1>6 DEF Work
<1>7. CASE Store(o)
  BY <1>7 DEF Store
<1>8. CASE WaitForCall(o)
  BY <1>8 DEF WaitForCall
<1> QED BY <1>1, <1>2, <1>3, <1>4, <1>5, <1>6, <1>7, <1>8 DEF Worker

LEMMA NewTaskLate ==
    ASSUME TypeOK, AtImage, NoLostWakeup, LateOK,
           NEW o \in Obj, NEW u \in Uuid, NEW s \in Status, NewTask(o, u, s)
    PROVE  AtImage' /\ NoLostWakeup' /\ LateOK'
<1> SUFFICES ASSUME NEW p \in Obj
             PROVE  /\ pc'[p] \in {"begin", "work", "store"} => todo'[p] # <<>>
                    /\ pc'[p] = "wait" => stop'[p]
                    /\ late'[p] <= 1
                    /\ pc'[p] = "none" => late'[p] = 0
                    /\ late'[p] = 1 =>
                         /\ stop'[p] \/ quit'[p]
                         /\ pc'[p] \notin {"begin", "woken"}
                         /\ pc'[p] = "gate" => stop'[p] \/ todo'[p] = <<>>
  BY DEF AtImage, NoLostWakeup, LateOK
<1>1. CASE p = o
  BY <1>1, NewTaskFrame
<1>2. CASE p # o
  BY <1>2, NewTaskFrame DEF AtImage, NoLostWakeup, LateOK
<1> QED BY <1>1, <1>2

\* Of the handlers only resume touches these facts: it resets both sides.
LEMMA HandlerLate ==
    ASSUME TypeOK, AtImage, NoLostWakeup, LateOK, HandlerOK, Handler
    PROVE  AtImage' /\ NoLostWakeup' /\ LateOK'
<1> USE DEF TypeOK, AtImage, NoLostWakeup, LateOK, taskVars, workerVars
<1>1. CASE Validate
  BY <1>1 DEF Validate
<1>2. CASE KickoffRefused
  BY <1>2 DEF KickoffRefused
<1>3. CASE KickoffLaunch
  <2>1. api.obj \in Obj /\ pc[api.obj] = "none"
    BY <1>3, HandlerObject DEF KickoffLaunch, HandlerOK
  <2> QED BY <1>3, <2>1 DEF KickoffLaunch
<1>4. CASE KickoffDone
  BY <1>4 DEF KickoffDone
<1>5. CASE DeleteLogs
  BY <1>5 DEF DeleteLogs
<1>6. ASSUME NEW o \in Obj, NEW u \in Uuid, BootTask(o, u)
      PROVE  AtImage' /\ NoLostWakeup' /\ LateOK'
  <2>1. Head(boot[u]) \in Status
    BY <1>6 DEF BootTask
  <2>2. NewTask(o, u, Head(boot[u]))
    BY <1>6 DEF BootTask
  <2> QED BY <2>1, <2>2, NewTaskLate
<1> QED BY <1>1, <1>2, <1>3, <1>4, <1>5, <1>6 DEF Handler

LEMMA RequestLate ==
    ASSUME TypeOK, AtImage, NoLostWakeup, LateOK, HandlerOK, Request
    PROVE  AtImage' /\ NoLostWakeup' /\ LateOK'
<1> USE DEF TypeOK, AtImage, NoLostWakeup, LateOK, taskVars, workerVars
<1>1. ASSUME NEW o \in Obj, NEW u \in Uuid, NEW now \in BOOLEAN,
             CreateTask(o, u, now)
      PROVE  AtImage' /\ NoLostWakeup' /\ LateOK'
  BY <1>1, NewTaskLate DEF CreateTask, Status
<1>2. ASSUME NEW r \in Route, StartTask(r)
      PROVE  AtImage' /\ NoLostWakeup' /\ LateOK'
  BY <1>2 DEF StartTask
<1>3. ASSUME NEW r \in Route, ResumeTask(r)
      PROVE  AtImage' /\ NoLostWakeup' /\ LateOK'
  BY SMTT(30), <1>3, GetTaskType DEF ResumeTask, ResumeJob
<1>4. ASSUME NEW r \in Route, PauseTask(r)
      PROVE  AtImage' /\ NoLostWakeup' /\ LateOK'
  BY <1>4, GetTaskType DEF PauseTask
<1>5. ASSUME NEW r \in Route, DeleteTask(r)
      PROVE  AtImage' /\ NoLostWakeup' /\ LateOK'
  BY <1>5, GetTaskType DEF DeleteTask
<1>6. ASSUME NEW r \in Route, Refuse(r)
      PROVE  AtImage' /\ NoLostWakeup' /\ LateOK'
  BY <1>6 DEF Refuse, vars
<1> QED BY <1>1, <1>2, <1>3, <1>4, <1>5, <1>6 DEF Request

LEMMA CrashLate ==
    ASSUME Crash
    PROVE  AtImage' /\ NoLostWakeup' /\ LateOK'
BY DEF Crash, All, AtImage, NoLostWakeup, LateOK

-----------------------------------------------------------------------------
(* The lists and the object of the handler that is under way.              *)

\* Appending an unlisted object to the list of its route.
LEMMA AddTaskLists ==
    ASSUME TypeOK, ListsByRoute, NEW r \in Route, NEW o \in Obj, o \notin Listed,
           tasks' = [tasks EXCEPT ![r] = Append(@, o)],
           RouteOf[uuid'[o]] = r,
           \A p \in Listed : uuid'[p] = uuid[p]
    PROVE  ListsByRoute' /\ Listed' = Listed \cup {o}
<1>1. /\ tasks \in [Route -> Seq(Obj)]
      /\ tasks' \in [Route -> Seq(Obj)]
      /\ \A q \in Route \ {r} : tasks'[q] = tasks[q]
      /\ tasks'[r] = Append(tasks[r], o)
  BY DEF TypeOK
<1>2. /\ DOMAIN tasks[r] = 1..Len(tasks[r])
      /\ DOMAIN tasks'[r] = 1..(Len(tasks[r]) + 1)
      /\ Len(tasks[r]) \in Nat
      /\ \A i \in DOMAIN tasks[r] : tasks'[r][i] = tasks[r][i]
      /\ tasks'[r][Len(tasks[r]) + 1] = o
  BY <1>1
<1>3. \A q \in Route : \A i \in DOMAIN tasks[q] : tasks[q][i] \in Listed
  BY ListedObjects
<1>4. ASSUME NEW q \in Route, NEW i \in DOMAIN tasks'[q]
      PROVE  /\ RouteOf[uuid'[tasks'[q][i]]] = q
             /\ \A j \in DOMAIN tasks'[q] : tasks'[q][i] = tasks'[q][j] => i = j
  <2>1. CASE q # r
    BY <1>1, <1>3, <2>1 DEF ListsByRoute
  <2>2. CASE q = r
    <3>1. ASSUME NEW j \in DOMAIN tasks'[r]
          PROVE  \/ /\ j \in DOMAIN tasks[r]
                    /\ tasks'[r][j] = tasks[r][j]
                    /\ tasks[r][j] \in Listed
                 \/ /\ j = Len(tasks[r]) + 1
                    /\ tasks'[r][j] = o
      BY <1>2, <1>3, <3>1
    <3> QED BY <2>2, <3>1 DEF ListsByRoute
  <2> QED BY <2>1, <2>2
<1>5. ListsByRoute'
  BY <1>4 DEF ListsByRoute
<1>6. Listed' = Listed \cup {o}
  <2>1. ASSUME NEW p \in Listed'
        PROVE  p \in Listed \cup {o}
    <3>0. PICK q \in Route : \E i \in DOMAIN tasks'[q] : tasks'[q][i] = p
      BY <2>1 DEF Listed
    <3>1. PICK i \in DOMAIN tasks'[q] : tasks'[q][i] = p
      BY <3>0
    <3>2. CASE q # r
      BY <1>1, <1>3, <3>1, <3>2
    <3>3. CASE q = r
      BY <1>2, <1>3, <3>1, <3>3
    <3> QED BY <3>2, <3>3
  <2>2. o \in Listed'
    <3>1. Len(tasks[r]) + 1 \in DOMAIN tasks'[r]
      BY <1>2
    <3> QED BY <3>1, <1>2 DEF Listed
  <2>3. ASSUME NEW p \in Listed
        PROVE  p \in Listed'
    <3>0. PICK q \in Route : \E i \in DOMAIN tasks[q] : tasks[q][i] = p
      BY ListedObjects
    <3>1. PICK i \in DOMAIN tasks[q] : tasks[q][i] = p
      BY <3>0
    <3>2. i \in DOMAIN tasks'[q] /\ tasks'[q][i] = p
      BY <1>1, <1>2, <3>1
    <3> QED BY <3>2 DEF Listed
  <2> QED BY <2>1, <2>2, <2>3
<1> QED BY <1>5, <1>6

\* Removing the first object of a route: it is then in no list.
LEMMA DropTaskLists ==
    ASSUME TypeOK, ListsByRoute, NEW r \in Route, tasks[r] # <<>>,
           tasks' = [tasks EXCEPT ![r] = Tail(@)], uuid' = uuid
    PROVE  ListsByRoute' /\ Listed' \subseteq Listed \ {get_task(r)}
<1>1. /\ tasks \in [Route -> Seq(Obj)]
      /\ tasks' \in [Route -> Seq(Obj)]
      /\ \A q \in Route \ {r} : tasks'[q] = tasks[q]
      /\ tasks'[r] = Tail(tasks[r])
  BY DEF TypeOK
<1>2. /\ Len(tasks[r]) \in Nat /\ Len(tasks[r]) >= 1
      /\ DOMAIN tasks[r] = 1..Len(tasks[r])
      /\ DOMAIN tasks'[r] = 1..(Len(tasks[r]) - 1)
      /\ \A i \in DOMAIN tasks'[r] : /\ tasks'[r][i] = tasks[r][i + 1]
                                     /\ i + 1 \in DOMAIN tasks[r]
      /\ 1 \in DOMAIN tasks[r] /\ get_task(r) = tasks[r][1]
  BY <1>1 DEF get_task
<1>3. \A q \in Route : \A i \in DOMAIN tasks[q] : tasks[q][i] \in Listed
  BY ListedObjects
<1>4. ASSUME NEW q \in Route, NEW i \in DOMAIN tasks'[q]
      PROVE  /\ RouteOf[uuid'[tasks'[q][i]]] = q
             /\ \A j \in DOMAIN tasks'[q] : tasks'[q][i] = tasks'[q][j] => i = j
             /\ tasks'[q][i] \in Listed
             /\ tasks'[q][i] # get_task(r)
  <2>1. CASE q # r
    <3>1. tasks'[q] = tasks[q] /\ RouteOf[uuid[tasks[q][i]]] = q
      BY <1>1, <2>1 DEF ListsByRoute
    <3>2. RouteOf[uuid[get_task(r)]] = r
      BY <1>2 DEF ListsByRoute
    <3> QED BY <1>3, <2>1, <3>1, <3>2 DEF ListsByRoute
  <2>2. CASE q = r
    <3>1. i \in Nat /\ i >= 1 /\ i + 1 # 1
      BY <1>2, <2>2
    <3>2. \A j \in DOMAIN tasks'[r] : j \in Nat
      BY <1>2
    <3>3. \A j \in DOMAIN tasks'[r] : tasks'[r][i] = tasks'[r][j] => i + 1 = j + 1
      BY <1>2, <2>2 DEF ListsByRoute
    <3>4. RouteOf[uuid[tasks[r][i + 1]]] = r /\ tasks[r][i + 1] # tasks[r][1]
      BY <1>2, <2>2, <3>1 DEF ListsByRoute
    <3> QED BY <1>2, <1>3, <2>2, <3>1, <3>2, <3>3, <3>4
  <2> QED BY <2>1, <2>2
<1>5. ListsByRoute'
  BY <1>4 DEF ListsByRoute
<1>6. Listed' \subseteq Listed \ {get_task(r)}
  BY <1>4 DEF Listed
<1> QED BY <1>5, <1>6

\* The object a request acts on is listed under the route of its uuid.
LEMMA GetTaskListed ==
    ASSUME TypeOK, ListsByRoute, NEW r \in Route, tasks[r] # <<>>
    PROVE  get_task(r) \in Listed /\ RouteOf[uuid[get_task(r)]] = r
<1>1. 1 \in DOMAIN tasks[r] /\ get_task(r) = tasks[r][1]
  BY DEF TypeOK, get_task
<1> QED BY <1>1, ListedObjects DEF ListsByRoute

-----------------------------------------------------------------------------
(* ListsByRoute, HandlerOK and StopStatusOK over every action.             *)

LEMMA WorkerLists ==
    ASSUME TypeOK, ListsByRoute, HandlerOK, StopStatusOK,
           NEW o \in Obj, Worker(o)
    PROVE  ListsByRoute' /\ HandlerOK' /\ StopStatusOK'
<1>1. /\ UNCHANGED <<uuid, status, tasks, stop, api>>
      /\ pc[o] # "none" /\ pc'[o] # "none"
      /\ \A p \in Obj \ {o} : pc'[p] = pc[p]
  BY WorkerFrame
<1>2. Listed' = Listed
  BY <1>1 DEF Listed
<1>3. ListsByRoute'
  BY <1>1 DEF ListsByRoute
<1>4. HandlerOK'
  BY <1>1, <1>2, HandlerObject DEF HandlerOK, get_task
<1>5. StopStatusOK'
  BY <1>1, <1>2, ListedObjects DEF StopStatusOK
<1> QED BY <1>3, <1>4, <1>5

\* A constructor does not touch listed objects.
LEMMA NewTaskListed ==
    ASSUME TypeOK, NEW o \in Obj, NEW u \in Uuid, NEW s \in Status,
           NewTask(o, u, s)
    PROVE  \A p \in Listed : /\ p # o /\ uuid'[p] = uuid[p]
                             /\ status'[p] = status[p] /\ stop'[p] = stop[p]
                             /\ pc'[p] = pc[p]
BY NewTaskFrame, ListedObjects

LEMMA HandlerLists ==
    ASSUME TypeOK, ListsByRoute, HandlerOK, StopStatusOK, Handler
    PROVE  ListsByRoute' /\ HandlerOK' /\ StopStatusOK'
<1> USE DEF taskVars, workerVars
<1>1. CASE Validate
  <2>1. /\ api.obj \in Obj /\ pc[api.obj] = "none" /\ api.obj \notin Listed
        /\ RouteOf[uuid[api.obj]] \in Route
    BY <1>1, HandlerObject, RouteAssumption DEF Validate, HandlerOK, TypeOK
  <2>2. UNCHANGED <<uuid, status, pc, stop>>
    BY <1>1 DEF Validate
  <2>3. CASE tasks' = tasks /\ api' = Return
    <3>1. Listed' = Listed
      BY <2>3 DEF Listed
    <3> QED BY <1>1, <2>2, <2>3, <3>1, ReturnType
            DEF Validate, ListsByRoute, HandlerOK, StopStatusOK
  <2>4. CASE /\ tasks' = [tasks EXCEPT ![RouteOf[uuid[api.obj]]] =
                            Append(@, api.obj)]
             /\ api' = IF api.now THEN Kick(api.obj) ELSE Return
    <3>1. ListsByRoute' /\ Listed' = Listed \cup {api.obj}
      BY <2>1, <2>2, <2>4, AddTaskLists
    <3>2. HandlerOK'
      BY <2>1, <2>2, <2>4, ReturnType DEF Kick, HandlerOK
    <3>3. StopStatusOK'
      BY <1>1, <2>1, <2>2, <3>1 DEF Validate, StopStatusOK
    <3> QED BY <3>1, <3>2, <3>3
  <2> QED BY <1>1, <2>3, <2>4 DEF Validate
<1>2. CASE KickoffRefused
  <2>1. /\ UNCHANGED <<uuid, status, pc, stop, tasks>>
        /\ api.op = "kick" /\ api'.op \in {"idle", "boot"}
    BY <1>2, ReturnType DEF KickoffRefused
  <2>2. Listed' = Listed
    BY <2>1 DEF Listed
  <2> QED BY <2>1, <2>2 DEF ListsByRoute, HandlerOK, StopStatusOK
<1>3. CASE KickoffLaunch
  <2>1. /\ api.obj \in Obj
        /\ UNCHANGED <<uuid, status, tasks>> /\ Listed' = Listed
        /\ api.op = "kick" /\ api'.op = "launched" /\ api'.obj = api.obj
    <3>1. api.obj \in Obj
      BY <1>3, HandlerObject DEF KickoffLaunch
    <3>2. UNCHANGED <<uuid, status, tasks>> /\ Listed' = Listed
      BY <1>3 DEF KickoffLaunch, Listed
    <3> QED BY <1>3, <3>1, <3>2 DEF KickoffLaunch
  <2>2. /\ ~stop'[api.obj]
        /\ \A p \in Obj \ {api.obj} : pc'[p] = pc[p] /\ stop'[p] = stop[p]
    BY <1>3, <2>1 DEF KickoffLaunch, TypeOK
  <2>3. ListsByRoute' /\ HandlerOK'
    BY <2>1, <2>2 DEF ListsByRoute, HandlerOK
  <2>4. StopStatusOK'
    BY <2>1, <2>2, ListedObjects DEF StopStatusOK
  <2> QED BY <2>3, <2>4
<1>4. CASE KickoffDone
  <2>1. /\ api.obj \in Obj /\ ~stop[api.obj]
        /\ UNCHANGED <<uuid, tasks, pc, stop>> /\ Listed' = Listed
        /\ api.op = "launched" /\ api'.op \in {"idle", "boot"}
    BY <1>4, HandlerObject, ReturnType DEF KickoffDone, HandlerOK, Listed
  <2>2. /\ status'[api.obj] = "started"
        /\ \A p \in Obj \ {api.obj} : status'[p] = status[p]
    BY <1>4, <2>1 DEF KickoffDone, TypeOK
  <2>3. ListsByRoute' /\ HandlerOK'
    BY <2>1 DEF ListsByRoute, HandlerOK
  <2>4. StopStatusOK'
    BY <2>1, <2>2, ListedObjects DEF StopStatusOK
  <2> QED BY <2>3, <2>4
<1>5. CASE DeleteLogs
  <2> DEFINE r == RouteOf[uuid[api.obj]]
  <2>1. /\ api.obj \in Obj /\ r \in Route
        /\ tasks[r] # <<>> /\ get_task(r) = api.obj
        /\ UNCHANGED <<uuid, status, pc, stop>>
        /\ api.op = "dellog" /\ api'.op \in {"idle", "boot"}
    BY <1>5, HandlerObject, RouteAssumption, ReturnType
       DEF DeleteLogs, HandlerOK, TypeOK
  <2>2. tasks' = [tasks EXCEPT ![r] = Tail(@)]
    BY <1>5 DEF DeleteLogs
  <2>3. ListsByRoute' /\ Listed' \subseteq Listed \ {api.obj}
    BY <2>1, <2>2, DropTaskLists
  <2> QED BY <2>1, <2>3 DEF HandlerOK, StopStatusOK
<1>6. ASSUME NEW o \in Obj, NEW u \in Uuid, BootTask(o, u)
      PROVE  ListsByRoute' /\ HandlerOK' /\ StopStatusOK'
  <2>1. /\ Head(boot[u]) \in Status /\ NewTask(o, u, Head(boot[u]))
        /\ RouteOf[u] \in Route /\ api.op = "boot"
        /\ tasks' = [tasks EXCEPT ![RouteOf[u]] = Append(@, o)]
        /\ (api'.op \in {"idle", "boot"} \/ api' = Kick(o))
    <3>1. Return'.op \in {"idle", "boot"}
      BY DEF Return, Idle
    <3>2. Head(boot[u]) \in Status
      BY <1>6 DEF BootTask, TypeOK
    <3>3. RouteOf[u] \in Route
      BY RouteAssumption
    <3> QED BY <1>6, <3>1, <3>2, <3>3 DEF BootTask
  <2>2. o \notin Listed /\ uuid'[o] = u /\ pc'[o] = "none"
    BY <2>1, NewTaskFrame
  <2>3. ListsByRoute' /\ Listed' = Listed \cup {o}
    BY <2>1, <2>2, NewTaskListed, AddTaskLists
  <2>4. HandlerOK'
    BY <2>1, <2>2 DEF HandlerOK, Kick
  <2>5. StopStatusOK'
    BY <2>1, <2>2, <2>3, NewTaskListed DEF StopStatusOK
  <2> QED BY <2>3, <2>4, <2>5
<1> QED BY <1>1, <1>2, <1>3, <1>4, <1>5, <1>6 DEF Handler

LEMMA RequestLists ==
    ASSUME TypeOK, ListsByRoute, HandlerOK, StopStatusOK, Request
    PROVE  ListsByRoute' /\ HandlerOK' /\ StopStatusOK'
<1> USE DEF taskVars, workerVars
<1>1. ASSUME NEW o \in Obj, NEW u \in Uuid, NEW now \in BOOLEAN,
             CreateTask(o, u, now)
      PROVE  ListsByRoute' /\ HandlerOK' /\ StopStatusOK'
  <2>1. /\ NewTask(o, u, "pause") /\ "pause" \in Status /\ tasks' = tasks
        /\ api.op = "idle" /\ api'.op = "validate" /\ api'.obj = o
    BY <1>1 DEF CreateTask, Status
  <2>2. Listed' = Listed
    BY <2>1 DEF Listed
  <2>3. ListsByRoute'
    BY <2>1, NewTaskListed, ListedObjects DEF ListsByRoute
  <2>4. HandlerOK'
    BY <2>1, <2>2, NewTaskFrame DEF HandlerOK
  <2>5. StopStatusOK'
    BY <2>1, <2>2, NewTaskListed DEF StopStatusOK
  <2> QED BY <2>3, <2>4, <2>5
<1>2. ASSUME NEW r \in Route, StartTask(r)
      PROVE  ListsByRoute' /\ HandlerOK' /\ StopStatusOK'
  <2>1. /\ UNCHANGED <<uuid, status, tasks, pc, stop>> /\ Listed' = Listed
        /\ api.op = "idle" /\ api'.op = "kick" /\ pc[api'.obj] = "none"
    BY <1>2 DEF StartTask, Kick, Listed
  <2> QED BY <2>1 DEF ListsByRoute, HandlerOK, StopStatusOK
<1>3. ASSUME NEW r \in Route, ResumeTask(r)
      PROVE  ListsByRoute' /\ HandlerOK' /\ StopStatusOK'
  <2> DEFINE o == get_task(r)
  <2>1. o \in Obj
    BY <1>3, GetTaskType DEF ResumeTask
  <2>2. /\ UNCHANGED <<uuid, tasks, api>> /\ Listed' = Listed /\ api.op = "idle"
    BY <1>3 DEF ResumeTask, Listed
  <2>3. /\ ~stop'[o] /\ status'[o] = "started"
        /\ \A p \in Obj \ {o} : /\ pc'[p] = pc[p] /\ stop'[p] = stop[p]
                                /\ status'[p] = status[p]
    BY <1>3, <2>1 DEF ResumeTask, ResumeJob, TypeOK
  <2>4. ListsByRoute' /\ HandlerOK'
    BY <2>2 DEF ListsByRoute, HandlerOK
  <2>5. StopStatusOK'
    BY <2>2, <2>3, ListedObjects DEF StopStatusOK
  <2> QED BY <2>4, <2>5
<1>4. ASSUME NEW r \in Route, PauseTask(r)
      PROVE  ListsByRoute' /\ HandlerOK' /\ StopStatusOK'
  <2> DEFINE o == get_task(r)
  <2>1. o \in Obj
    BY <1>4, GetTaskType DEF PauseTask
  <2>2. /\ UNCHANGED <<uuid, tasks, api, pc>> /\ Listed' = Listed
        /\ api.op = "idle"
    BY <1>4 DEF PauseTask, Listed
  <2>3. /\ stop'[o] /\ status'[o] = "pause"
        /\ \A p \in Obj \ {o} : stop'[p] = stop[p] /\ status'[p] = status[p]
    BY <1>4, <2>1 DEF PauseTask, TypeOK
  <2>4. ListsByRoute' /\ HandlerOK'
    BY <2>2 DEF ListsByRoute, HandlerOK
  <2>5. StopStatusOK'
    BY <2>2, <2>3, ListedObjects DEF StopStatusOK
  <2> QED BY <2>4, <2>5
<1>5. ASSUME NEW r \in Route, DeleteTask(r)
      PROVE  ListsByRoute' /\ HandlerOK' /\ StopStatusOK'
  <2> DEFINE o == get_task(r)
  <2>1. o \in Obj /\ RouteOf[uuid[o]] = r /\ tasks[r] # <<>>
    BY <1>5, GetTaskType, GetTaskListed DEF DeleteTask
  <2>2. /\ UNCHANGED <<uuid, tasks, pc, stop>> /\ Listed' = Listed
        /\ api.op = "idle" /\ api'.op = "dellog" /\ api'.obj = o
    BY <1>5 DEF DeleteTask, Listed
  <2>3. \A p \in Obj \ {o} : status'[p] = status[p]
    BY <1>5, <2>1 DEF DeleteTask, TypeOK
  <2>4. ListsByRoute' /\ HandlerOK'
    BY <2>1, <2>2 DEF ListsByRoute, HandlerOK, get_task
  <2>5. StopStatusOK'
    BY <2>2, <2>3, ListedObjects DEF StopStatusOK
  <2> QED BY <2>4, <2>5
<1>6. ASSUME NEW r \in Route, Refuse(r)
      PROVE  ListsByRoute' /\ HandlerOK' /\ StopStatusOK'
  BY <1>6 DEF Refuse, vars, ListsByRoute, HandlerOK, StopStatusOK, Listed,
              get_task
<1> QED BY <1>1, <1>2, <1>3, <1>4, <1>5, <1>6 DEF Request

LEMMA CrashLists ==
    ASSUME Crash
    PROVE  ListsByRoute' /\ HandlerOK' /\ StopStatusOK'
<1>1. tasks' = [r \in Route |-> <<>>] /\ api'.op \in {"idle", "boot"}
  BY DEF Crash, Idle
<1>2. Listed' = {}
  BY <1>1 DEF Listed
<1> QED BY <1>1, <1>2 DEF ListsByRoute, HandlerOK, StopStatusOK

-----------------------------------------------------------------------------
(* The numbering of the logs.                                              *)

\* Appending the next number keeps a numbered sequence numbered.
LEMMA AppendNumbered ==
    ASSUME NEW s \in Seq(Nat), NEW n \in Nat, n = Len(s),
           \A i \in DOMAIN s : s[i] = i - 1
    PROVE  /\ \A i \in DOMAIN Append(s, n) : Append(s, n)[i] = i - 1
           /\ Len(Append(s, n)) = Len(s) + 1
OBVIOUS

\* A worker step never turns a worker that cannot write into one that can,
\* and only a worker that can write stores a log.
LEMMA WorkerMayWrite ==
    ASSUME TypeOK, AtImage, NEW o \in Obj, Worker(o)
    PROVE  /\ MayWrite(o)' => MayWrite(o)
           /\ \/ dbLogs' = dbLogs /\ index' = index
              \/ /\ MayWrite(o)
                 /\ dbLogs' = [dbLogs EXCEPT ![uuid[o]] = Append(@, index[o])]
                 /\ index' = [index EXCEPT ![o] = @ + 1]
<1> USE DEF TypeOK, MayWrite, Finished, taskVars, dbVars
<1>1. CASE Poll(o)
  BY <1>1 DEF Poll
<1>2. CASE Loop(o)
  BY <1>2 DEF Loop
<1>3. CASE CheckForStop(o)
  BY <1>3 DEF CheckForStop, AfterGate
<1>4. CASE Woken(o)
  BY <1>4 DEF Woken, AfterGate
<1>5. CASE Begin(o)
  BY <1>5 DEF Begin
<1>6. CASE Work(o)
  BY <1>6 DEF Work
<1>7. CASE Store(o)
  BY <1>7 DEF Store
<1>8. CASE WaitForCall(o)
  BY <1>8 DEF WaitForCall
<1> QED BY <1>1, <1>2, <1>3, <1>4, <1>5, <1>6, <1>7, <1>8 DEF Worker

LEMMA WorkerLogs ==
    ASSUME TypeOK, AtImage, LogsOK, NEW o \in Obj, Worker(o)
    PROVE  LogsOK'
<1>1. /\ UNCHANGED <<uuid, quit, mixed>>
      /\ \A p \in Obj \ {o} : /\ pc'[p] = pc[p] /\ todo'[p] = todo[p]
                              /\ index'[p] = index[p]
  BY WorkerFrame
<1>2. \A p \in Obj : MayWrite(p)' => MayWrite(p)
  <2>1. \A p \in Obj \ {o} : MayWrite(p)' <=> MayWrite(p)
    BY <1>1 DEF MayWrite
  <2> QED BY <2>1, WorkerMayWrite
<1>3. \A p \in Obj : OtherWriter(p)' => OtherWriter(p)
  BY <1>1, <1>2 DEF OtherWriter
<1>4. SUFFICES ASSUME NEW u \in Uuid, ~mixed[u]
      PROVE  /\ \A i \in DOMAIN dbLogs'[u] : dbLogs'[u][i] = i - 1
             /\ \A p \in Obj : uuid[p] = u /\ MayWrite(p)' =>
                                 index'[p] = Len(dbLogs'[u]) /\ ~OtherWriter(p)'
  BY <1>1 DEF LogsOK
<1>5. /\ \A i \in DOMAIN dbLogs[u] : dbLogs[u][i] = i - 1
      /\ \A p \in Obj : uuid[p] = u /\ MayWrite(p) =>
                          index[p] = Len(dbLogs[u]) /\ ~OtherWriter(p)
      /\ dbLogs[u] \in Seq(Nat) /\ Len(dbLogs[u]) \in Nat
  BY <1>4 DEF LogsOK, TypeOK
<1>6. CASE dbLogs' = dbLogs /\ index' = index
  BY <1>2, <1>3, <1>5, <1>6
<1>7. CASE /\ MayWrite(o)
           /\ dbLogs' = [dbLogs EXCEPT ![uuid[o]] = Append(@, index[o])]
           /\ index' = [index EXCEPT ![o] = @ + 1]
  <2>1. CASE uuid[o] # u
    <3>1. dbLogs'[u] = dbLogs[u]
      BY <1>7, <2>1 DEF TypeOK
    <3>2. \A p \in Obj : uuid[p] = u => index'[p] = index[p]
      BY <1>1, <2>1
    <3> QED BY <1>2, <1>3, <1>5, <3>1, <3>2
  <2>2. CASE uuid[o] = u
    <3>1. index[o] = Len(dbLogs[u]) /\ ~OtherWriter(o)
      BY <1>5, <1>7, <2>2
    <3>2. dbLogs'[u] = Append(dbLogs[u], index[o]) /\ index'[o] = index[o] + 1
      BY <1>7, <2>2 DEF TypeOK
    <3>3. /\ \A i \in DOMAIN dbLogs'[u] : dbLogs'[u][i] = i - 1
          /\ Len(dbLogs'[u]) = Len(dbLogs[u]) + 1
      BY <1>5, <3>1, <3>2, AppendNumbered
    <3>4. \A p \in Obj : uuid[p] = u /\ MayWrite(p) => p = o
      BY <2>2, <3>1 DEF OtherWriter
    <3> QED BY <1>2, <1>3, <1>5, <3>1, <3>2, <3>3, <3>4
  <2> QED BY <2>1, <2>2
<1> QED BY <1>6, <1>7, WorkerMayWrite

\* Steps after which no object that can write is new and the logs are the same.
LEMMA QuietLogs ==
    ASSUME LogsOK, dbLogs' = dbLogs, mixed' = mixed,
           \A p \in Obj : MayWrite(p)' =>
               MayWrite(p) /\ uuid'[p] = uuid[p] /\ index'[p] = index[p]
    PROVE  LogsOK'
<1>1. \A p \in Obj : MayWrite(p)' /\ OtherWriter(p)' => OtherWriter(p)
  BY DEF OtherWriter
<1> QED BY <1>1 DEF LogsOK

\* A constructor's object cannot write, the others are as before.
LEMMA NewTaskMayWrite ==
    ASSUME TypeOK, NEW o \in Obj, NEW u \in Uuid, NEW s \in Status,
           NewTask(o, u, s)
    PROVE  \A p \in Obj : MayWrite(p)' =>
               MayWrite(p) /\ uuid'[p] = uuid[p] /\ index'[p] = index[p]
<1>1. ~MayWrite(o)'
  BY NewTaskFrame DEF MayWrite, Finished
<1>2. \A p \in Obj \ {o} : MayWrite(p)' <=> MayWrite(p)
  BY NewTaskFrame DEF MayWrite
<1> QED BY <1>1, <1>2, NewTaskFrame

LEMMA HandlerLogs ==
    ASSUME TypeOK, LogsOK, HandlerOK, Handler
    PROVE  LogsOK'
<1> USE DEF taskVars, workerVars, dbVars
<1>1. CASE Validate
  BY <1>1, QuietLogs DEF Validate, MayWrite
<1>2. CASE KickoffRefused
  BY <1>2, QuietLogs DEF KickoffRefused, MayWrite
<1>3. CASE KickoffLaunch
  <2>0. PICK o \in Obj : o = api.obj
    BY <1>3, HandlerObject DEF KickoffLaunch
  <2>1. o \in Obj /\ uuid[o] \in Uuid /\ pc[o] = "none"
    BY <1>3, <2>0 DEF KickoffLaunch, HandlerOK, TypeOK
  <2>2. /\ uuid' = uuid /\ dbLogs' = dbLogs
        /\ index'[o] = Len(dbLogs[uuid[o]])
        /\ mixed'[uuid[o]] <=> (mixed[uuid[o]] \/ OtherWriter(o))
        /\ \A u \in Uuid \ {uuid[o]} : mixed'[u] = mixed[u]
        /\ \A p \in Obj \ {o} : /\ pc'[p] = pc[p] /\ todo'[p] = todo[p]
                                /\ quit'[p] = quit[p] /\ index'[p] = index[p]
    BY <1>3, <2>0, <2>1 DEF KickoffLaunch, TypeOK
  <2>3. \A p \in Obj \ {o} : MayWrite(p)' <=> MayWrite(p)
    BY <2>2 DEF MayWrite
  <2>4. OtherWriter(o)' <=> OtherWriter(o)
    BY <2>2, <2>3 DEF OtherWriter
  <2>5. ASSUME NEW u \in Uuid, ~mixed'[u]
        PROVE  /\ \A i \in DOMAIN dbLogs'[u] : dbLogs'[u][i] = i - 1
               /\ \A p \in Obj : uuid'[p] = u /\ MayWrite(p)' =>
                                  index'[p] = Len(dbLogs'[u]) /\ ~OtherWriter(p)'
    <3>1. ~mixed[u] /\ (u = uuid[o] => ~OtherWriter(o))
      BY <2>2, <2>5
    <3>2. CASE u = uuid[o]
      <4>1. \A p \in Obj \ {o} : uuid[p] = u => ~MayWrite(p)'
        BY <2>3, <3>1, <3>2 DEF OtherWriter
      <4> QED BY <2>2, <2>4, <3>1, <3>2, <4>1 DEF LogsOK
    <3>3. CASE u # uuid[o]
      <4>1. \A p \in Obj : uuid[p] = u => (OtherWriter(p)' <=> OtherWriter(p))
        BY <2>2, <2>3, <3>3 DEF OtherWriter
      <4> QED BY <2>2, <2>3, <3>1, <3>3, <4>1 DEF LogsOK
    <3> QED BY <3>2, <3>3
  <2> QED BY <2>5 DEF LogsOK
<1>4. CASE KickoffDone
  BY <1>4, QuietLogs DEF KickoffDone, MayWrite
<1>5. CASE DeleteLogs
  <2>1. PICK v \in Uuid : v = uuid[api.obj]
    BY <1>5, HandlerObject DEF DeleteLogs, TypeOK
  <2>2. /\ UNCHANGED <<uuid, pc, quit, todo, index>>
        /\ dbLogs'[v] = <<>> /\ \A u \in Uuid \ {v} : dbLogs'[u] = dbLogs[u]
        /\ mixed'[v] <=> (\E p \in Obj : uuid[p] = v /\ MayWrite(p))
        /\ \A u \in Uuid \ {v} : mixed'[u] = mixed[u]
    BY <1>5, <2>1 DEF DeleteLogs, TypeOK
  <2>3. \A p \in Obj : /\ MayWrite(p)' <=> MayWrite(p)
                       /\ OtherWriter(p)' <=> OtherWriter(p)
    BY <2>2 DEF MayWrite, OtherWriter
  <2> QED BY <2>2, <2>3 DEF LogsOK
<1>6. ASSUME NEW o \in Obj, NEW u \in Uuid, BootTask(o, u)
      PROVE  LogsOK'
  <2>1. Head(boot[u]) \in Status
    BY <1>6 DEF BootTask, TypeOK
  <2>2. NewTask(o, u, Head(boot[u])) /\ dbLogs' = dbLogs /\ mixed' = mixed
    BY <1>6 DEF BootTask
  <2> QED BY <2>1, <2>2, NewTaskMayWrite, QuietLogs
<1> QED BY <1>1, <1>2, <1>3, <1>4, <1>5, <1>6 DEF Handler

LEMMA RequestLogs ==
    ASSUME TypeOK, LogsOK, Request
    PROVE  LogsOK'
<1> USE DEF taskVars, workerVars, dbVars
<1>1. ASSUME NEW o \in Obj, NEW u \in Uuid, NEW now \in BOOLEAN,
             CreateTask(o, u, now)
      PROVE  LogsOK'
  <2>1. NewTask(o, u, "pause") /\ dbLogs' = dbLogs /\ mixed' = mixed
    BY <1>1 DEF CreateTask
  <2> QED BY <2>1, NewTaskMayWrite, QuietLogs DEF Status
<1>2. ASSUME NEW r \in Route, StartTask(r)
      PROVE  LogsOK'
  BY <1>2, QuietLogs DEF StartTask, MayWrite
<1>3. ASSUME NEW r \in Route, ResumeTask(r)
      PROVE  LogsOK'
  <2>1. get_task(r) \in Obj
    BY <1>3, GetTaskType DEF ResumeTask
  <2>2. \A p \in Obj : MayWrite(p)' => MayWrite(p)
    BY <1>3, <2>1 DEF ResumeTask, ResumeJob, MayWrite, TypeOK, Finished
  <2> QED BY <1>3, <2>2, QuietLogs DEF ResumeTask
<1>4. ASSUME NEW r \in Route, PauseTask(r)
      PROVE  LogsOK'
  BY <1>4, QuietLogs DEF PauseTask, MayWrite
<1>5. ASSUME NEW r \in Route, DeleteTask(r)
      PROVE  LogsOK'
  <2>1. get_task(r) \in Obj
    BY <1>5, GetTaskType DEF DeleteTask
  <2>2. \A p \in Obj : MayWrite(p)' => MayWrite(p)
    BY <1>5, <2>1 DEF DeleteTask, MayWrite, TypeOK
  <2> QED BY <1>5, <2>2, QuietLogs DEF DeleteTask
<1>6. ASSUME NEW r \in Route, Refuse(r)
      PROVE  LogsOK'
  BY <1>6, QuietLogs DEF Refuse, vars, MayWrite
<1> QED BY <1>1, <1>2, <1>3, <1>4, <1>5, <1>6 DEF Request

LEMMA CrashLogs ==
    ASSUME LogsOK, Crash
    PROVE  LogsOK'
<1>1. \A p \in Obj : ~MayWrite(p)'
  BY DEF Crash, All, MayWrite, Finished
<1> QED BY <1>1, QuietLogs DEF Crash, dbVars

-----------------------------------------------------------------------------
(* The inductive invariant and the theorems.                               *)

LEMMA InitIndInv == Init => IndInv
<1> SUFFICES ASSUME Init PROVE IndInv
  OBVIOUS
<1>1. TypeOK
  BY InitType
<1>2. tasks = [r \in Route |-> <<>>] /\ api.op = "idle" /\ Listed = {}
  BY DEF Init, Idle, Listed
<1>3. ListsByRoute /\ HandlerOK /\ StopStatusOK
  BY <1>2 DEF ListsByRoute, HandlerOK, StopStatusOK
<1>4. AtImage /\ NoLostWakeup /\ LateOK
  BY DEF Init, All, AtImage, NoLostWakeup, LateOK
<1>5. LogsOK
  BY DEF Init, All, LogsOK, MayWrite, Finished
<1> QED BY <1>1, <1>3, <1>4, <1>5 DEF IndInv

LEMMA NextIndInv == IndInv /\ [Next]_vars => IndInv'
<1> SUFFICES ASSUME IndInv, [Next]_vars PROVE IndInv'
  OBVIOUS
<1> USE DEF IndInv
<1>1. ASSUME NEW o \in Obj, Worker(o) PROVE IndInv'
  BY <1>1, WorkerType, WorkerLate, WorkerLists, WorkerLogs
<1>2. CASE Handler
  BY <1>2, HandlerType, HandlerLate, HandlerLists, HandlerLogs
<1>3. CASE Request
  BY <1>3, RequestType, RequestLate, RequestLists, RequestLogs
<1>4. CASE Crash
  BY <1>4, CrashType, CrashLate, CrashLists, CrashLogs
<1>5. CASE UNCHANGED vars
  <2>1. TypeOK'
    BY <1>5 DEF vars, TypeOK
  <2>2. ListsByRoute' /\ AtImage' /\ NoLostWakeup' /\ LateOK'
    BY <1>5 DEF vars, ListsByRoute, AtImage, NoLostWakeup, LateOK
  <2>3. Listed' = Listed
    BY <1>5 DEF vars, Listed
  <2>4. HandlerOK' /\ StopStatusOK'
    BY <1>5, <2>3 DEF vars, HandlerOK, StopStatusOK, get_task
  <2>5. LogsOK'
    BY <1>5, QuietLogs DEF vars, MayWrite
  <2> QED BY <2>1, <2>2, <2>4, <2>5
<1> QED BY <1>1, <1>2, <1>3, <1>4, <1>5 DEF Next

\* The inductive invariant holds in every reachable state.
THEOREM Inductive == Spec => []IndInv
BY InitIndInv, NextIndInv, PTL DEF Spec

\* Type correctness.  It needs the rest of IndInv: a worker that stores a log
\* takes an image from its list, a delete takes a task from the list.
THEOREM TypeCorrect == Spec => []TypeOK
<1>1. IndInv => TypeOK
  BY DEF IndInv
<1> QED BY <1>1, Inductive, PTL

\* At most one image begins after a stop or a delete, for any number of
\* workers, requests, crashes and images.
THEOREM LateImages == Spec => []AtMostOneLateImage
<1>1. IndInv => AtMostOneLateImage
  BY DEF IndInv, LateOK, AtMostOneLateImage
<1> QED BY <1>1, Inductive, PTL

\* No resume is lost.
THEOREM Wakeups == Spec => []NoLostWakeup
<1>1. IndInv => NoLostWakeup
  BY DEF IndInv
<1> QED BY <1>1, Inductive, PTL

\* The reported status of a task and the flag its worker sees agree.
THEOREM StopAgrees == Spec => []StopMatchesStatus
<1>1. IndInv => StopMatchesStatus
  BY DEF IndInv, StopStatusOK, StopMatchesStatus
<1> QED BY <1>1, Inductive, PTL

\* The logs of a uuid are numbered without gap or repetition as long as no
\* two workers share it.
THEOREM LogNumbers == Spec => []LogsNumbered
<1>1. IndInv => LogsNumbered
  BY DEF IndInv, LogsOK, LogsNumbered
<1> QED BY <1>1, Inductive, PTL

=============================================================================
