----------------------- MODULE TaskPersistence_proofs -----------------------
(***************************************************************************)
(* What TaskService has in memory between requests is what its database    *)
(* would bring back: EveryTaskPersisted and StatusPersisted, for every set *)
(* of uuids, routes and objects and every value of the bounds.  The proof  *)
(* builds on the inductive invariant of TaskService_proofs.                *)
(***************************************************************************)
EXTENDS TaskService_proofs, FiniteSetTheorems

-----------------------------------------------------------------------------
(* The listed tasks of a uuid, and their number.                           *)

\* The listed tasks of a uuid are finitely many objects.
LEMMA OwnType ==
    ASSUME TypeOK, NEW u \in Uuid
    PROVE  /\ Own(u) \subseteq Listed /\ Own(u) \subseteq Obj
           /\ IsFiniteSet(Own(u)) /\ Cardinality(Own(u)) \in Nat
<1>1. Own(u) \subseteq Listed /\ Own(u) \subseteq Obj
  BY ListedObjects DEF Own
<1>2. IsFiniteSet(Own(u))
  BY <1>1, ObjAssumption, FS_Subset
<1> QED BY <1>1, <1>2, FS_CardinalityType

\* The quantities RowsOK compares.
LEMMA RowNumbers ==
    ASSUME TypeOK, NEW u \in Uuid
    PROVE  /\ Cardinality(Own(u)) \in Nat
           /\ Arriving(u) \in {0, 1} /\ Leaving(u) \in {0, 1}
           /\ dbTasks[u] \in Seq(Status) /\ Len(dbTasks[u]) \in Nat
           /\ boot[u] \in Seq(Status) /\ Len(boot[u]) \in Nat
<1>1. dbTasks[u] \in Seq(Status) /\ boot[u] \in Seq(Status)
  BY DEF TypeOK
<1>2. Arriving(u) \in {0, 1} /\ Leaving(u) \in {0, 1}
  BY DEF Arriving, Leaving
<1> QED BY <1>1, <1>2, OwnType

\* Nothing is listed or removed.
LEMMA OwnFrame ==
    ASSUME Listed' = Listed, \A p \in Listed : uuid'[p] = uuid[p],
           NEW u \in Uuid
    PROVE  Own(u)' = Own(u)
BY DEF Own

\* One more task is listed.
LEMMA OwnAdd ==
    ASSUME TypeOK, NEW o \in Obj, o \notin Listed, Listed' = Listed \cup {o},
           \A p \in Listed : uuid'[p] = uuid[p], NEW u \in Uuid
    PROVE  Cardinality(Own(u)') =
             Cardinality(Own(u)) + (IF uuid'[o] = u THEN 1 ELSE 0)
<1>1. o \notin Own(u) /\ IsFiniteSet(Own(u)) /\ Cardinality(Own(u)) \in Nat
  BY OwnType
<1>2. CASE uuid'[o] = u
  <2>1. Own(u)' = Own(u) \cup {o}
    BY <1>2 DEF Own
  <2> QED BY <1>1, <1>2, <2>1, FS_AddElement
<1>3. CASE uuid'[o] # u
  <2>1. Own(u)' = Own(u)
    BY <1>3 DEF Own
  <2> QED BY <1>1, <1>3, <2>1
<1> QED BY <1>2, <1>3

\* A listed task is removed from the lists.
LEMMA OwnDrop ==
    ASSUME TypeOK, NEW o \in Listed, Listed' \subseteq Listed \ {o},
           uuid' = uuid, NEW u \in Uuid
    PROVE  /\ Cardinality(Own(u)') \in Nat
           /\ Cardinality(Own(u)') <=
                Cardinality(Own(u)) - (IF uuid[o] = u THEN 1 ELSE 0)
<1>1. /\ IsFiniteSet(Own(u)) /\ Cardinality(Own(u)) \in Nat
      /\ uuid[o] = u <=> o \in Own(u)
  BY OwnType DEF Own
<1>2. Own(u)' \in SUBSET (Own(u) \ {o})
  BY DEF Own
<1>3. /\ IsFiniteSet(Own(u) \ {o})
      /\ Cardinality(Own(u) \ {o}) =
           Cardinality(Own(u)) - (IF uuid[o] = u THEN 1 ELSE 0)
  BY <1>1, FS_RemoveElement
<1>4. IsFiniteSet(Own(u)') /\ Cardinality(Own(u)') <= Cardinality(Own(u) \ {o})
  BY <1>2, <1>3, FS_Subset
<1> QED BY <1>3, <1>4, FS_CardinalityType

\* A listed task whose uuid was posted once is the only one of its uuid, and
\* no row of it is still to be loaded.
LEMMA SoleOwner ==
    ASSUME TypeOK, RowsOK, RowStatusOK, api.op # "dellog",
           NEW u \in Uuid, ~dup[u], NEW o \in Own(u)
    PROVE  Own(u) = {o} /\ boot[u] = <<>>
<1>1. /\ Cardinality(Own(u)) + Arriving(u) + Len(boot[u])
           <= Len(dbTasks[u]) + Leaving(u)
      /\ Len(dbTasks[u]) <= 1 /\ Leaving(u) = 0
  BY DEF RowsOK, RowStatusOK, Leaving
<1>2. IsFiniteSet(Own(u)) /\ Cardinality(Own(u)) # 0
  BY OwnType, FS_EmptySet
<1>3. Cardinality(Own(u)) = 1 /\ Len(boot[u]) = 0
  BY <1>1, <1>2, RowNumbers
<1>4. \E p : Own(u) = {p}
  BY <1>2, <1>3, FS_Singleton
<1>5. Own(u) = {o}
  BY <1>4
<1>6. boot[u] = <<>>
  BY <1>3, RowNumbers
<1> QED BY <1>5, <1>6

-----------------------------------------------------------------------------
(* Steps of the same kind.                                                 *)

\* The Flask thread neither holds a task that arrives or leaves, nor will.
NotMoving == /\ api.op \notin {"validate", "dellog"}
             /\ api'.op \notin {"validate", "dellog"}

\* Steps that change no list and no number of rows.
LEMMA RowsSame ==
    ASSUME TypeOK, RowsOK, Listed' = Listed, uuid' = uuid, boot' = boot,
           \A u \in Uuid : Len(dbTasks'[u]) = Len(dbTasks[u]),
           api' = api \/ NotMoving
    PROVE  RowsOK'
<1> SUFFICES ASSUME NEW u \in Uuid
             PROVE  Cardinality(Own(u)') + Arriving(u)' + Len(boot'[u])
                      <= Len(dbTasks'[u]) + Leaving(u)'
  BY DEF RowsOK
<1>1. Own(u)' = Own(u)
  BY OwnFrame
<1>2. Arriving(u)' = Arriving(u) /\ Leaving(u)' = Leaving(u)
  BY DEF Arriving, Leaving, NotMoving
<1> QED BY <1>1, <1>2 DEF RowsOK

\* Steps that change no row and no status.
LEMMA RowStatusSame ==
    ASSUME RowStatusOK, Listed' = Listed, uuid' = uuid, boot' = boot,
           dbTasks' = dbTasks, dup' = dup, status' = status,
           api' = api \/ NotMoving
    PROVE  RowStatusOK'
BY DEF RowStatusOK, NotMoving

\* A status that is written to a listed task and to the database.
LEMMA SetStatus ==
    ASSUME TypeOK, RowsOK, RowStatusOK, NEW o \in Listed, NEW s \in Status,
           NotMoving, Listed' = Listed, uuid' = uuid, boot' = boot, dup' = dup,
           status' = [status EXCEPT ![o] = s],
           update_task_status(uuid[o], s)
    PROVE  RowsOK' /\ RowStatusOK'
<1>1. /\ o \in Obj /\ uuid[o] \in Uuid
      /\ status'[o] = s /\ \A p \in Obj \ {o} : status'[p] = status[p]
  BY ListedObjects DEF TypeOK
<1>2. /\ dbTasks'[uuid[o]] = SetFirst(dbTasks[uuid[o]], s)
      /\ \A u \in Uuid \ {uuid[o]} : dbTasks'[u] = dbTasks[u]
  BY <1>1 DEF update_task_status, TypeOK
<1>3. \A u \in Uuid : Len(dbTasks'[u]) = Len(dbTasks[u])
  <2>1. dbTasks[uuid[o]] \in Seq(Status)
    BY <1>1 DEF TypeOK
  <2>2. Len(SetFirst(dbTasks[uuid[o]], s)) = Len(dbTasks[uuid[o]])
    BY <2>1, SetFirstType
  <2> QED BY <1>2, <2>2
<1>4. RowsOK'
  BY <1>3, RowsSame
<1>5. ASSUME NEW u \in Uuid, ~dup'[u]
      PROVE  /\ Len(dbTasks'[u]) <= 1
             /\ boot'[u] # <<>> => boot'[u] = dbTasks'[u]
             /\ \A p \in Obj : uuid'[p] = u /\ p \in Listed' =>
                                 dbTasks'[u] = <<status'[p]>>
  <2>1. /\ Len(dbTasks[u]) <= 1
        /\ boot[u] # <<>> => boot[u] = dbTasks[u]
        /\ \A p \in Obj : uuid[p] = u /\ p \in Listed =>
                            dbTasks[u] = <<status[p]>>
    BY <1>5 DEF RowStatusOK, NotMoving
  <2>2. CASE u # uuid[o]
    BY <1>1, <1>2, <2>1, <2>2
  <2>3. CASE u = uuid[o]
    <3>1. o \in Own(u)
      BY <2>3 DEF Own
    <3>2. Own(u) = {o} /\ boot[u] = <<>>
      BY <1>5, <3>1, SoleOwner DEF NotMoving
    <3>3. \A p \in Obj : uuid[p] = u /\ p \in Listed => p = o
      BY <3>2 DEF Own
    <3>4. dbTasks[u] = <<status[o]>>
      BY <1>1, <2>1, <2>3
    <3>5. dbTasks'[u] = <<s>>
      <4>1. SetFirst(<<status[o]>>, s) = <<s>>
        BY DEF SetFirst
      <4> QED BY <1>2, <2>3, <3>4, <4>1
    <3> QED BY <1>1, <1>3, <2>1, <3>2, <3>3, <3>5
  <2> QED BY <2>2, <2>3
<1>6. RowStatusOK'
  BY <1>5 DEF RowStatusOK, NotMoving
<1> QED BY <1>4, <1>6

-----------------------------------------------------------------------------
(* The actions.                                                            *)

\* A worker touches neither lists nor rows.
LEMMA WorkerPersist ==
    ASSUME TypeOK, PersistInv, NEW o \in Obj, Worker(o)
    PROVE  PersistInv'
<1>1. UNCHANGED <<uuid, status, tasks, api, boot, dbTasks, dup>>
  BY WorkerFrame
<1>2. Listed' = Listed
  BY <1>1 DEF Listed
<1>3. RowsOK'
  BY <1>1, <1>2, RowsSame DEF PersistInv
<1>4. RowStatusOK'
  BY <1>1, <1>2, RowStatusSame DEF PersistInv
<1>5. KickedListed'
  BY <1>1, <1>2 DEF PersistInv, KickedListed
<1> QED BY <1>3, <1>4, <1>5 DEF PersistInv

\* A task that was created is rejected, or it arrives.
LEMMA ValidatePersist ==
    ASSUME TypeOK, ListsByRoute, HandlerOK, PersistInv, Validate
    PROVE  PersistInv'
<1>1. PICK o \in Obj : o = api.obj
  BY HandlerObject DEF Validate
<1>2. /\ api.op = "validate" /\ o \notin Listed /\ uuid[o] \in Uuid
      /\ UNCHANGED <<uuid, status, boot, dbTasks, dup>>
  BY <1>1 DEF Validate, HandlerOK, TypeOK, dbVars
<1>3. RouteOf[uuid[o]] \in Route
  BY <1>2, RouteAssumption
<1>4. /\ api'.op \in {"kick", "idle", "boot"}
      /\ \/ Listed' = Listed /\ api'.op # "kick"
         \/ Listed' = Listed \cup {o} /\ (api'.op = "kick" => api'.obj = o)
  <2>1. CASE tasks' = tasks /\ api' = Return
    BY <2>1, ReturnType DEF Listed
  <2>2. CASE /\ tasks' = [tasks EXCEPT ![RouteOf[uuid[api.obj]]] =
                            Append(@, api.obj)]
             /\ api' = IF api.now THEN Kick(api.obj) ELSE Return
    <3>1. Listed' = Listed \cup {o}
      BY <1>1, <1>2, <1>3, <2>2, AddTaskLists
    <3> QED BY <1>1, <2>2, <3>1, ReturnType DEF Kick
  <2> QED BY <2>1, <2>2 DEF Validate
<1>5. ASSUME NEW u \in Uuid
      PROVE  Cardinality(Own(u)') + Arriving(u)' + Len(boot'[u])
               <= Len(dbTasks'[u]) + Leaving(u)'
  <2>1. /\ Arriving(u)' = 0 /\ Leaving(u)' = 0 /\ Leaving(u) = 0
        /\ Arriving(u) = IF uuid[o] = u THEN 1 ELSE 0
    BY <1>1, <1>2, <1>4 DEF Arriving, Leaving
  <2>2. CASE Listed' = Listed
    <3>1. Own(u)' = Own(u)
      BY <1>2, <2>2, OwnFrame
    <3> QED BY <1>2, <2>1, <3>1, RowNumbers DEF PersistInv, RowsOK
  <2>3. CASE Listed' = Listed \cup {o}
    <3>1. Cardinality(Own(u)') =
            Cardinality(Own(u)) + (IF uuid'[o] = u THEN 1 ELSE 0)
      BY <1>2, <2>3, OwnAdd
    <3> QED BY <1>2, <2>1, <3>1, RowNumbers DEF PersistInv, RowsOK
  <2> QED BY <1>4, <2>2, <2>3
<1>6. RowStatusOK'
  BY <1>1, <1>2, <1>4 DEF PersistInv, RowStatusOK
<1> QED BY <1>4, <1>5, <1>6 DEF PersistInv, RowsOK, KickedListed

\* The row is gone already; now the task leaves the lists.
LEMMA DeleteLogsPersist ==
    ASSUME TypeOK, ListsByRoute, HandlerOK, PersistInv, DeleteLogs
    PROVE  PersistInv'
<1>1. PICK o \in Obj : o = api.obj
  BY HandlerObject DEF DeleteLogs
<1>2. PICK r \in Route : r = RouteOf[uuid[o]]
  BY <1>1, RouteAssumption DEF TypeOK
<1>3. /\ api.op = "dellog" /\ tasks[r] # <<>> /\ get_task(r) = o
      /\ tasks' = [tasks EXCEPT ![r] = Tail(@)]
      /\ UNCHANGED <<uuid, status, boot, dbTasks, dup>>
      /\ api'.op \in {"idle", "boot"}
  BY <1>1, <1>2, ReturnType DEF DeleteLogs, HandlerOK
<1>4. o \in Listed /\ Listed' \subseteq Listed \ {o}
  BY <1>3, DropTaskLists, GetTaskListed
<1>5. ASSUME NEW u \in Uuid
      PROVE  Cardinality(Own(u)') + Arriving(u)' + Len(boot'[u])
               <= Len(dbTasks'[u]) + Leaving(u)'
  <2>1. /\ Arriving(u)' = 0 /\ Leaving(u)' = 0 /\ Arriving(u) = 0
        /\ Leaving(u) = IF uuid[o] = u THEN 1 ELSE 0
    BY <1>1, <1>3 DEF Arriving, Leaving
  <2>2. /\ Cardinality(Own(u)') \in Nat
        /\ Cardinality(Own(u)') <=
             Cardinality(Own(u)) - (IF uuid[o] = u THEN 1 ELSE 0)
    BY <1>3, <1>4, OwnDrop
  <2> QED BY <1>3, <2>1, <2>2, RowNumbers DEF PersistInv, RowsOK
<1>6. RowStatusOK'
  BY <1>1, <1>3, <1>4 DEF PersistInv, RowStatusOK
<1> QED BY <1>3, <1>5, <1>6 DEF PersistInv, RowsOK, KickedListed

\* init_tasks turns a row into a listed task.
LEMMA BootPersist ==
    ASSUME TypeOK, ListsByRoute, PersistInv, NEW o \in Obj, NEW v \in Uuid,
           BootTask(o, v)
    PROVE  PersistInv'
<1>1. /\ api.op = "boot" /\ boot[v] # <<>> /\ boot[v] \in Seq(Status)
      /\ Head(boot[v]) \in Status /\ NewTask(o, v, Head(boot[v]))
      /\ RouteOf[v] \in Route
      /\ tasks' = [tasks EXCEPT ![RouteOf[v]] = Append(@, o)]
      /\ boot' = [boot EXCEPT ![v] = Tail(@)]
      /\ dbTasks' = dbTasks /\ dup' = dup
  <2>1. boot[v] \in Seq(Status) /\ RouteOf[v] \in Route
    BY RouteAssumption DEF TypeOK
  <2>2. boot[v] # <<>>
    BY DEF BootTask
  <2>3. Head(boot[v]) \in Status
    BY <2>1, <2>2
  <2> QED BY <2>1, <2>2, <2>3 DEF BootTask, dbVars
<1>2. api'.op \in {"idle", "boot"} \/ api' = Kick(o)
  <2>1. Return'.op \in {"idle", "boot"}
    BY DEF Return, Idle
  <2> QED BY <2>1 DEF BootTask
<1>3. /\ o \notin Listed /\ uuid'[o] = v /\ status'[o] = Head(boot[v])
      /\ \A p \in Listed : p # o /\ uuid'[p] = uuid[p] /\ status'[p] = status[p]
  BY <1>1, NewTaskFrame, NewTaskListed
<1>4. Listed' = Listed \cup {o}
  BY <1>1, <1>3, AddTaskLists
<1>5. /\ boot'[v] = Tail(boot[v]) /\ Len(boot'[v]) = Len(boot[v]) - 1
      /\ \A u \in Uuid \ {v} : boot'[u] = boot[u]
  BY <1>1 DEF TypeOK
<1>6. ASSUME NEW u \in Uuid
      PROVE  Cardinality(Own(u)') + Arriving(u)' + Len(boot'[u])
               <= Len(dbTasks'[u]) + Leaving(u)'
  <2>1. /\ Arriving(u)' = 0 /\ Leaving(u)' = 0
        /\ Arriving(u) = 0 /\ Leaving(u) = 0
    BY <1>1, <1>2 DEF Arriving, Leaving, Kick
  <2>2. Cardinality(Own(u)') =
          Cardinality(Own(u)) + (IF uuid'[o] = u THEN 1 ELSE 0)
    BY <1>3, <1>4, OwnAdd
  <2> QED BY <1>1, <1>3, <1>5, <2>1, <2>2, RowNumbers DEF PersistInv, RowsOK
<1>7. ASSUME NEW u \in Uuid, ~dup'[u]
      PROVE  /\ Len(dbTasks'[u]) <= 1
             /\ boot'[u] # <<>> => boot'[u] = dbTasks'[u]
             /\ \A p \in Obj : uuid'[p] = u /\ p \in Listed' =>
                                 dbTasks'[u] = <<status'[p]>>
  <2>1. /\ Len(dbTasks[u]) <= 1
        /\ boot[u] # <<>> => boot[u] = dbTasks[u]
        /\ \A p \in Listed : uuid[p] = u => dbTasks[u] = <<status[p]>>
    BY <1>1, <1>7, ListedObjects DEF PersistInv, RowStatusOK
  <2>2. \A p \in Listed : uuid'[p] = u => dbTasks'[u] = <<status'[p]>>
    BY <1>1, <1>3, <2>1
  <2>3. CASE u # v
    BY <1>1, <1>3, <1>4, <1>5, <2>1, <2>2, <2>3
  <2>4. CASE u = v
    <3>1. boot[v] = dbTasks[v] /\ Len(boot[v]) <= 1
      BY <1>1, <2>1, <2>4
    <3>2. boot[v] = <<Head(boot[v])>> /\ Tail(boot[v]) = <<>>
      BY <1>1, <3>1
    <3> QED BY <1>1, <1>3, <1>4, <1>5, <2>1, <2>2, <2>4, <3>1, <3>2
  <2> QED BY <2>3, <2>4
<1>8. RowStatusOK'
  BY <1>2, <1>7 DEF RowStatusOK, Kick
<1> QED BY <1>2, <1>4, <1>6, <1>8 DEF PersistInv, RowsOK, KickedListed, Kick

LEMMA HandlerPersist ==
    ASSUME TypeOK, ListsByRoute, HandlerOK, PersistInv, Handler
    PROVE  PersistInv'
<1> USE DEF taskVars, dbVars, PersistInv
<1>1. CASE Validate
  BY <1>1, ValidatePersist
<1>2. CASE KickoffRefused
  <2>1. /\ UNCHANGED <<uuid, status, tasks, boot, dbTasks, dup>>
        /\ Listed' = Listed
    BY <1>2 DEF KickoffRefused, Listed
  <2>2. NotMoving /\ api'.op \in {"idle", "boot"}
    BY <1>2, ReturnType DEF KickoffRefused, NotMoving
  <2> QED BY <2>1, <2>2, RowsSame, RowStatusSame DEF KickedListed
<1>3. CASE KickoffLaunch
  <2>1. /\ UNCHANGED <<uuid, status, tasks, boot, dbTasks, dup>>
        /\ Listed' = Listed
    BY <1>3 DEF KickoffLaunch, Listed
  <2>2. NotMoving /\ api.op = "kick" /\ api'.obj = api.obj
    BY <1>3 DEF KickoffLaunch, NotMoving
  <2> QED BY <2>1, <2>2, RowsSame, RowStatusSame DEF KickedListed
<1>4. CASE KickoffDone
  <2>1. PICK o \in Listed : o = api.obj
    BY <1>4 DEF KickoffDone, KickedListed
  <2>2. /\ UNCHANGED <<uuid, boot, dup>> /\ Listed' = Listed
        /\ status' = [status EXCEPT ![o] = "started"]
        /\ update_task_status(uuid[o], "started")
    BY <1>4, <2>1 DEF KickoffDone, Listed
  <2>3. NotMoving /\ api'.op \in {"idle", "boot"}
    BY <1>4, ReturnType DEF KickoffDone, NotMoving
  <2>4. "started" \in Status
    BY DEF Status
  <2> QED BY <2>2, <2>3, <2>4, SetStatus DEF KickedListed
<1>5. CASE DeleteLogs
  BY <1>5, DeleteLogsPersist
<1>6. ASSUME NEW o \in Obj, NEW u \in Uuid, BootTask(o, u)
      PROVE  PersistInv'
  BY <1>6, BootPersist
<1> QED BY <1>1, <1>2, <1>3, <1>4, <1>5, <1>6 DEF Handler

\* create_task inserts the row before the task can be listed.
LEMMA CreatePersist ==
    ASSUME TypeOK, PersistInv, NEW o \in Obj, NEW v \in Uuid,
           NEW now \in BOOLEAN, CreateTask(o, v, now)
    PROVE  PersistInv'
<1>1. /\ api.op = "idle" /\ NewTask(o, v, "pause") /\ "pause" \in Status
      /\ UNCHANGED <<tasks, boot>> /\ Listed' = Listed
      /\ api'.op = "validate" /\ api'.obj = o
  BY DEF CreateTask, Status, Listed
<1>2. /\ uuid'[o] = v /\ status'[o] = "pause"
      /\ \A p \in Listed : p # o /\ uuid'[p] = uuid[p] /\ status'[p] = status[p]
      /\ \A p \in Obj \ {o} : uuid'[p] = uuid[p]
  BY <1>1, NewTaskFrame, NewTaskListed
<1>3. /\ dbTasks[v] \in Seq(Status)
      /\ dbTasks'[v] = Append(dbTasks[v], "pause")
      /\ Len(dbTasks'[v]) = Len(dbTasks[v]) + 1
      /\ \A u \in Uuid \ {v} : dbTasks'[u] = dbTasks[u]
      /\ dup'[v] <=> dup[v] \/ dbTasks[v] # <<>>
      /\ \A u \in Uuid \ {v} : dup'[u] = dup[u]
  <2>1. dbTasks[v] \in Seq(Status)
    BY DEF TypeOK
  <2>2. dbTasks'[v] = Append(dbTasks[v], "pause")
    BY DEF CreateTask, TypeOK
  <2>3. Len(dbTasks'[v]) = Len(dbTasks[v]) + 1
    BY <1>1, <2>1, <2>2
  <2> QED BY <2>1, <2>2, <2>3 DEF CreateTask, TypeOK
<1>4. ASSUME NEW u \in Uuid
      PROVE  Cardinality(Own(u)') + Arriving(u)' + Len(boot'[u])
               <= Len(dbTasks'[u]) + Leaving(u)'
  <2>1. Own(u)' = Own(u)
    BY <1>1, <1>2, OwnFrame
  <2>2. /\ Arriving(u)' = (IF u = v THEN 1 ELSE 0) /\ Leaving(u)' = 0
        /\ Arriving(u) = 0 /\ Leaving(u) = 0
    BY <1>1, <1>2 DEF Arriving, Leaving
  <2> QED BY <1>1, <1>3, <2>1, <2>2, RowNumbers DEF PersistInv, RowsOK
<1>5. ASSUME NEW u \in Uuid, ~dup'[u]
      PROVE  /\ Len(dbTasks'[u]) <= 1
             /\ boot'[u] # <<>> => boot'[u] = dbTasks'[u]
             /\ \A p \in Obj : uuid'[p] = u /\ (p \in Listed' \/ p = o) =>
                                 dbTasks'[u] = <<status'[p]>>
  <2>1. ~dup[u] /\ (u = v => dbTasks[v] = <<>>)
    BY <1>3, <1>5
  <2>2. /\ Len(dbTasks[u]) <= 1
        /\ boot[u] # <<>> => boot[u] = dbTasks[u]
        /\ \A p \in Listed : uuid[p] = u => dbTasks[u] = <<status[p]>>
    BY <1>1, <2>1, ListedObjects DEF PersistInv, RowStatusOK
  <2>3. CASE u # v
    BY <1>1, <1>2, <1>3, <2>2, <2>3
  <2>4. CASE u = v
    <3>0. dbTasks[v] = <<>>
      BY <2>1, <2>4
    <3>1. dbTasks'[v] = <<"pause">> /\ Len(dbTasks'[v]) = 1
      <4>1. Append(<<>>, "pause") = <<"pause">>
        OBVIOUS
      <4> QED BY <1>3, <3>0, <4>1
    <3>2. \A p \in Listed : uuid[p] # v
      <4>1. \A p \in Listed : <<status[p]>> # <<>>
        OBVIOUS
      <4> QED BY <2>2, <2>4, <3>0, <4>1
    <3> QED BY <1>1, <1>2, <2>1, <2>2, <2>4, <3>1, <3>2
  <2> QED BY <2>3, <2>4
<1>6. RowStatusOK'
  BY <1>1, <1>5 DEF RowStatusOK
<1> QED BY <1>1, <1>4, <1>6 DEF PersistInv, RowsOK, KickedListed

\* delete removes a row before its task leaves the lists.
LEMMA DeletePersist ==
    ASSUME TypeOK, ListsByRoute, PersistInv, NEW r \in Route, DeleteTask(r)
    PROVE  PersistInv'
<1>1. PICK o \in Listed : o = get_task(r)
  BY GetTaskListed DEF DeleteTask
<1>2. PICK v \in Uuid : v = uuid[o]
  BY ListedObjects DEF TypeOK
<1>3. /\ api.op = "idle" /\ UNCHANGED <<uuid, tasks, boot, dup>>
      /\ Listed' = Listed /\ api'.op = "dellog" /\ api'.obj = o
  BY <1>1 DEF DeleteTask, Listed
<1>4. \A p \in Obj \ {o} : status'[p] = status[p]
  BY <1>1 DEF DeleteTask, TypeOK
<1>5. /\ dbTasks'[v] = DropFirst(dbTasks[v])
      /\ \A u \in Uuid \ {v} : dbTasks'[u] = dbTasks[u]
  BY <1>1, <1>2 DEF DeleteTask, TypeOK
<1>6. /\ dbTasks'[v] \in Seq(Status)
      /\ Len(dbTasks'[v]) \in Nat /\ Len(dbTasks'[v]) + 1 >= Len(dbTasks[v])
  <2>1. /\ dbTasks[v] \in Seq(Status) /\ Len(dbTasks[v]) \in Nat
        /\ dbTasks'[v] \in Seq(Status)
    BY <1>5, DropFirstType DEF TypeOK
  <2>2. CASE dbTasks[v] = <<>>
    <3>1. dbTasks'[v] = dbTasks[v]
      BY <1>5, <2>2 DEF DropFirst
    <3> QED BY <2>1, <3>1
  <2>3. CASE dbTasks[v] # <<>>
    <3>1. Len(dbTasks'[v]) = Len(dbTasks[v]) - 1
      BY <1>5, <2>1, <2>3, DropFirstType
    <3> QED BY <2>1, <3>1
  <2> QED BY <2>2, <2>3
<1>7. ASSUME NEW u \in Uuid
      PROVE  Cardinality(Own(u)') + Arriving(u)' + Len(boot'[u])
               <= Len(dbTasks'[u]) + Leaving(u)'
  <2>1. Own(u)' = Own(u)
    BY <1>3, OwnFrame
  <2>2. /\ Leaving(u)' = (IF u = v THEN 1 ELSE 0) /\ Arriving(u)' = 0
        /\ Arriving(u) = 0 /\ Leaving(u) = 0
    BY <1>2, <1>3 DEF Arriving, Leaving
  <2>3. Cardinality(Own(u)) + Len(boot[u]) <= Len(dbTasks[u])
    BY <2>2, RowNumbers DEF PersistInv, RowsOK
  <2>4. CASE u = v
    BY <1>3, <1>6, <2>1, <2>2, <2>3, <2>4, RowNumbers
  <2>5. CASE u # v
    BY <1>3, <1>5, <2>1, <2>2, <2>3, <2>5, RowNumbers
  <2> QED BY <2>4, <2>5
<1>8. ASSUME NEW u \in Uuid, ~dup'[u]
      PROVE  /\ Len(dbTasks'[u]) <= 1
             /\ boot'[u] # <<>> => boot'[u] = dbTasks'[u]
             /\ \A p \in Obj : uuid'[p] = u /\ p \in Listed' =>
                                 dbTasks'[u] = <<status'[p]>> \/ p = o
  <2>1. /\ Len(dbTasks[u]) <= 1
        /\ boot[u] # <<>> => boot[u] = dbTasks[u]
        /\ \A p \in Listed : uuid[p] = u => dbTasks[u] = <<status[p]>>
    BY <1>3, <1>8, ListedObjects DEF PersistInv, RowStatusOK
  <2>2. CASE u # v
    BY <1>2, <1>3, <1>4, <1>5, <2>1, <2>2
  <2>3. CASE u = v
    <3>1. o \in Own(v)
      BY <1>2 DEF Own
    <3>2. Own(v) = {o} /\ boot[v] = <<>>
      BY <1>3, <1>8, <2>3, <3>1, SoleOwner DEF PersistInv
    <3>3. \A p \in Listed : uuid[p] = v => p = o
      BY <3>2 DEF Own
    <3>4. dbTasks[v] = <<status[o]>> /\ dbTasks[v] \in Seq(Status)
      BY <1>2, <2>1, <2>3 DEF TypeOK
    <3>5. Len(dbTasks'[v]) <= 1
      <4>1. Len(dbTasks[v]) = 1 /\ dbTasks[v] # <<>>
        BY <3>4
      <4>2. Len(DropFirst(dbTasks[v])) = Len(dbTasks[v]) - 1
        BY <3>4, <4>1, DropFirstType
      <4> QED BY <1>5, <4>1, <4>2
    <3> QED BY <1>3, <2>3, <3>2, <3>3, <3>5
  <2> QED BY <2>2, <2>3
<1>9. RowStatusOK'
  BY <1>3, <1>8 DEF RowStatusOK
<1> QED BY <1>3, <1>7, <1>9 DEF PersistInv, RowsOK, KickedListed

LEMMA RequestPersist ==
    ASSUME TypeOK, ListsByRoute, PersistInv, Request
    PROVE  PersistInv'
<1> USE DEF taskVars, dbVars, PersistInv
<1>1. ASSUME NEW o \in Obj, NEW u \in Uuid, NEW now \in BOOLEAN,
             CreateTask(o, u, now)
      PROVE  PersistInv'
  BY <1>1, CreatePersist
<1>2. ASSUME NEW r \in Route, StartTask(r)
      PROVE  PersistInv'
  <2>1. /\ UNCHANGED <<uuid, status, tasks, boot, dbTasks, dup>>
        /\ Listed' = Listed
    BY <1>2 DEF StartTask, Listed
  <2>2. NotMoving /\ api'.obj \in Listed
    <3>1. get_task(r) \in Listed
      BY <1>2, GetTaskListed DEF StartTask
    <3>2. api.op = "idle" /\ api' = Kick(get_task(r))
      BY <1>2 DEF StartTask
    <3> QED BY <3>1, <3>2 DEF Kick, NotMoving
  <2> QED BY <2>1, <2>2, RowsSame, RowStatusSame DEF KickedListed
<1>3. ASSUME NEW r \in Route, ResumeTask(r)
      PROVE  PersistInv'
  <2>1. PICK o \in Listed : o = get_task(r)
    BY <1>3, GetTaskListed DEF ResumeTask
  <2>2. /\ UNCHANGED <<uuid, boot, dup>> /\ Listed' = Listed
        /\ status' = [status EXCEPT ![o] = "started"]
        /\ update_task_status(uuid[o], "started")
    BY <1>3, <2>1 DEF ResumeTask, Listed
  <2>3. NotMoving /\ api' = api
    BY <1>3 DEF ResumeTask, NotMoving
  <2>4. "started" \in Status
    BY DEF Status
  <2> QED BY <2>2, <2>3, <2>4, SetStatus DEF KickedListed
<1>4. ASSUME NEW r \in Route, PauseTask(r)
      PROVE  PersistInv'
  <2>1. PICK o \in Listed : o = get_task(r)
    BY <1>4, GetTaskListed DEF PauseTask
  <2>2. /\ UNCHANGED <<uuid, boot, dup>> /\ Listed' = Listed
        /\ status' = [status EXCEPT ![o] = "pause"]
        /\ update_task_status(uuid[o], "pause")
    BY <1>4, <2>1 DEF PauseTask, Listed
  <2>3. NotMoving /\ api' = api
    BY <1>4 DEF PauseTask, NotMoving
  <2>4. "pause" \in Status
    BY DEF Status
  <2> QED BY <2>2, <2>3, <2>4, SetStatus DEF KickedListed
<1>5. ASSUME NEW r \in Route, DeleteTask(r)
      PROVE  PersistInv'
  BY <1>5, DeletePersist
<1>6. ASSUME NEW r \in Route, Refuse(r)
      PROVE  PersistInv'
  <2>1. UNCHANGED <<uuid, status, tasks, api, boot, dbTasks, dup>>
    BY <1>6 DEF Refuse, vars
  <2>2. Listed' = Listed
    BY <2>1 DEF Listed
  <2> QED BY <2>1, <2>2, RowsSame, RowStatusSame DEF KickedListed
<1> QED BY <1>1, <1>2, <1>3, <1>4, <1>5, <1>6 DEF Request

\* With nothing listed, every row can still be to load.
LEMMA NothingListed ==
    ASSUME TypeOK', \A r \in Route : tasks'[r] = <<>>,
           api'.op \in {"idle", "boot"},
           \A u \in Uuid : /\ boot'[u] = dbTasks'[u]
                           /\ ~dup'[u] => Len(dbTasks'[u]) <= 1
    PROVE  PersistInv'
<1>1. Listed' = {}
  BY DEF Listed
<1>2. ASSUME NEW u \in Uuid
      PROVE  Cardinality(Own(u)') + Arriving(u)' + Len(boot'[u])
               <= Len(dbTasks'[u]) + Leaving(u)'
  <2>1. Own(u)' = {}
    BY <1>1 DEF Own
  <2>2. Cardinality(Own(u)') = 0
    BY <2>1, FS_EmptySet
  <2>3. Arriving(u)' = 0 /\ Leaving(u)' = 0
    BY DEF Arriving, Leaving
  <2>4. Len(dbTasks'[u]) \in Nat
    BY DEF TypeOK
  <2> QED BY <2>2, <2>3, <2>4
<1>3. RowStatusOK'
  BY <1>1 DEF RowStatusOK
<1> QED BY <1>2, <1>3 DEF PersistInv, RowsOK, KickedListed

-----------------------------------------------------------------------------
(* The inductive invariant and the theorems.                               *)

LEMMA InitPersist == Init => PersistInv
<1> SUFFICES ASSUME Init PROVE PersistInv
  OBVIOUS
<1>1. Listed = {} /\ api.op = "idle"
  BY DEF Init, Idle, Listed
<1>2. ASSUME NEW u \in Uuid
      PROVE  Cardinality(Own(u)) + Arriving(u) + Len(boot[u])
               <= Len(dbTasks[u]) + Leaving(u)
  <2>1. Own(u) = {}
    BY <1>1 DEF Own
  <2>2. Cardinality(Own(u)) = 0
    BY <2>1, FS_EmptySet
  <2>3. Arriving(u) = 0 /\ Leaving(u) = 0
    BY <1>1 DEF Arriving, Leaving
  <2>4. boot[u] = <<>> /\ dbTasks[u] = <<>>
    BY DEF Init
  <2> QED BY <2>2, <2>3, <2>4
<1>3. RowStatusOK
  BY <1>1 DEF Init, RowStatusOK
<1> QED BY <1>1, <1>2, <1>3 DEF PersistInv, RowsOK, KickedListed

LEMMA NextPersist == IndInv /\ PersistInv /\ [Next]_vars => PersistInv'
<1> SUFFICES ASSUME IndInv, PersistInv, [Next]_vars PROVE PersistInv'
  OBVIOUS
<1> USE DEF IndInv
<1>1. ASSUME NEW o \in Obj, Worker(o) PROVE PersistInv'
  BY <1>1, WorkerPersist
<1>2. CASE Handler
  BY <1>2, HandlerPersist
<1>3. CASE Request
  BY <1>3, RequestPersist
<1>4. CASE Crash
  <2>1. TypeOK'
    BY <1>4, CrashType
  <2>2. /\ \A r \in Route : tasks'[r] = <<>>
        /\ api'.op \in {"idle", "boot"}
        /\ boot' = dbTasks /\ dbTasks' = dbTasks /\ dup' = dup
    BY <1>4 DEF Crash, Idle, dbVars
  <2>3. \A u \in Uuid : ~dup[u] => Len(dbTasks[u]) <= 1
    BY DEF PersistInv, RowStatusOK
  <2> QED BY <2>1, <2>2, <2>3, NothingListed
<1>5. CASE UNCHANGED vars
  <2>1. UNCHANGED <<uuid, status, tasks, api, boot, dbTasks, dup>>
    BY <1>5 DEF vars
  <2>2. Listed' = Listed
    BY <2>1 DEF Listed
  <2> QED BY <2>1, <2>2, RowsSame, RowStatusSame DEF PersistInv, KickedListed
<1> QED BY <1>1, <1>2, <1>3, <1>4, <1>5 DEF Next

\* The strengthening for persistence holds in every reachable state.
THEOREM PersistInductive == Spec => []PersistInv
<1>1. Init => IndInv /\ PersistInv
  BY InitIndInv, InitPersist
<1>2. IndInv /\ PersistInv /\ [Next]_vars => (IndInv /\ PersistInv)'
  BY NextIndInv, NextPersist
<1> QED BY <1>1, <1>2, PTL DEF Spec

\* Every task the service lists between two requests has a row of its own,
\* so a restart finds it again.
THEOREM TasksPersist == Spec => []EveryTaskPersisted
<1>1. IndInv /\ PersistInv => EveryTaskPersisted
  <2> SUFFICES ASSUME IndInv, PersistInv, api.op = "idle", NEW u \in Uuid
               PROVE  Cardinality(Own(u)) <= Len(dbTasks[u])
    BY DEF EveryTaskPersisted
  <2>1. Leaving(u) = 0
    BY DEF Leaving
  <2> QED BY <2>1, RowNumbers DEF IndInv, PersistInv, RowsOK
<1> QED BY <1>1, Inductive, PersistInductive, PTL

\* Between two requests the one row of a task whose uuid was posted once has
\* the status the task has in memory.
THEOREM StatusPersists == Spec => []StatusPersisted
<1>1. IndInv /\ PersistInv => StatusPersisted
  <2> SUFFICES ASSUME IndInv, PersistInv, api.op = "idle", NEW o \in Listed,
                      ~dup[uuid[o]]
               PROVE  dbTasks[uuid[o]] = <<status[o]>>
    BY DEF StatusPersisted
  <2>1. o \in Obj /\ uuid[o] \in Uuid
    BY ListedObjects DEF IndInv, TypeOK
  <2> QED BY <2>1 DEF PersistInv, RowStatusOK
<1> QED BY <1>1, Inductive, PersistInductive, PTL

=============================================================================
