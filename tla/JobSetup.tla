------------------------------- MODULE JobSetup -------------------------------
(***************************************************************************)
(* How a task of docker_registry_replication comes to be started: JobConfig *)
(* (sync_job.py) with the requests of the registry client (apphouse_sdk.py) *)
(* it makes, for testlink, for a new task, and for the start of a task.    *)
(*                                                                         *)
(* The services of several data centres, each with a source registry of    *)
(* its own, replicate one namespace to one target registry, whose users    *)
(* may change it as well.  A service serves one request at a time.         *)
(***************************************************************************)
EXTENDS Naturals

CONSTANTS
    Service,   \* replication services
    Content,   \* contents of a namespace: its description and its rights
    NoSpace,   \* content of a namespace that does not exist, or was not got
    MaxFault,  \* bound: requests that are refused or whose answer is lost
    MaxEdit    \* bound: changes by the users of the registries

ASSUME BoundAssumption == MaxFault \in Nat /\ MaxEdit \in Nat

VARIABLES
    source,    \* the namespace in the source registry of each service
    target,    \* the namespace in the target registry
    addNamed,  \* the target registry has a namespace called "add"
    pc,        \* the next request of each JobConfig
    goal,      \* what it is made for
    task,      \* the task of each service
    nsContent, \* ns_content: what was got of the source namespace
    had,       \* history: what source and target have had meanwhile
    faults, edits

spaceVars == <<source, target, addNamed>>
vars == <<spaceVars, pc, goal, task, nsContent, had, faults, edits>>

Space == Content \cup {NoSpace}

\* The requests of JobConfig.__init__, in order; "copy" and "add" are made
\* only when the target does not have the namespace.
After == [loginSource |-> "getSource", getSource |-> "loginDest",
          loginDest |-> "getDest", getDest |-> "docker",
          copy |-> "add", add |-> "docker", docker |-> "done"]

\* What the registries have had since the configuration of a service was
\* begun.
Nothing == [source |-> {}, target |-> FALSE]
Observe ==
    had' = [v \in Service |->
              LET before == IF pc'[v] = "loginSource" /\ pc[v] # "loginSource"
                            THEN Nothing ELSE had[v] IN
                IF pc'[v] = "idle" THEN Nothing
                ELSE [source |-> before.source \cup ({source'[v]} \ {NoSpace}),
                      target |-> before.target \/ target' # NoSpace]]

-----------------------------------------------------------------------------
(* Users.                                                                  *)

Edit ==
    /\ edits < MaxEdit
    /\ edits' = edits + 1
    /\ \/ \E v \in Service : \E c \in Space \ {source[v]} :
            source' = [source EXCEPT ![v] = c] /\ target' = target
       \/ \E c \in Space \ {target} : target' = c /\ source' = source
    /\ UNCHANGED <<addNamed, pc, goal, task, nsContent, faults>>

\* test_link, create_task and task_action: the last only finds a task that
\* was created, and one that is not running is kicked off.
Ask(v, g) ==
    /\ pc[v] = "idle"
    /\ g \in {"create", "createStart"} => task[v] = "none"
    /\ g = "start" => task[v] = "pause"
    /\ goal' = [goal EXCEPT ![v] = g]
    /\ pc' = [pc EXCEPT ![v] = "loginSource"]
    /\ UNCHANGED <<spaceVars, task, nsContent, faults, edits>>

-----------------------------------------------------------------------------
(* JobConfig.                                                              *)

Goto(v, label) == pc' = [pc EXCEPT ![v] = label] /\ goal' = goal
Goes(v) == Goto(v, After[pc[v]])

\* Not valid: the caller answers with an error, and that is all.
Refused(v) ==
    /\ pc' = [pc EXCEPT ![v] = "idle"]
    /\ goal' = [goal EXCEPT ![v] = "none"]

\* make_request makes None of an error, of an answer that is no JSON and of
\* 10 seconds without one.
Fails == faults < MaxFault /\ faults' = faults + 1
Works == faults' = faults

\* A request whose result only matters, and the calls of the docker client,
\* which raise: answered, or not.
Login(v) ==
    /\ pc[v] \in {"loginSource", "loginDest", "docker"}
    /\ \/ Goes(v) /\ Works
       \/ Refused(v) /\ Fails
    /\ UNCHANGED <<spaceVars, task, nsContent, edits>>

GetSource(v) ==
    /\ pc[v] = "getSource"
    /\ \/ source[v] # NoSpace /\ Goes(v) /\ Works
       \/ source[v] = NoSpace /\ Refused(v) /\ Works
       \/ Refused(v) /\ Fails
    /\ UNCHANGED <<spaceVars, task, nsContent, edits>>

\* Faulty: the namespace is made whether the target has it or not.
GetDest_Blind(v) ==
    /\ pc[v] = "getDest"
    /\ Goto(v, "copy") /\ Works
    /\ UNCHANGED <<spaceVars, task, nsContent, edits>>

\* A target that does not answer is taken for one without the namespace.
GetDest(v) ==
    /\ pc[v] = "getDest"
    /\ \/ target # NoSpace /\ Goes(v) /\ Works
       \/ target = NoSpace /\ Goto(v, "copy") /\ Works
       \/ Goto(v, "copy") /\ Fails
    /\ UNCHANGED <<spaceVars, task, nsContent, edits>>

\* get_namespace once more, for its content; that it fails is not looked at.
CopyGet(v) ==
    /\ pc[v] = "copy"
    /\ Goes(v)
    /\ \/ nsContent' = [nsContent EXCEPT ![v] = source[v]] /\ Works
       \/ nsContent' = [nsContent EXCEPT ![v] = NoSpace] /\ Fails
    /\ UNCHANGED <<spaceVars, task, edits>>

\* A POST to /namespace/add: the target refuses a namespace it has.
PostNamespace(v) ==
    \/ target = NoSpace /\ target' = nsContent[v] /\ Goes(v) /\ Works
    \/ target = NoSpace /\ target' = nsContent[v] /\ Refused(v) /\ Fails
    \/ target # NoSpace /\ target' = target /\ Refused(v) /\ Works
    \/ target' = target /\ Refused(v) /\ Fails

\* Without data the request is a GET, which asks for the namespace "add".
GetAdd(v) ==
    /\ \/ addNamed /\ Goes(v) /\ Works
       \/ ~addNamed /\ Refused(v) /\ Works
       \/ Refused(v) /\ Fails
    /\ target' = target

\* Faulty: without data some content is posted all the same.
CreateNamespace_Any(v) ==
    /\ pc[v] = "add"
    /\ IF nsContent[v] = NoSpace
       THEN /\ target = NoSpace /\ target' \in Content
            /\ Goes(v) /\ Works
       ELSE PostNamespace(v)
    /\ nsContent' = [nsContent EXCEPT ![v] = NoSpace]
    /\ UNCHANGED <<source, addNamed, task, edits>>

\* Faulty: whether it was created is not looked at.
CreateNamespace_Unchecked(v) ==
    /\ pc[v] = "add"
    /\ \/ target' = (IF target = NoSpace THEN nsContent[v] ELSE target) /\ Works
       \/ target' = target /\ Fails
    /\ Goes(v)
    /\ nsContent' = [nsContent EXCEPT ![v] = NoSpace]
    /\ UNCHANGED <<source, addNamed, task, edits>>

CreateNamespace(v) ==
    /\ pc[v] = "add"
    /\ IF nsContent[v] = NoSpace THEN GetAdd(v) ELSE PostNamespace(v)
    /\ nsContent' = [nsContent EXCEPT ![v] = NoSpace]
    /\ UNCHANGED <<source, addNamed, task, edits>>

-----------------------------------------------------------------------------
(* The callers.                                                            *)

\* The configuration is valid: testlink says so; a created task joins the
\* taskset and may be kicked off, for which everything is asked again; a
\* kickoff starts the worker.
Valid(v) ==
    /\ pc[v] = "done"
    /\ task' = [task EXCEPT ![v] = CASE goal[v] = "test" -> @
                                     [] goal[v] = "start" -> "started"
                                     [] OTHER -> "pause"]
    /\ IF goal[v] = "createStart"
       THEN /\ pc' = [pc EXCEPT ![v] = "loginSource"]
            /\ goal' = [goal EXCEPT ![v] = "start"]
       ELSE Refused(v)
    /\ UNCHANGED <<spaceVars, nsContent, faults, edits>>

\* The sources have the namespace, until their users take it away.
Init ==
    /\ source \in [Service -> Content]
    /\ target \in Space
    /\ addNamed \in BOOLEAN
    /\ pc = [v \in Service |-> "idle"]
    /\ goal = [v \in Service |-> "none"]
    /\ task = [v \in Service |-> "none"]
    /\ nsContent = [v \in Service |-> NoSpace]
    /\ had = [v \in Service |-> Nothing]
    /\ faults = 0 /\ edits = 0

JobConfig(v) ==
    \/ Login(v) \/ GetSource(v) \/ GetDest(v) \/ CopyGet(v)
    \/ CreateNamespace(v) \/ Valid(v)

Goal == {"test", "create", "createStart", "start"}

Next ==
    \/ Edit /\ Observe
    \/ \E v \in Service :
         \/ \E g \in Goal : Ask(v, g) /\ Observe
         \/ JobConfig(v) /\ Observe

Spec == Init /\ [][Next]_vars

\* A request is answered or times out.  Nobody need ask for anything.
Fairness == \A v \in Service : WF_vars(JobConfig(v) /\ Observe)

FairSpec == Spec /\ Fairness

-----------------------------------------------------------------------------
(* Properties.                                                             *)

TypeOK ==
    /\ source \in [Service -> Space] /\ target \in Space
    /\ addNamed \in BOOLEAN
    /\ pc \in [Service -> DOMAIN After \cup {"idle", "done"}]
    /\ goal \in [Service -> Goal \cup {"none"}]
    /\ task \in [Service -> {"none", "pause", "started"}]
    /\ nsContent \in [Service -> Space]
    /\ had \in [Service -> [source: SUBSET Content, target: BOOLEAN]]
    /\ faults \in 0..MaxFault /\ edits \in 0..MaxEdit

\* Whatever fails, and whoever else replicates to the target, a service
\* changes it only by making the namespace it lacks, and with what its own
\* source had while the configuration was being made.
CopiesOnly ==
    [][(edits' = edits /\ target' # target) =>
         /\ target = NoSpace
         /\ \E v \in Service : pc[v] = "add" /\ target' \in had[v].source]_vars

\* A configuration passes, for whatever it was made, only if both registries
\* had the namespace while it was being made, whoever made it.  The one
\* exception: the copy of the namespace was not got, and the target has one
\* that is called "add".  (And the variables have their types.)
PassesReady ==
    /\ TypeOK
    /\ \A v \in Service :
         pc[v] \in {"docker", "done"} =>
            had[v].source # {} /\ (had[v].target \/ addNamed)

\* What was left half done does not stand in the way: a start that is asked
\* for again and again succeeds, once the source has the namespace for good.
RetriesStart ==
    \A v \in Service :
        (<>[](source[v] # NoSpace) /\ []<><<Ask(v, "start")>>_vars)
            => <>(task[v] = "started")

=============================================================================
