---------------------------- MODULE JobSetup_proofs ----------------------------
(***************************************************************************)
(* What the configurations of a task promise, for every set of services    *)
(* and contents and every number of failures and of changes by the users:  *)
(* that one passes only with both registries ready, and that the target is *)
(* only given what the source of the service had.                          *)
(***************************************************************************)
EXTENDS JobSetup, TLAPS

\* What a configuration has seen when it comes to a request: the source's
\* namespace; what it got of it; and the target's namespace, or one called
\* "add".
SourceSeen(v) ==
    pc[v] \in {"loginDest", "getDest", "copy", "add", "docker", "done"} =>
        had[v].source # {}
CopySeen(v) == pc[v] = "add" => nsContent[v] \in had[v].source \cup {NoSpace}
TargetSeen(v) == pc[v] \in {"docker", "done"} => had[v].target \/ addNamed

Seen(v) == SourceSeen(v) /\ CopySeen(v) /\ TargetSeen(v)
IndInv == TypeOK /\ \A v \in Service : Seen(v)

\* What a step does to the registries and to one configuration.
Step(v) == (\E g \in Goal : Ask(v, g)) \/ JobConfig(v)

LEMMA NextSteps ==
    [Next]_vars <=> \/ Edit /\ Observe
                    \/ \E v \in Service : Step(v) /\ Observe
                    \/ UNCHANGED vars
BY DEF Next, Step

-----------------------------------------------------------------------------
(* The types.                                                              *)

Labels == DOMAIN After \cup {"idle", "done"}

LEMMA LabelSet ==
    /\ Labels = {"loginSource", "getSource", "loginDest", "getDest", "copy", "add",
                 "docker", "idle", "done"}
    /\ \A l \in DOMAIN After : After[l] \in Labels
    /\ After["loginSource"] = "getSource" /\ After["getSource"] = "loginDest"
    /\ After["loginDest"] = "getDest" /\ After["getDest"] = "docker"
    /\ After["copy"] = "add" /\ After["add"] = "docker" /\ After["docker"] = "done"
BY DEF Labels, After

\* All but the history.
PlainTypes ==
    /\ source \in [Service -> Space] /\ target \in Space
    /\ addNamed \in BOOLEAN
    /\ pc \in [Service -> Labels]
    /\ goal \in [Service -> Goal \cup {"none"}]
    /\ task \in [Service -> {"none", "pause", "started"}]
    /\ nsContent \in [Service -> Space]
    /\ faults \in 0..MaxFault /\ edits \in 0..MaxEdit

LEMMA EditTypes == PlainTypes /\ Edit => PlainTypes'
BY BoundAssumption DEF PlainTypes, Edit

LEMMA AskTypes ==
    ASSUME PlainTypes, NEW v \in Service, NEW g \in Goal, Ask(v, g)
    PROVE  PlainTypes'
BY LabelSet DEF PlainTypes, Ask, spaceVars

\* Where a configuration goes.
LEMMA GotoTypes ==
    ASSUME PlainTypes, NEW v \in Service, pc[v] \in DOMAIN After,
           Goes(v) \/ Goto(v, "copy") \/ Refused(v)
    PROVE  pc' \in [Service -> Labels] /\ goal' \in [Service -> Goal \cup {"none"}]
BY LabelSet DEF PlainTypes, Goes, Goto, Refused

LEMMA FaultTypes ==
    ASSUME PlainTypes, Works \/ Fails
    PROVE  faults' \in 0..MaxFault
BY BoundAssumption DEF PlainTypes, Works, Fails

LEMMA JobTypes ==
    ASSUME PlainTypes, NEW v \in Service, JobConfig(v)
    PROVE  PlainTypes'
<1> USE DEF spaceVars
<1>1. CASE Login(v) \/ GetSource(v) \/ GetDest(v)
  <2>1. pc[v] \in DOMAIN After /\ (Works \/ Fails)
    BY <1>1 DEF Login, GetSource, GetDest, After
  <2>2. Goes(v) \/ Goto(v, "copy") \/ Refused(v)
    BY <1>1 DEF Login, GetSource, GetDest
  <2>3. UNCHANGED <<source, target, addNamed, task, nsContent, edits>>
    BY <1>1 DEF Login, GetSource, GetDest
  <2> QED  BY <2>1, <2>2, <2>3, GotoTypes, FaultTypes DEF PlainTypes
<1>2. CASE CopyGet(v)
  <2>1. pc[v] \in DOMAIN After /\ (Works \/ Fails) /\ Goes(v)
    BY <1>2 DEF CopyGet, After
  <2>2. nsContent' \in [Service -> Space]
    BY <1>2 DEF CopyGet, PlainTypes, Space
  <2>3. UNCHANGED <<source, target, addNamed, task, edits>>
    BY <1>2 DEF CopyGet
  <2> QED  BY <2>1, <2>2, <2>3, GotoTypes, FaultTypes DEF PlainTypes
<1>3. CASE CreateNamespace(v)
  <2>1. pc[v] \in DOMAIN After /\ (Works \/ Fails) /\ (Goes(v) \/ Refused(v))
    BY <1>3 DEF CreateNamespace, GetAdd, PostNamespace, After
  <2>2. target' \in Space
    BY <1>3 DEF CreateNamespace, GetAdd, PostNamespace, PlainTypes
  <2>3. nsContent' \in [Service -> Space]
    BY <1>3 DEF CreateNamespace, PlainTypes, Space
  <2>4. UNCHANGED <<source, addNamed, task, edits>>
    BY <1>3 DEF CreateNamespace
  <2> QED  BY <2>1, <2>2, <2>3, <2>4, GotoTypes, FaultTypes DEF PlainTypes
<1>4. CASE Valid(v)
  <2>1. task' \in [Service -> {"none", "pause", "started"}]
    BY <1>4 DEF Valid, PlainTypes
  <2>2. pc' \in [Service -> Labels] /\ goal' \in [Service -> Goal \cup {"none"}]
    BY <1>4, LabelSet DEF Valid, Refused, PlainTypes, Goal
  <2> QED  BY <1>4, <2>1, <2>2 DEF Valid, PlainTypes
<1> QED  BY <1>1, <1>2, <1>3, <1>4 DEF JobConfig

\* The history keeps its type, whatever is observed.
LEMMA HadTypes ==
    ASSUME TypeOK, Observe, source' \in [Service -> Space]
    PROVE  had' \in [Service -> [source: SUBSET Content, target: BOOLEAN]]
<1> DEFINE Kept(v) == IF pc'[v] = "loginSource" /\ pc[v] # "loginSource"
                      THEN Nothing ELSE had[v]
           Seeing(v) == IF pc'[v] = "idle" THEN Nothing
                        ELSE [source |-> Kept(v).source \cup ({source'[v]} \ {NoSpace}),
                              target |-> Kept(v).target \/ target' # NoSpace]
<1>1. ASSUME NEW v \in Service
      PROVE  Seeing(v) \in [source: SUBSET Content, target: BOOLEAN]
  <2>1. Nothing \in [source: SUBSET Content, target: BOOLEAN]
    BY DEF Nothing
  <2>2. Kept(v) \in [source: SUBSET Content, target: BOOLEAN]
    BY <2>1 DEF TypeOK
  <2>3. {source'[v]} \ {NoSpace} \subseteq Content
    BY DEF Space
  <2> HIDE DEF Kept
  <2>4. [source |-> Kept(v).source \cup ({source'[v]} \ {NoSpace}),
         target |-> Kept(v).target \/ target' # NoSpace]
           \in [source: SUBSET Content, target: BOOLEAN]
    BY <2>2, <2>3
  <2> QED  BY <2>1, <2>4
<1>2. had' = [v \in Service |-> Seeing(v)]
  BY DEF Observe
<1> HIDE DEF Seeing
<1> QED  BY <1>1, <1>2

LEMMA TypeStep == TypeOK /\ [Next]_vars => TypeOK'
<1>1. TypeOK <=> PlainTypes /\ had \in [Service -> [source: SUBSET Content, target: BOOLEAN]]
  BY DEF TypeOK, PlainTypes, Labels
<1>2. TypeOK' <=>
         PlainTypes' /\ had' \in [Service -> [source: SUBSET Content, target: BOOLEAN]]
  BY DEF TypeOK, PlainTypes, Labels
<1>3. ASSUME TypeOK, Observe, PlainTypes'
      PROVE  TypeOK'
  BY <1>2, <1>3, HadTypes DEF PlainTypes
<1>4. TypeOK /\ UNCHANGED vars => TypeOK'
  BY <1>1, <1>2 DEF vars, spaceVars, PlainTypes
<1> QED
  BY <1>1, <1>3, <1>4, NextSteps, EditTypes, AskTypes, JobTypes DEF Step

-----------------------------------------------------------------------------
(* What was seen is not forgotten while a configuration goes on.           *)

LEMMA ObserveGrows ==
    ASSUME TypeOK, Observe, NEW v \in Service, pc'[v] \notin {"idle", "loginSource"}
    PROVE  /\ had[v].source \subseteq had'[v].source
           /\ had[v].target => had'[v].target
           /\ source'[v] # NoSpace => source'[v] \in had'[v].source
           /\ target' # NoSpace => had'[v].target
<1>1. had'[v] = [source |-> had[v].source \cup ({source'[v]} \ {NoSpace}),
                 target |-> had[v].target \/ target' # NoSpace]
  BY DEF Observe
<1>2. had'[v].source = had[v].source \cup ({source'[v]} \ {NoSpace})
  BY <1>1
<1>3. had'[v].target = (had[v].target \/ target' # NoSpace)
  BY <1>1
<1> QED  BY <1>2, <1>3

\* Who makes no request keeps what it has seen.
LEMMA SeenStays ==
    ASSUME IndInv, Observe, addNamed' = addNamed, NEW v \in Service,
           pc'[v] = pc[v], nsContent'[v] = nsContent[v]
    PROVE  Seen(v)'
<1>1. Seen(v)
  BY DEF IndInv
<1>2. CASE pc[v] \in {"idle", "loginSource"}
  BY <1>2 DEF Seen, SourceSeen, CopySeen, TargetSeen
<1>3. CASE pc[v] \notin {"idle", "loginSource"}
  BY <1>1, <1>3, ObserveGrows DEF IndInv, Seen, SourceSeen, CopySeen, TargetSeen
<1> QED  BY <1>2, <1>3

\* Nobody makes the namespace "add", and a service asks for itself only.
LEMMA StepFrame ==
    ASSUME TypeOK, NEW v \in Service, Step(v)
    PROVE  /\ addNamed' = addNamed /\ source' = source /\ edits' = edits
           /\ \A u \in Service \ {v} : pc'[u] = pc[u] /\ nsContent'[u] = nsContent[u]
<1> USE DEF TypeOK, Goes, Goto, Refused, spaceVars
<1>1. CASE \E g \in Goal : Ask(v, g)
  BY <1>1 DEF Ask
<1>2. CASE Login(v) \/ GetSource(v) \/ GetDest(v)
  BY <1>2 DEF Login, GetSource, GetDest
<1>3. CASE CopyGet(v)
  BY <1>3 DEF CopyGet
<1>4. CASE CreateNamespace(v)
  BY <1>4 DEF CreateNamespace, GetAdd, PostNamespace
<1>5. CASE Valid(v)
  BY <1>5 DEF Valid
<1> QED  BY <1>1, <1>2, <1>3, <1>4, <1>5 DEF Step, JobConfig

LEMMA SeenStep ==
    ASSUME IndInv, Observe, NEW v \in Service, Step(v)
    PROVE  Seen(v)'
<1>1. TypeOK /\ Seen(v) /\ pc[v] \in Labels
  BY DEF IndInv, TypeOK, Labels
<1>2. ASSUME pc'[v] \in {"idle", "loginSource", "getSource"}
      PROVE  Seen(v)'
  BY <1>2 DEF Seen, SourceSeen, CopySeen, TargetSeen
<1>3. CASE \E g \in Goal : Ask(v, g)
  BY <1>1, <1>2, <1>3 DEF Ask, TypeOK
<1>4. CASE Login(v)
  <2>1. \/ pc'[v] \in {"idle", "getSource"}
        \/ pc[v] = "loginDest" /\ pc'[v] = "getDest"
        \/ pc[v] = "docker" /\ pc'[v] = "done"
    BY <1>1, <1>4, LabelSet DEF Login, Goes, Goto, Refused, TypeOK
  <2>2. addNamed' = addNamed
    BY <1>4 DEF Login, spaceVars
  <2> QED
    BY <1>1, <1>2, <2>1, <2>2, ObserveGrows DEF Seen, SourceSeen, CopySeen, TargetSeen
<1>5. CASE GetSource(v)
  <2>1. \/ pc'[v] = "idle"
        \/ pc'[v] = "loginDest" /\ source[v] # NoSpace
    BY <1>1, <1>5, LabelSet DEF GetSource, Goes, Goto, Refused, TypeOK
  <2>2. source' = source
    BY <1>5 DEF GetSource, spaceVars
  <2> QED
    BY <1>1, <1>2, <2>1, <2>2, ObserveGrows DEF Seen, SourceSeen, CopySeen, TargetSeen
<1>6. CASE GetDest(v)
  <2>1. \/ pc'[v] = "copy"
        \/ pc'[v] = "docker" /\ target # NoSpace
    BY <1>1, <1>6, LabelSet DEF GetDest, Goes, Goto, TypeOK
  <2>2. target' = target /\ pc[v] = "getDest"
    BY <1>6 DEF GetDest, spaceVars
  <2> QED
    BY <1>1, <2>1, <2>2, ObserveGrows DEF Seen, SourceSeen, CopySeen, TargetSeen
<1>7. CASE CopyGet(v)
  <2>1. /\ pc[v] = "copy" /\ pc'[v] = "add"
        /\ nsContent'[v] \in {source[v], NoSpace} /\ source' = source
    BY <1>1, <1>7, LabelSet DEF CopyGet, Goes, Goto, TypeOK, spaceVars
  <2> QED
    BY <1>1, <2>1, ObserveGrows DEF Seen, SourceSeen, CopySeen, TargetSeen
<1>8. CASE CreateNamespace(v)
  <2>1. \/ pc'[v] = "idle"
        \/ pc'[v] = "docker" /\ (addNamed \/ target' # NoSpace)
    BY <1>1, <1>8, LabelSet DEF CreateNamespace, GetAdd, PostNamespace, Goes, Goto, Refused,
                                TypeOK
  <2>2. pc[v] = "add" /\ addNamed' = addNamed
    BY <1>8 DEF CreateNamespace
  <2> QED
    BY <1>1, <1>2, <2>1, <2>2, ObserveGrows DEF Seen, SourceSeen, CopySeen, TargetSeen
<1>9. CASE Valid(v)
  BY <1>1, <1>2, <1>9 DEF Valid, Refused, TypeOK
<1> QED
  BY <1>3, <1>4, <1>5, <1>6, <1>7, <1>8, <1>9 DEF Step, JobConfig

LEMMA IndInit == Init => IndInv
<1> SUFFICES ASSUME Init
             PROVE  IndInv
  OBVIOUS
<1>1. TypeOK
  BY BoundAssumption DEF Init, TypeOK, Nothing, Space
<1>2. ASSUME NEW v \in Service
      PROVE  Seen(v)
  BY DEF Init, Seen, SourceSeen, CopySeen, TargetSeen
<1> QED  BY <1>1, <1>2 DEF IndInv

LEMMA IndStep == IndInv /\ [Next]_vars => IndInv'
<1> SUFFICES ASSUME IndInv, [Next]_vars
             PROVE  IndInv'
  OBVIOUS
<1>1. TypeOK /\ TypeOK'
  BY TypeStep DEF IndInv
<1>2. ASSUME Edit, Observe, NEW u \in Service
      PROVE  Seen(u)'
  BY <1>2, SeenStays DEF Edit
<1>3. ASSUME NEW v \in Service, Step(v), Observe, NEW u \in Service
      PROVE  Seen(u)'
  BY <1>1, <1>3, SeenStep, SeenStays, StepFrame
<1>4. ASSUME UNCHANGED vars, NEW u \in Service
      PROVE  Seen(u)'
  BY <1>4 DEF vars, spaceVars, IndInv, Seen, SourceSeen, CopySeen, TargetSeen
<1> QED  BY <1>1, <1>2, <1>3, <1>4, NextSteps DEF IndInv

LEMMA Inductive == Spec => []IndInv
BY IndInit, IndStep, PTL DEF Spec

-----------------------------------------------------------------------------
(* What is promised.                                                       *)

\* A configuration passes only if both registries had the namespace while it
\* was being made, or if the copy was not got and there is a namespace "add":
\* whatever other services and users did to the target between its requests.
THEOREM Ready == Spec => []PassesReady
<1>1. IndInv => PassesReady
  BY DEF IndInv, Seen, SourceSeen, TargetSeen, PassesReady
<1> QED  BY <1>1, Inductive, PTL

\* A service only changes the target by making the namespace it lacks, with
\* what its own source had while the configuration was being made, although
\* that was got by an earlier request and the registries have changed since.
THEOREM OnlyCopies == Spec => CopiesOnly
<1>1. ASSUME IndInv, [Next]_vars, edits' = edits, target' # target
      PROVE  /\ target = NoSpace
             /\ \E v \in Service : pc[v] = "add" /\ target' \in had[v].source
  <2>1. ~Edit /\ ~UNCHANGED vars
    BY <1>1 DEF Edit, vars, spaceVars, IndInv, TypeOK
  <2>2. PICK v \in Service : Step(v)
    BY <1>1, <2>1, NextSteps
  <2>3. CreateNamespace(v)
    BY <1>1, <2>2 DEF Step, Ask, JobConfig, Login, GetSource, GetDest, CopyGet, Valid,
                      spaceVars
  <2>4. nsContent[v] # NoSpace /\ target' = nsContent[v] /\ target = NoSpace
    BY <1>1, <2>3 DEF CreateNamespace, GetAdd, PostNamespace
  <2> QED
    BY <1>1, <2>3, <2>4 DEF CreateNamespace, IndInv, Seen, CopySeen
<1>2. IndInv /\ [Next]_vars =>
         [(edits' = edits /\ target' # target) =>
            /\ target = NoSpace
            /\ \E v \in Service : pc[v] = "add" /\ target' \in had[v].source]_vars
  BY <1>1
<1> QED  BY <1>2, Inductive, PTL DEF Spec, CopiesOnly
=============================================================================
