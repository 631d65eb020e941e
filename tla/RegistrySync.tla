----------------------------- MODULE RegistrySync -----------------------------
(***************************************************************************)
(* The copying side of docker_registry_replication: the workers of the     *)
(* tasks of one namespace (SyncJob.get_diff, add_one_repository and        *)
(* del_one_repository), the source registry, the target registries, and    *)
(* the one docker daemon through which all workers copy.  Names of local   *)
(* images are shared: two workers that copy the same image use the same    *)
(* <source host>/<image> name.                                             *)
(*                                                                         *)
(* Stop, quit and the thread's start are in TaskService; here a worker may *)
(* stand still between any two steps.                                      *)
(***************************************************************************)
EXTENDS Integers, FiniteSets

CONSTANTS
    Job,         \* workers, one per task of the namespace
    Target,      \* target registries
    TargetOf,    \* the target of each worker
    Image,       \* images (repository:tag) of the namespace
    Removable,   \* bound: images the source may remove, each once
    MaxVersion,  \* bound: contents published under one image name
    MaxListFault,\* bound: listings that fail
    MaxPushFault,\* bound: pushes and deletes that the target refuses
    MaxCallFault,\* bound: pulls that fail, and calls of the daemon that raise
    MaxCrash     \* bound: crashes of the service

ASSUME JobAssumption == Job # {}
ASSUME TargetAssumption == TargetOf \in [Job -> Target]
ASSUME RemovableAssumption == Removable \subseteq Image
ASSUME BoundAssumption ==
    /\ MaxVersion \in Nat \ {0} /\ MaxListFault \in Nat
    /\ MaxPushFault \in Nat /\ MaxCallFault \in Nat /\ MaxCrash \in Nat

VARIABLES
    src,       \* content the source has of each image, 0 for none
    latest,    \* number of contents published of each image
    removed,   \* images the source has removed once
    notices,   \* overwritten images the service was not told of yet
    dest,      \* content each target has of each image, 0 for none
    localSrc,  \* image names of the source in the docker daemon, 0 for none
    localDest, \* image names of each target in the docker daemon
    pc,        \* where each worker stands
    image,     \* the image a worker is at
    lsrc,      \* l_src of get_diff
    add,       \* what is left of d["add"]: images missing in the target
    again,     \* what is left of d["add"]: overwritten images, after those
    del,       \* what is left of d["del"]
    overwrite, \* Task.overwrite
    faults     \* failed listings, pushes and deletes, calls, and crashes

sourceVars == <<src, latest, removed, notices>>
daemonVars == <<localSrc, localDest>>
listVars   == <<lsrc, add, again, del, overwrite>>
vars == <<src, latest, removed, notices, dest, localSrc, localDest, pc, image,
          lsrc, add, again, del, overwrite, faults>>

NoVersion == 0
Present(registry) == {i \in Image : registry[i] # NoVersion}

-----------------------------------------------------------------------------
(* The source registry and its users.                                      *)

\* An image is pushed to the source.  If it replaces one, the registry will
\* report the overwrite.
Publish(i) ==
    /\ latest[i] < MaxVersion
    /\ latest' = [latest EXCEPT ![i] = @ + 1]
    /\ src' = [src EXCEPT ![i] = latest[i] + 1]
    /\ notices' = IF src[i] = NoVersion THEN notices ELSE notices \cup {i}
    /\ UNCHANGED <<removed, dest, daemonVars, pc, image, listVars, faults>>

Withdraw(i) ==
    /\ i \in Removable \ removed
    /\ src[i] # NoVersion
    /\ src' = [src EXCEPT ![i] = NoVersion]
    /\ removed' = removed \cup {i}
    /\ UNCHANGED <<latest, notices, dest, daemonVars, pc, image, listVars,
                   faults>>

\* Faulty: only the first task of the namespace notes the image.
TaskOverwrite_FirstTask(i) ==
    /\ i \in notices
    /\ notices' = notices \ {i}
    /\ overwrite' = [overwrite EXCEPT ![CHOOSE w \in Job : TRUE] = @ \cup {i}]
    /\ UNCHANGED <<src, latest, removed, dest, daemonVars, pc, image, lsrc, add,
                   again, del, faults>>

\* task_overwrite: every task of the namespace notes the image once.
TaskOverwrite(i) ==
    /\ i \in notices
    /\ notices' = notices \ {i}
    /\ overwrite' = [w \in Job |-> overwrite[w] \cup {i}]
    /\ UNCHANGED <<src, latest, removed, dest, daemonVars, pc, image, lsrc, add,
                   again, del, faults>>

-----------------------------------------------------------------------------
(* get_diff.                                                               *)

ListFault == [faults EXCEPT !.list = @ + 1]
PushFault == [faults EXCEPT !.push = @ + 1]
CallFault == [faults EXCEPT !.call = @ + 1]

\* get_repositories_nslist returns the empty list when the request fails.
Listing(registry, result) ==
    \/ result = Present(registry) /\ faults' = faults
    \/ result = {} /\ faults.list < MaxListFault /\ faults' = ListFault

ListSource(w) ==
    /\ pc[w] = "top"
    /\ \E l \in {Present(src), {}} :
         /\ Listing(src, l)
         /\ lsrc' = [lsrc EXCEPT ![w] = l]
    /\ pc' = [pc EXCEPT ![w] = "diff"]
    /\ UNCHANGED <<sourceVars, dest, daemonVars, image, add, again, del,
                   overwrite>>

\* get_diff takes all of task.overwrite and returns.
Diffed(w) ==
    /\ again' = [again EXCEPT ![w] = overwrite[w]]
    /\ overwrite' = [overwrite EXCEPT ![w] = {}]
    /\ lsrc' = [lsrc EXCEPT ![w] = {}]
    /\ pc' = [pc EXCEPT ![w] = "next"]
    /\ UNCHANGED <<sourceVars, dest, daemonVars, image>>

\* Faulty: a difference is deleted whichever registry it is in.
ListDest_DeletesAll(w) ==
    /\ pc[w] = "diff"
    /\ \E l \in {Present(dest[TargetOf[w]]), {}} :
         /\ Listing(dest[TargetOf[w]], l)
         /\ add' = [add EXCEPT ![w] = lsrc[w] \ l]
         /\ del' = [del EXCEPT ![w] = (l \ lsrc[w]) \cup (lsrc[w] \ l)]
    /\ Diffed(w)

\* Faulty: only what the source has is compared.
ListDest_NoDelete(w) ==
    /\ pc[w] = "diff"
    /\ \E l \in {Present(dest[TargetOf[w]]), {}} :
         /\ Listing(dest[TargetOf[w]], l)
         /\ add' = [add EXCEPT ![w] = lsrc[w] \ l]
         /\ del' = del
    /\ Diffed(w)

\* The symmetric difference of the listings, and all of task.overwrite.
ListDest(w) ==
    /\ pc[w] = "diff"
    /\ \E l \in {Present(dest[TargetOf[w]]), {}} :
         /\ Listing(dest[TargetOf[w]], l)
         /\ add' = [add EXCEPT ![w] = lsrc[w] \ l]
         /\ del' = [del EXCEPT ![w] = l \ lsrc[w]]
    /\ Diffed(w)

-----------------------------------------------------------------------------
(* run: the images of d["add"], then those of d["del"], then wait_for_call *)

NextAdd(w) ==
    /\ pc[w] = "next"
    /\ \/ \E i \in add[w] :
            /\ image' = [image EXCEPT ![w] = i]
            /\ add' = [add EXCEPT ![w] = @ \ {i}]
            /\ again' = again
       \/ /\ add[w] = {}
          /\ \E i \in again[w] :
               /\ image' = [image EXCEPT ![w] = i]
               /\ again' = [again EXCEPT ![w] = @ \ {i}]
               /\ add' = add
    /\ pc' = [pc EXCEPT ![w] = "pull"]
    /\ UNCHANGED <<sourceVars, dest, daemonVars, lsrc, del, overwrite, faults>>

NextDel(w) ==
    /\ pc[w] = "next"
    /\ add[w] = {} /\ again[w] = {}
    /\ \E i \in del[w] :
         /\ image' = [image EXCEPT ![w] = i]
         /\ del' = [del EXCEPT ![w] = @ \ {i}]
    /\ pc' = [pc EXCEPT ![w] = "delete"]
    /\ UNCHANGED <<sourceVars, dest, daemonVars, lsrc, add, again, overwrite,
                   faults>>

RoundDone(w) ==
    /\ pc[w] = "next"
    /\ add[w] = {} /\ again[w] = {} /\ del[w] = {}
    /\ pc' = [pc EXCEPT ![w] = "top"]
    /\ UNCHANGED <<sourceVars, dest, daemonVars, image, listVars, faults>>

-----------------------------------------------------------------------------
(* add_one_repository.  An error the daemon reports in the stream of a     *)
(* pull or push is not looked at; an error status of any call, or a daemon  *)
(* that does not answer, is raised and ends the thread.                    *)

Goto(w, label) == pc' = [pc EXCEPT ![w] = label]

\* A call has had its effect: it returns, or its answer is lost.
Returns(w, label) ==
    \/ Goto(w, label) /\ faults' = faults
    \/ faults.call < MaxCallFault /\ faults' = CallFault /\ Goto(w, "died")

\* A call raises before it has any.
CallRaises(w) ==
    /\ pc[w] \in {"pull", "tag", "push", "rmsrc", "rmdest"}
    /\ faults.call < MaxCallFault
    /\ faults' = CallFault
    /\ Goto(w, "died")
    /\ UNCHANGED <<sourceVars, dest, daemonVars, image, listVars>>

Pull(w) ==
    /\ pc[w] = "pull"
    /\ src[image[w]] # NoVersion
    /\ localSrc' = [localSrc EXCEPT ![image[w]] = src[image[w]]]
    /\ Returns(w, "tag")
    /\ UNCHANGED <<sourceVars, dest, localDest, image, listVars>>

\* The stream of a pull ends with an error: the source has no such image, or has
\* it and does not deliver it.  The name stays what it was in the daemon.
PullFails(w) ==
    /\ pc[w] = "pull"
    /\ \/ src[image[w]] = NoVersion /\ faults' = faults
       \/ faults.call < MaxCallFault /\ faults' = CallFault
    /\ Goto(w, "tag")
    /\ UNCHANGED <<sourceVars, dest, daemonVars, image, listVars>>

Tag(w) ==
    /\ pc[w] = "tag"
    /\ IF localSrc[image[w]] = NoVersion
       THEN Goto(w, "died") /\ UNCHANGED <<localDest, faults>>
       ELSE /\ Returns(w, "push")
            /\ localDest' = [localDest EXCEPT ![TargetOf[w]][image[w]] =
                               localSrc[image[w]]]
    /\ UNCHANGED <<sourceVars, dest, localSrc, image, listVars>>

\* Without the local image, or if the target refuses it, nothing is pushed.
Push(w) ==
    /\ pc[w] = "push"
    /\ LET t == TargetOf[w]
           v == localDest[t][image[w]] IN
         \/ /\ dest' = IF v = NoVersion THEN dest
                       ELSE [dest EXCEPT ![t][image[w]] = v]
            /\ Returns(w, "rmsrc")
         \/ /\ faults.push < MaxPushFault
            /\ faults' = PushFault
            /\ dest' = dest
            /\ Goto(w, "rmsrc")
    /\ UNCHANGED <<sourceVars, daemonVars, image, listVars>>

\* The removal of a name that is not there raises.
Removed(w, name, label) ==
    IF name = NoVersion THEN Goto(w, "died") /\ faults' = faults
                        ELSE Returns(w, label)

RemoveSource(w) ==
    /\ pc[w] = "rmsrc"
    /\ Removed(w, localSrc[image[w]], "rmdest")
    /\ localSrc' = [localSrc EXCEPT ![image[w]] = NoVersion]
    /\ UNCHANGED <<sourceVars, dest, localDest, image, listVars>>

\* Faulty: image_src once more instead of image_dest.
RemoveDest_Source(w) ==
    /\ pc[w] = "rmdest"
    /\ Removed(w, localSrc[image[w]], "next")
    /\ localSrc' = [localSrc EXCEPT ![image[w]] = NoVersion]
    /\ UNCHANGED <<sourceVars, dest, localDest, image, listVars>>

\* Faulty: image_dest is not removed.
RemoveDest_Skipped(w) ==
    /\ pc[w] = "rmdest"
    /\ Goto(w, "next")
    /\ UNCHANGED <<sourceVars, dest, daemonVars, image, listVars, faults>>

RemoveDest(w) ==
    /\ pc[w] = "rmdest"
    /\ LET t == TargetOf[w] IN
         /\ Removed(w, localDest[t][image[w]], "next")
         /\ localDest' = [localDest EXCEPT ![t][image[w]] = NoVersion]
    /\ UNCHANGED <<sourceVars, dest, localSrc, image, listVars>>

\* del_one_repository: delete_one_tag, whose failure is not looked at.
Delete(w) ==
    /\ pc[w] = "delete"
    /\ \/ /\ dest' = [dest EXCEPT ![TargetOf[w]][image[w]] = NoVersion]
          /\ faults' = faults
       \/ /\ faults.push < MaxPushFault
          /\ faults' = PushFault
          /\ dest' = dest
    /\ Goto(w, "next")
    /\ UNCHANGED <<sourceVars, daemonVars, image, listVars>>

\* The service dies and is started again: the workers start from get_diff and
\* Task.overwrite, kept in memory only, is empty.  The daemon keeps its images.
Crash ==
    /\ faults.crash < MaxCrash
    /\ faults' = [faults EXCEPT !.crash = @ + 1]
    /\ pc' = [w \in Job |-> "top"]
    /\ lsrc' = [w \in Job |-> {}]
    /\ add' = [w \in Job |-> {}]
    /\ again' = [w \in Job |-> {}]
    /\ del' = [w \in Job |-> {}]
    /\ overwrite' = [w \in Job |-> {}]
    /\ UNCHANGED <<sourceVars, dest, daemonVars, image>>

-----------------------------------------------------------------------------

\* The source may have images before the first task is made; the targets may
\* be in use already only with what was replicated before, here nothing.
Init ==
    /\ latest \in [Image -> 0..1]
    /\ src = latest
    /\ removed = {}
    /\ notices = {}
    /\ dest = [t \in Target |-> [i \in Image |-> NoVersion]]
    /\ localSrc = [i \in Image |-> NoVersion]
    /\ localDest = [t \in Target |-> [i \in Image |-> NoVersion]]
    /\ pc = [w \in Job |-> "top"]
    /\ image \in {[w \in Job |-> i] : i \in Image}
    /\ lsrc = [w \in Job |-> {}]
    /\ add = [w \in Job |-> {}]
    /\ again = [w \in Job |-> {}]
    /\ del = [w \in Job |-> {}]
    /\ overwrite = [w \in Job |-> {}]
    /\ faults = [list |-> 0, push |-> 0, call |-> 0, crash |-> 0]

Sync(w) ==
    \/ ListSource(w) \/ ListDest(w) \/ NextAdd(w) \/ NextDel(w) \/ RoundDone(w)
    \/ Pull(w) \/ PullFails(w) \/ Tag(w) \/ Push(w) \/ RemoveSource(w)
    \/ RemoveDest(w) \/ CallRaises(w) \/ Delete(w)

Next ==
    \/ \E w \in Job : Sync(w)
    \/ \E i \in Image : Publish(i) \/ Withdraw(i) \/ TaskOverwrite(i)
    \/ Crash

Spec == Init /\ [][Next]_vars

\* Every thread that can run runs, and the source's notices arrive.
FairSpec ==
    /\ Spec
    /\ \A w \in Job : WF_vars(Sync(w))
    /\ \A i \in Image : WF_vars(TaskOverwrite(i))

-----------------------------------------------------------------------------
(* Properties.                                                             *)

Version  == 0..MaxVersion
Contents == [Image -> Version]
Lists    == [Job -> SUBSET Image]

TypeOK ==
    /\ src \in Contents /\ latest \in Contents
    /\ removed \subseteq Image /\ notices \subseteq Image
    /\ dest \in [Target -> Contents]
    /\ localSrc \in Contents /\ localDest \in [Target -> Contents]
    /\ pc \in [Job -> {"top", "diff", "next", "pull", "tag", "push", "rmsrc",
                       "rmdest", "delete", "died"}]
    /\ image \in [Job -> Image]
    /\ lsrc \in Lists /\ add \in Lists /\ again \in Lists
    /\ del \in Lists /\ overwrite \in Lists
    /\ faults \in [list: 0..MaxListFault, push: 0..MaxPushFault,
                   call: 0..MaxCallFault, crash: 0..MaxCrash]

\* The workers that share the daemon do not end each other until none is left, if
\* each has a target of its own: of those that copy one image together the last
\* one goes through.  It takes a pull that failed, a call that raised, or an image
\* the source removed before the pull, to end the last of them; any of these does
\* end a worker, as the thread has no handler for the exception that follows.
SomeWorkerSurvives ==
    (\A w \in Job : pc[w] = "died") =>
        faults.call > 0 \/ \E w \in Job : image[w] \in removed

\* When all workers are between two images and none was cut short, the daemon
\* holds no image: copying leaves nothing behind on the service's disk.  (And
\* always, the variables have their types.)
DaemonClean ==
    /\ TypeOK
    /\ (faults.crash = 0 /\ \A w \in Job : pc[w] \in {"top", "diff", "next"}) =>
         Present(localSrc) = {} /\ \A t \in Target : Present(localDest[t]) = {}

\* As long as no listing has failed the workers, each with a target of its own,
\* implement Replica: no target goes back to an older content or loses an image
\* the source always had.  A worker whose pull has failed pushes what another
\* one has pulled under the same name; that too is no older than the target's.
Abstract == INSTANCE Replica WITH withdrawn <- removed
ReplicaSpec ==
    /\ Abstract!Init
    /\ [][faults'.list = 0 => Abstract!Next]_(Abstract!vars)

\* README: images are replicated automatically.  An image the source always
\* kept is not taken away from a target.
KeepsReplicas ==
    [][\A t \in Target : \A i \in Image \ removed :
         dest[t][i] # NoVersion => dest'[t][i] # NoVersion]_vars

\* Once the source is quiet, the target of a worker that lives has the images
\* of the source: failed listings, pushes and deletes and crashes are made up
\* for by a later round.
ImagesConverge ==
    \A w \in Job :
        <>[](pc[w] = "died" \/ Present(dest[TargetOf[w]]) = Present(src))

\* Without failures and crashes the contents agree too: no overwrite the
\* source reports is lost on a task, whatever its worker is doing.  (An image
\* that is withdrawn and published again between two listings is neither a
\* difference nor an overwrite, and the target keeps the old content.)
ContentsConverge ==
    \A w \in Job :
        <>[](\/ pc[w] = "died" \/ faults.list + faults.push + faults.call + faults.crash > 0
             \/ \A i \in Image \ removed : dest[TargetOf[w]][i] = src[i])

\* README: images are replicated automatically, and to several data centres.
\* Without any failure and with a source that removes nothing, every target
\* comes to have the images of the source.
AlwaysReplicates == \A w \in Job : <>[](Present(dest[TargetOf[w]]) = Present(src))

=============================================================================
