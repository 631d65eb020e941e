------------------------- MODULE RegistrySync_proofs -------------------------
(***************************************************************************)
(* What the copying between registries promises, for every set of workers, *)
(* targets and images and every value of the bounds: the types, a clean    *)
(* docker daemon, that some worker goes on, and that the workers implement *)
(* Replica.  The last two need that no two workers have one target; where  *)
(* two have, they can end each other and delete each other's images.       *)
(***************************************************************************)
EXTENDS RegistrySync, TLAPS

\* No two tasks of the namespace replicate to one target.
OneTaskEach == \A v, w \in Job : TargetOf[v] = TargetOf[w] => v = w

-----------------------------------------------------------------------------
(* The parts of the inductive invariant.                                   *)

\* The source has the newest content of an image, or nothing.
SourceOK == \A i \in Image : src[i] \in {NoVersion, latest[i]}

\* Images a worker or the source's registry still has a name of.
Known(i) == src[i] # NoVersion \/ i \in removed
NamesOK ==
    /\ \A i \in Image : latest[i] # NoVersion => Known(i)
    /\ \A i \in notices : Known(i)
    /\ \A w \in Job : \A i \in lsrc[w] \cup add[w] \cup again[w] \cup overwrite[w] :
          Known(i)
    /\ \A w \in Job : pc[w] = "pull" => Known(image[w])

\* An image is in the daemon because a worker is at it, or has died at it.
HeldSource(i) ==
    \E w \in Job : image[w] = i /\ pc[w] \in {"tag", "push", "rmsrc", "died"}
HeldDest(t, i) ==
    \E w \in Job : /\ TargetOf[w] = t /\ image[w] = i
                   /\ pc[w] \in {"push", "rmsrc", "rmdest", "died"}
HeldOK ==
    faults.crash = 0 =>
        \A i \in Image :
            /\ localSrc[i] # NoVersion => HeldSource(i)
            /\ \A t \in Target : localDest[t][i] # NoVersion => HeldDest(t, i)

\* Contents only get newer on their way from the source to a target.
Aged(t, i) ==
    /\ dest[t][i] <= latest[i] /\ localDest[t][i] <= latest[i]
    /\ localSrc[i] <= latest[i]
    /\ localSrc[i] # NoVersion =>
          dest[t][i] <= localSrc[i] /\ localDest[t][i] <= localSrc[i]
    /\ localDest[t][i] # NoVersion => dest[t][i] <= localDest[t][i]
AgeOK == \A t \in Target : \A i \in Image : Aged(t, i)

IndInv == TypeOK /\ SourceOK /\ NamesOK /\ HeldOK /\ AgeOK

\* With one task for each target: a worker that has tagged an image finds it,
TagOK ==
    \A w \in Job : pc[w] \in {"push", "rmsrc", "rmdest"} =>
                      localDest[TargetOf[w]][image[w]] # NoVersion

\* and some worker will not end at its next calls, or has ended at an image
\* the source has removed, unless a call has failed.
GoesOn(w) ==
    \/ pc[w] \in {"top", "diff", "next", "pull", "rmdest", "delete"}
    \/ pc[w] \in {"tag", "push", "rmsrc"} /\ localSrc[image[w]] # NoVersion
    \/ pc[w] \in {"tag", "died"} /\ image[w] \in removed
SomeGoesOn == faults.call > 0 \/ \E w \in Job : GoesOn(w)

\* What a worker deletes, the source has removed, unless a listing failed.
DeleteOK ==
    faults.list = 0 =>
        \A w \in Job :
            /\ pc[w] = "diff" =>
                  \A i \in Image \ lsrc[w] :
                      dest[TargetOf[w]][i] # NoVersion => i \in removed
            /\ del[w] \subseteq removed
            /\ pc[w] = "delete" => image[w] \in removed

EachInv == TagOK /\ SomeGoesOn /\ DeleteOK

-----------------------------------------------------------------------------
(* The types.                                                              *)

LEMMA TypeInit == Init => TypeOK
BY BoundAssumption DEF Init, TypeOK, Contents, Version, Lists, NoVersion

\* The faults that are counted stay within their bounds.
Faults == [list: 0..MaxListFault, push: 0..MaxPushFault, call: 0..MaxCallFault,
           crash: 0..MaxCrash]

LEMMA FaultTypes ==
    ASSUME faults \in Faults
    PROVE  /\ faults.list \in Nat /\ faults.push \in Nat /\ faults.call \in Nat
           /\ faults.crash \in Nat
           /\ faults.list < MaxListFault =>
                ListFault \in Faults /\ ListFault.list = faults.list + 1
                    /\ ListFault.crash = faults.crash /\ ListFault.call = faults.call
           /\ faults.push < MaxPushFault =>
                PushFault \in Faults /\ PushFault.list = faults.list
                    /\ PushFault.crash = faults.crash /\ PushFault.call = faults.call
           /\ faults.call < MaxCallFault =>
                CallFault \in Faults /\ CallFault.list = faults.list
                    /\ CallFault.crash = faults.crash /\ CallFault.call > 0
           /\ faults.crash < MaxCrash =>
                [faults EXCEPT !.crash = @ + 1] \in Faults
BY BoundAssumption DEF Faults, ListFault, PushFault, CallFault

\* The steps of add_one_repository, and where they lead from each place.
Calls(w) ==
    \/ Pull(w) \/ PullFails(w) \/ Tag(w) \/ Push(w) \/ RemoveSource(w)
    \/ RemoveDest(w) \/ CallRaises(w)
CallPlaces == {"pull", "tag", "push", "rmsrc", "rmdest"}
After(place) ==
    CASE place = "pull" -> "tag" [] place = "tag" -> "push" [] place = "push" -> "rmsrc"
      [] place = "rmsrc" -> "rmdest" [] OTHER -> "next"

\* A call leads on, or ends the thread: then it has failed, or the name it needs
\* is missing.
LEMMA CallEnds ==
    ASSUME TypeOK, NEW w \in Job, Calls(w)
    PROVE  /\ faults' \in Faults /\ faults'.list = faults.list
           /\ faults'.crash = faults.crash /\ (faults.call > 0 => faults'.call > 0)
           /\ pc[w] \in CallPlaces
           /\ \/ pc' = [pc EXCEPT ![w] = After(pc[w])]
              \/ pc' = [pc EXCEPT ![w] = "died"] /\ faults'.call > 0
              \/ /\ pc' = [pc EXCEPT ![w] = "died"]
                 /\ \/ pc[w] \in {"tag", "rmsrc"} /\ localSrc[image[w]] = NoVersion
                    \/ pc[w] = "rmdest" /\ localDest[TargetOf[w]][image[w]] = NoVersion
<1>0. faults \in Faults
  BY DEF TypeOK, Faults
<1>1. ASSUME NEW label, Returns(w, label)
      PROVE  /\ faults' \in Faults /\ faults'.list = faults.list
             /\ faults'.crash = faults.crash /\ (faults.call > 0 => faults'.call > 0)
             /\ \/ pc' = [pc EXCEPT ![w] = label]
                \/ pc' = [pc EXCEPT ![w] = "died"] /\ faults'.call > 0
  BY <1>0, <1>1, FaultTypes DEF Returns, Goto
<1>2. CASE Pull(w)
  BY <1>1, <1>2 DEF Pull, CallPlaces, After
<1>3. CASE PullFails(w)
  BY <1>0, <1>3, FaultTypes DEF PullFails, Goto, CallPlaces, After
<1>4. CASE Tag(w)
  <2>1. CASE localSrc[image[w]] = NoVersion
    BY <1>0, <1>4, <2>1 DEF Tag, Goto, CallPlaces
  <2>2. CASE localSrc[image[w]] # NoVersion
    BY <1>1, <1>4, <2>2 DEF Tag, CallPlaces, After
  <2> QED  BY <2>1, <2>2
<1>5. CASE Push(w)
  <2>1. CASE Returns(w, "rmsrc")
    BY <1>1, <1>5, <2>1 DEF Push, CallPlaces, After
  <2>2. CASE faults.push < MaxPushFault /\ faults' = PushFault /\ Goto(w, "rmsrc")
    BY <1>0, <1>5, <2>2, FaultTypes DEF Push, Goto, CallPlaces, After
  <2> QED  BY <1>5, <2>1, <2>2 DEF Push
<1>6. CASE RemoveSource(w)
  <2>1. CASE localSrc[image[w]] = NoVersion
    BY <1>0, <1>6, <2>1 DEF RemoveSource, Removed, Goto, CallPlaces
  <2>2. CASE localSrc[image[w]] # NoVersion
    BY <1>1, <1>6, <2>2 DEF RemoveSource, Removed, CallPlaces, After
  <2> QED  BY <2>1, <2>2
<1>7. CASE RemoveDest(w)
  <2>1. CASE localDest[TargetOf[w]][image[w]] = NoVersion
    BY <1>0, <1>7, <2>1 DEF RemoveDest, Removed, Goto, CallPlaces
  <2>2. CASE localDest[TargetOf[w]][image[w]] # NoVersion
    BY <1>1, <1>7, <2>2 DEF RemoveDest, Removed, CallPlaces, After
  <2> QED  BY <2>1, <2>2
<1>8. CASE CallRaises(w)
  BY <1>0, <1>8, FaultTypes DEF CallRaises, Goto, CallPlaces
<1> QED  BY <1>2, <1>3, <1>4, <1>5, <1>6, <1>7, <1>8 DEF Calls

\* What no call changes.
LEMMA CallFrame ==
    ASSUME TypeOK, NEW w \in Job, Calls(w)
    PROVE  /\ UNCHANGED <<src, latest, removed, notices, image, lsrc, add, again, del,
                          overwrite>>
           /\ pc' \in [Job -> CallPlaces \cup {"top", "diff", "next", "delete", "died"}]
           /\ pc[w] \in CallPlaces /\ pc'[w] \in {After(pc[w]), "died"}
           /\ pc'[w] \notin {"top", "diff", "pull", "delete"}
           /\ \A v \in Job \ {w} : pc'[v] = pc[v]
<1>1. UNCHANGED <<src, latest, removed, notices, image, lsrc, add, again, del, overwrite>>
  BY DEF Calls, Pull, PullFails, Tag, Push, RemoveSource, RemoveDest, CallRaises, sourceVars,
         listVars
<1>2. pc \in [Job -> CallPlaces \cup {"top", "diff", "next", "delete", "died"}]
  BY DEF TypeOK, CallPlaces
<1>3. PICK l \in {After(pc[w]), "died"} : pc' = [pc EXCEPT ![w] = l]
  BY CallEnds
<1>4. pc[w] \in CallPlaces
  BY CallEnds
<1>5. l \in {"tag", "push", "rmsrc", "rmdest", "next", "died"}
  BY <1>3, <1>4 DEF CallPlaces, After
<1> QED  BY <1>1, <1>2, <1>3, <1>4, <1>5 DEF CallPlaces

\* One image of one target changes in a registry or in the daemon.
LEMMA TargetTypes ==
    ASSUME NEW f \in [Target -> Contents], NEW t \in Target, NEW i \in Image,
           NEW v \in Version
    PROVE  [f EXCEPT ![t][i] = v] \in [Target -> Contents]
BY DEF Contents

\* The worker keeps its types, whatever it does.
LEMMA TypeStep == TypeOK /\ [Next]_vars => TypeOK'
<1> SUFFICES ASSUME TypeOK, [Next]_vars
             PROVE  TypeOK'
  OBVIOUS
<1> USE TargetAssumption, BoundAssumption DEF TypeOK, Contents, Version, Lists
<1>1. ASSUME NEW i \in Image, Publish(i)
      PROVE  TypeOK'
  BY <1>1 DEF Publish, daemonVars, listVars
<1>2. ASSUME NEW i \in Image, Withdraw(i)
      PROVE  TypeOK'
  BY <1>2 DEF Withdraw, daemonVars, listVars, NoVersion
<1>3. ASSUME NEW i \in Image, TaskOverwrite(i)
      PROVE  TypeOK'
  BY <1>3 DEF TaskOverwrite, daemonVars
<1>4. ASSUME NEW w \in Job, ListSource(w)
      PROVE  TypeOK'
  <2>1. PICK l \in {Present(src), {}} : Listing(src, l) /\ lsrc' = [lsrc EXCEPT ![w] = l]
    BY <1>4 DEF ListSource
  <2>2. l \subseteq Image /\ faults' \in Faults
    BY <2>1, FaultTypes DEF Listing, Present, Faults
  <2> QED  BY <1>4, <2>1, <2>2 DEF ListSource, Faults, sourceVars, daemonVars
<1>5. ASSUME NEW w \in Job, ListDest(w)
      PROVE  TypeOK'
  <2>1. PICK l \in {Present(dest[TargetOf[w]]), {}} :
           /\ Listing(dest[TargetOf[w]], l)
           /\ add' = [add EXCEPT ![w] = lsrc[w] \ l]
           /\ del' = [del EXCEPT ![w] = l \ lsrc[w]]
    BY <1>5 DEF ListDest
  <2>2. l \subseteq Image /\ faults' \in Faults
    BY <2>1, FaultTypes DEF Listing, Present, Faults
  <2>3. add' \in Lists /\ del' \in Lists
    BY <2>1, <2>2
  <2> QED  BY <1>5, <2>2, <2>3 DEF ListDest, Diffed, Faults, sourceVars, daemonVars
<1>6. ASSUME NEW w \in Job, NextAdd(w)
      PROVE  TypeOK'
  <2>1. image' \in [Job -> Image] /\ add' \in Lists /\ again' \in Lists
    <3>1. PICK i \in Image :
             /\ image' = [image EXCEPT ![w] = i]
             /\ \/ add' = [add EXCEPT ![w] = @ \ {i}] /\ again' = again
                \/ again' = [again EXCEPT ![w] = @ \ {i}] /\ add' = add
      <4>1. add[w] \subseteq Image /\ again[w] \subseteq Image
        OBVIOUS
      <4> QED  BY <1>6, <4>1 DEF NextAdd
    <3>2. CASE add' = [add EXCEPT ![w] = @ \ {i}] /\ again' = again
      BY <3>1, <3>2
    <3>3. CASE again' = [again EXCEPT ![w] = @ \ {i}] /\ add' = add
      BY <3>1, <3>3
    <3> QED  BY <3>1, <3>2, <3>3
  <2> QED  BY <1>6, <2>1 DEF NextAdd, sourceVars, daemonVars
<1>7. ASSUME NEW w \in Job, NextDel(w)
      PROVE  TypeOK'
  BY <1>7 DEF NextDel, sourceVars, daemonVars
<1>8. ASSUME NEW w \in Job, RoundDone(w)
      PROVE  TypeOK'
  BY <1>8 DEF RoundDone, sourceVars, daemonVars, listVars
<1>0. ASSUME NEW w \in Job, Calls(w), dest' \in [Target -> Contents],
             localSrc' \in Contents, localDest' \in [Target -> Contents]
      PROVE  TypeOK'
  <2>1. faults' \in Faults /\ UNCHANGED <<src, latest, removed, notices, image, lsrc, add,
                                          again, del, overwrite>>
    BY <1>0, CallEnds, CallFrame
  <2>2. pc' \in [Job -> CallPlaces \cup {"top", "diff", "next", "delete", "died"}]
    BY <1>0, CallFrame
  <2> QED  BY <1>0, <2>1, <2>2 DEF Faults, CallPlaces
<1>9. ASSUME NEW w \in Job, Pull(w) \/ PullFails(w) \/ CallRaises(w)
      PROVE  TypeOK'
  <2>1. /\ dest' \in [Target -> Contents]
        /\ localSrc' \in Contents /\ localDest' \in [Target -> Contents]
    BY <1>9 DEF Pull, PullFails, CallRaises, daemonVars
  <2> QED  BY <1>9, <1>0, <2>1 DEF Calls
<1>10. ASSUME NEW w \in Job, Tag(w)
      PROVE  TypeOK'
  <2>1. localDest' \in [Target -> Contents]
    <3>1. TargetOf[w] \in Target /\ image[w] \in Image /\ localSrc[image[w]] \in Version
      OBVIOUS
    <3>2. [localDest EXCEPT ![TargetOf[w]][image[w]] = localSrc[image[w]]]
             \in [Target -> Contents]
      BY <3>1, TargetTypes
    <3> QED  BY <1>10, <3>2 DEF Tag
  <2>2. dest' = dest /\ localSrc' = localSrc
    BY <1>10 DEF Tag
  <2> QED  BY <1>10, <1>0, <2>1, <2>2 DEF Calls
<1>11. ASSUME NEW w \in Job, Push(w)
      PROVE  TypeOK'
  <2>1. dest' \in [Target -> Contents]
    <3>1. /\ TargetOf[w] \in Target /\ image[w] \in Image
          /\ localDest[TargetOf[w]][image[w]] \in Version
      OBVIOUS
    <3>2. [dest EXCEPT ![TargetOf[w]][image[w]] = localDest[TargetOf[w]][image[w]]]
             \in [Target -> Contents]
      BY <3>1, TargetTypes
    <3> QED  BY <1>11, <3>2 DEF Push
  <2>2. localSrc' = localSrc /\ localDest' = localDest
    BY <1>11 DEF Push, daemonVars
  <2> QED  BY <1>11, <1>0, <2>1, <2>2 DEF Calls
<1>12. ASSUME NEW w \in Job, RemoveSource(w)
      PROVE  TypeOK'
  <2>1. /\ dest' = dest /\ localDest' = localDest
        /\ localSrc' = [localSrc EXCEPT ![image[w]] = NoVersion]
    BY <1>12 DEF RemoveSource
  <2>2. localSrc' \in Contents
    BY <2>1 DEF NoVersion
  <2> QED  BY <1>12, <1>0, <2>1, <2>2 DEF Calls
<1>13. ASSUME NEW w \in Job, RemoveDest(w)
      PROVE  TypeOK'
  <2>1. /\ dest' = dest /\ localSrc' = localSrc
        /\ localDest' = [localDest EXCEPT ![TargetOf[w]][image[w]] = NoVersion]
    BY <1>13 DEF RemoveDest
  <2>2. TargetOf[w] \in Target /\ image[w] \in Image /\ NoVersion \in Version
    BY DEF NoVersion
  <2>3. localDest' \in [Target -> Contents]
    BY <2>1, <2>2, TargetTypes
  <2> QED  BY <1>13, <1>0, <2>1, <2>3 DEF Calls
<1>14. ASSUME NEW w \in Job, Delete(w)
      PROVE  TypeOK'
  <2>1. dest' \in [Target -> Contents]
    <3>1. TargetOf[w] \in Target /\ image[w] \in Image /\ NoVersion \in Version
      BY DEF NoVersion
    <3>2. [dest EXCEPT ![TargetOf[w]][image[w]] = NoVersion] \in [Target -> Contents]
      BY <3>1, TargetTypes
    <3> QED  BY <1>14, <3>2 DEF Delete
  <2>2. faults' \in Faults
    BY <1>14, FaultTypes DEF Delete, Faults
  <2> QED  BY <1>14, <2>1, <2>2 DEF Delete, Goto, Faults, sourceVars, daemonVars, listVars
<1>15. CASE Crash
  <2>1. faults' \in Faults
    BY <1>15, FaultTypes DEF Crash, Faults
  <2> QED  BY <1>15, <2>1 DEF Crash, Faults, sourceVars, daemonVars
<1>16. CASE UNCHANGED vars
  BY <1>16 DEF vars
<1> QED
  BY <1>1, <1>2, <1>3, <1>4, <1>5, <1>6, <1>7, <1>8, <1>9, <1>10, <1>11, <1>12, <1>13,
     <1>14, <1>15, <1>16 DEF Next, Sync

-----------------------------------------------------------------------------
(* Names.                                                                  *)

\* Who changes what the source has.
LEMMA SourceFrame ==
    ASSUME [Next]_vars
    PROVE  \/ \E i \in Image : Publish(i) \/ Withdraw(i)
           \/ src' = src /\ latest' = latest /\ removed' = removed
BY DEF Next, vars, Sync, TaskOverwrite, ListSource, ListDest, Diffed, NextAdd, NextDel,
       RoundDone, Pull, PullFails, Tag, Push, RemoveSource, RemoveDest, CallRaises, Delete,
       Crash, sourceVars

LEMMA SourceStep == TypeOK /\ SourceOK /\ [Next]_vars => SourceOK'
<1> SUFFICES ASSUME TypeOK, SourceOK, [Next]_vars
             PROVE  SourceOK'
  OBVIOUS
<1>1. ASSUME NEW i \in Image, Publish(i)
      PROVE  SourceOK'
  BY <1>1 DEF Publish, SourceOK, TypeOK, Contents
<1>2. ASSUME NEW i \in Image, Withdraw(i)
      PROVE  SourceOK'
  BY <1>2 DEF Withdraw, SourceOK, TypeOK, Contents
<1> QED  BY <1>1, <1>2, SourceFrame DEF SourceOK

\* An image that is gone has been removed, and stays so.
LEMMA KnownStays ==
    ASSUME TypeOK, [Next]_vars
    PROVE  /\ \A i \in Image : Known(i) => Known(i)'
           /\ \A i \in Image : latest'[i] # latest[i] => Known(i)'
<1>1. ASSUME NEW i \in Image, Publish(i)
      PROVE  /\ \A j \in Image : Known(j) => Known(j)'
             /\ \A j \in Image : latest'[j] # latest[j] => Known(j)'
  BY <1>1, BoundAssumption DEF Publish, Known, TypeOK, Contents, Version, NoVersion
<1>2. ASSUME NEW i \in Image, Withdraw(i)
      PROVE  /\ \A j \in Image : Known(j) => Known(j)'
             /\ \A j \in Image : latest'[j] # latest[j] => Known(j)'
  BY <1>2 DEF Withdraw, Known, TypeOK, Contents
<1> QED  BY <1>1, <1>2, SourceFrame DEF Known

\* A name comes from the source's listing or from a notice.
LEMMA NamesStep == TypeOK /\ NamesOK /\ [Next]_vars => NamesOK'
<1> SUFFICES ASSUME TypeOK, NamesOK, [Next]_vars
             PROVE  NamesOK'
  OBVIOUS
<1>1. \A i \in Image : latest'[i] # NoVersion => Known(i)'
  BY KnownStays DEF NamesOK
<1>2. ASSUME /\ notices' \subseteq notices
             /\ \A w \in Job : /\ \A i \in lsrc'[w] \cup add'[w] \cup again'[w]
                                                  \cup overwrite'[w] :
                                     i \in Image /\ Known(i)
                               /\ pc'[w] = "pull" => Known(image'[w])
      PROVE  NamesOK'
  <2>1. TypeOK'
    BY TypeStep
  <2> QED  BY <1>1, <1>2, <2>1, KnownStays DEF NamesOK, TypeOK
<1>3. ASSUME NEW i \in Image, Publish(i)
      PROVE  NamesOK'
  <2>1. \A j \in notices' : Known(j)'
    BY <1>3, KnownStays DEF Publish, NamesOK, Known, TypeOK, Contents, Version, NoVersion
  <2>2. \A j \in Image : Known(j) => Known(j)'
    BY KnownStays
  <2> QED  BY <1>1, <1>3, <2>1, <2>2 DEF Publish, listVars, NamesOK, TypeOK, Lists
<1>4. ASSUME NEW i \in Image, Withdraw(i)
      PROVE  NamesOK'
  BY <1>4, <1>2 DEF Withdraw, listVars, NamesOK, TypeOK, Lists
<1>5. ASSUME NEW i \in Image, TaskOverwrite(i)
      PROVE  NamesOK'
  BY <1>5, <1>2 DEF TaskOverwrite, NamesOK, TypeOK, Lists
<1>6. ASSUME NEW w \in Job, ListSource(w)
      PROVE  NamesOK'
  <2>1. lsrc' \in [Job -> SUBSET Image] /\ \A i \in lsrc'[w] : Known(i)
    BY <1>6 DEF ListSource, Listing, Present, Known, TypeOK, Lists
  <2> QED  BY <1>6, <1>2, <2>1 DEF ListSource, sourceVars, NamesOK, TypeOK, Lists
<1>7. ASSUME NEW w \in Job, ListDest(w)
      PROVE  NamesOK'
  <2>1. /\ add' \in [Job -> SUBSET Image] /\ add'[w] \subseteq lsrc[w]
        /\ \A v \in Job \ {w} : add'[v] = add[v]
    BY <1>7 DEF ListDest, TypeOK, Lists
  <2>2. /\ again' = [again EXCEPT ![w] = overwrite[w]]
        /\ overwrite' = [overwrite EXCEPT ![w] = {}]
        /\ lsrc' = [lsrc EXCEPT ![w] = {}]
        /\ pc' = [pc EXCEPT ![w] = "next"]
        /\ image' = image /\ notices' = notices
    BY <1>7 DEF ListDest, Diffed, sourceVars
  <2> QED  BY <1>2, <2>1, <2>2 DEF NamesOK, TypeOK, Lists
<1>8. ASSUME NEW w \in Job, NextAdd(w)
      PROVE  NamesOK'
  <2>1. PICK i \in add[w] \cup again[w] : image' = [image EXCEPT ![w] = i]
    BY <1>8 DEF NextAdd
  <2>2. \A v \in Job : add'[v] \subseteq add[v] /\ again'[v] \subseteq again[v]
    BY <1>8 DEF NextAdd, TypeOK, Lists
  <2> QED  BY <1>8, <1>2, <2>1, <2>2 DEF NextAdd, sourceVars, NamesOK, TypeOK, Lists
<1>9. ASSUME NEW w \in Job,
             NextDel(w) \/ RoundDone(w) \/ Calls(w) \/ Delete(w)
      PROVE  NamesOK'
  <2>1. /\ UNCHANGED <<lsrc, add, again, overwrite, notices>>
        /\ \A v \in Job : pc'[v] = "pull" => pc[v] = "pull" /\ image'[v] = image[v]
    <3>1. CASE Calls(w)
      BY <3>1, CallFrame
    <3>2. CASE NextDel(w) \/ RoundDone(w) \/ Delete(w)
      BY <3>2 DEF NextDel, RoundDone, Delete, Goto, sourceVars, listVars, TypeOK
    <3> QED  BY <1>9, <3>1, <3>2
  <2> QED  BY <1>2, <2>1 DEF NamesOK, TypeOK, Lists
<1>10. CASE Crash
  BY <1>10, <1>2 DEF Crash, sourceVars, NamesOK
<1>11. CASE UNCHANGED vars
  BY <1>11, <1>2 DEF vars, NamesOK, TypeOK, Lists
<1> QED
  BY <1>3, <1>4, <1>5, <1>6, <1>7, <1>8, <1>9, <1>10, <1>11 DEF Next, Sync, Calls

-----------------------------------------------------------------------------
(* The daemon.                                                             *)

\* The steps that leave alone who is at which image, and the daemon.
Elsewhere(w) ==
    ListSource(w) \/ ListDest(w) \/ NextAdd(w) \/ NextDel(w) \/ RoundDone(w) \/ Delete(w)

\* A worker that holds an image goes on with it, step by step.
LEMMA ElsewhereFrame ==
    ASSUME TypeOK, NEW w \in Job, Elsewhere(w)
    PROVE  /\ localSrc' = localSrc /\ localDest' = localDest
           /\ faults'.crash = faults.crash
           /\ pc[w] \in {"top", "diff", "next", "delete"}
           /\ pc'[w] \in {"top", "diff", "next", "pull", "delete"}
           /\ \A v \in Job \ {w} : pc'[v] = pc[v] /\ image'[v] = image[v]
<1>1. faults'.crash = faults.crash
  BY FaultTypes DEF Elsewhere, ListSource, ListDest, Diffed, Listing, NextAdd, NextDel,
                    RoundDone, Delete, TypeOK, Faults
<1>2. localSrc' = localSrc /\ localDest' = localDest
  BY DEF Elsewhere, ListSource, ListDest, Diffed, NextAdd, NextDel, RoundDone, Delete,
         daemonVars
<1>3. /\ pc[w] \in {"top", "diff", "next", "delete"}
      /\ pc'[w] \in {"top", "diff", "next", "pull", "delete"}
      /\ \A v \in Job \ {w} : pc'[v] = pc[v] /\ image'[v] = image[v]
  BY DEF Elsewhere, ListSource, ListDest, Diffed, NextAdd, NextDel, RoundDone, Delete, Goto,
         TypeOK
<1> QED  BY <1>1, <1>2, <1>3

\* Who comes to hold an image, and who lets go of it.
LEMMA HeldStep == TypeOK /\ HeldOK /\ [Next]_vars => HeldOK'
<1> SUFFICES ASSUME TypeOK, HeldOK, [Next]_vars
             PROVE  HeldOK'
  OBVIOUS
<1> USE TargetAssumption
<1>1. ASSUME NEW w \in Job, Elsewhere(w)
      PROVE  HeldOK'
  BY <1>1, ElsewhereFrame DEF HeldOK, HeldSource, HeldDest
<1>2. ASSUME UNCHANGED <<localSrc, localDest, pc, image, faults>>
      PROVE  HeldOK'
  BY <1>2 DEF HeldOK, HeldSource, HeldDest
<1>3. ASSUME NEW w \in Job, Pull(w)
      PROVE  HeldOK'
  <2> SUFFICES ASSUME faults.crash = 0, NEW i \in Image
               PROVE  /\ localSrc'[i] # NoVersion => HeldSource(i)'
                      /\ \A t \in Target : localDest'[t][i] # NoVersion => HeldDest(t, i)'
    BY <1>3, CallEnds DEF HeldOK, Calls
  <2>1. /\ pc[w] = "pull" /\ pc'[w] \in {"tag", "died"}
        /\ \A v \in Job \ {w} : pc'[v] = pc[v]
        /\ image' = image
    BY <1>3, CallFrame DEF Calls, Pull, After
  <2>2. /\ localDest' = localDest
        /\ i # image[w] => localSrc'[i] = localSrc[i]
    BY <1>3 DEF Pull, TypeOK, Contents
  <2> QED  BY <2>1, <2>2 DEF HeldOK, HeldSource, HeldDest, TypeOK
<1>10. ASSUME NEW w \in Job, PullFails(w) \/ CallRaises(w)
       PROVE  HeldOK'
  <2>1. /\ faults'.crash = faults.crash /\ image' = image
        /\ pc'[w] \in {After(pc[w]), "died"} /\ \A v \in Job \ {w} : pc'[v] = pc[v]
    BY <1>10, CallEnds, CallFrame DEF Calls
  <2>2. localSrc' = localSrc /\ localDest' = localDest
    BY <1>10 DEF PullFails, CallRaises, daemonVars
  <2>3. pc[w] \in CallPlaces /\ (pc[w] = "pull" \/ pc'[w] = "died")
    BY <1>10 DEF PullFails, CallRaises, CallPlaces, Goto, TypeOK
  <2> QED  BY <2>1, <2>2, <2>3 DEF HeldOK, HeldSource, HeldDest, After, CallPlaces
<1>4. ASSUME NEW w \in Job, Tag(w)
      PROVE  HeldOK'
  <2> SUFFICES ASSUME faults.crash = 0, NEW i \in Image
               PROVE  /\ localSrc'[i] # NoVersion => HeldSource(i)'
                      /\ \A t \in Target : localDest'[t][i] # NoVersion => HeldDest(t, i)'
    BY <1>4, CallEnds DEF HeldOK, Calls
  <2>1. /\ pc[w] = "tag" /\ pc'[w] \in {"push", "died"}
        /\ \A v \in Job \ {w} : pc'[v] = pc[v]
        /\ image' = image /\ localSrc' = localSrc
    BY <1>4, CallFrame DEF Calls, Tag, After
  <2>2. \A t \in Target : \/ localDest'[t][i] = localDest[t][i]
                          \/ t = TargetOf[w] /\ i = image[w]
    BY <1>4 DEF Tag, TypeOK, Contents
  <2>3. localSrc'[i] # NoVersion => HeldSource(i)'
    BY <2>1 DEF HeldOK, HeldSource
  <2>4. ASSUME NEW t \in Target, localDest'[t][i] # NoVersion
        PROVE  HeldDest(t, i)'
    <3>1. CASE t = TargetOf[w] /\ i = image[w]
      BY <2>1, <3>1 DEF HeldDest
    <3>2. CASE localDest'[t][i] = localDest[t][i]
      <4>1. PICK v \in Job : /\ TargetOf[v] = t /\ image[v] = i
                             /\ pc[v] \in {"push", "rmsrc", "rmdest", "died"}
        BY <2>4, <3>2 DEF HeldOK, HeldDest
      <4>2. v # w
        BY <2>1, <4>1
      <4> QED  BY <2>1, <4>1, <4>2 DEF HeldDest
    <3> QED  BY <2>2, <3>1, <3>2
  <2> QED  BY <2>3, <2>4
<1>5. ASSUME NEW w \in Job, Push(w)
      PROVE  HeldOK'
  <2>1. faults'.crash = faults.crash
    BY <1>5, CallEnds DEF Calls
  <2>2. /\ pc[w] = "push" /\ pc'[w] \in {"rmsrc", "died"}
        /\ \A v \in Job \ {w} : pc'[v] = pc[v]
        /\ image' = image /\ localSrc' = localSrc /\ localDest' = localDest
    BY <1>5, CallFrame DEF Calls, Push, After, daemonVars
  <2> QED  BY <2>1, <2>2 DEF HeldOK, HeldSource, HeldDest, TypeOK
<1>6. ASSUME NEW w \in Job, RemoveSource(w)
      PROVE  HeldOK'
  <2> SUFFICES ASSUME faults.crash = 0, NEW i \in Image
               PROVE  /\ localSrc'[i] # NoVersion => HeldSource(i)'
                      /\ \A t \in Target : localDest'[t][i] # NoVersion => HeldDest(t, i)'
    BY <1>6, CallEnds DEF HeldOK, Calls
  <2>1. /\ pc[w] = "rmsrc" /\ pc'[w] \in {"rmdest", "died"}
        /\ \A v \in Job \ {w} : pc'[v] = pc[v]
        /\ image' = image /\ localDest' = localDest
    BY <1>6, CallFrame DEF Calls, RemoveSource, After
  <2>2. localSrc'[i] # NoVersion => i # image[w] /\ localSrc'[i] = localSrc[i]
    BY <1>6 DEF RemoveSource, TypeOK, Contents
  <2> QED  BY <2>1, <2>2 DEF HeldOK, HeldSource, HeldDest, TypeOK
<1>7. ASSUME NEW w \in Job, RemoveDest(w)
      PROVE  HeldOK'
  <2> SUFFICES ASSUME faults.crash = 0, NEW i \in Image
               PROVE  /\ localSrc'[i] # NoVersion => HeldSource(i)'
                      /\ \A t \in Target : localDest'[t][i] # NoVersion => HeldDest(t, i)'
    BY <1>7, CallEnds DEF HeldOK, Calls
  <2>1. /\ pc[w] = "rmdest" /\ pc'[w] \in {"next", "died"}
        /\ \A v \in Job \ {w} : pc'[v] = pc[v]
        /\ image' = image /\ localSrc' = localSrc
    BY <1>7, CallFrame DEF Calls, RemoveDest, After
  <2>2. \A t \in Target : localDest'[t][i] # NoVersion =>
           /\ ~(t = TargetOf[w] /\ i = image[w])
           /\ localDest'[t][i] = localDest[t][i]
    BY <1>7 DEF RemoveDest, TypeOK, Contents
  <2>3. ASSUME localSrc'[i] # NoVersion
        PROVE  HeldSource(i)'
    <3>1. PICK v \in Job : image[v] = i /\ pc[v] \in {"tag", "push", "rmsrc", "died"}
      BY <2>1, <2>3 DEF HeldOK, HeldSource
    <3> QED  BY <2>1, <3>1 DEF HeldSource
  <2>4. ASSUME NEW t \in Target, localDest'[t][i] # NoVersion
        PROVE  HeldDest(t, i)'
    <3>1. PICK v \in Job : /\ TargetOf[v] = t /\ image[v] = i
                           /\ pc[v] \in {"push", "rmsrc", "rmdest", "died"}
      BY <2>2, <2>4 DEF HeldOK, HeldDest
    <3>2. v # w
      BY <2>2, <2>4, <3>1
    <3> QED  BY <2>1, <3>1, <3>2 DEF HeldDest
  <2> QED  BY <2>3, <2>4
<1>8. CASE Crash
  BY <1>8, BoundAssumption DEF Crash, HeldOK, TypeOK
<1>9. ASSUME NEW i \in Image, Publish(i) \/ Withdraw(i) \/ TaskOverwrite(i)
      PROVE  HeldOK'
  BY <1>2, <1>9 DEF Publish, Withdraw, TaskOverwrite, daemonVars
<1> QED
  BY <1>1, <1>2, <1>3, <1>4, <1>5, <1>6, <1>7, <1>8, <1>9, <1>10 DEF Next, Sync, Elsewhere,
     vars

-----------------------------------------------------------------------------
(* Ages.                                                                   *)

\* The contents are numbers.
LEMMA Numbers ==
    ASSUME TypeOK, NEW t \in Target, NEW i \in Image
    PROVE  /\ dest[t][i] \in Nat /\ localDest[t][i] \in Nat /\ localSrc[i] \in Nat
           /\ latest[i] \in Nat /\ src[i] \in Nat
BY BoundAssumption DEF TypeOK, Contents, Version

\* Every step of an image is to a content at least as new.
LEMMA AgeStep == TypeOK /\ SourceOK /\ AgeOK /\ [Next]_vars => AgeOK'
<1> SUFFICES ASSUME TypeOK, SourceOK, AgeOK, [Next]_vars, NEW t \in Target, NEW i \in Image
             PROVE  Aged(t, i)'
  BY DEF AgeOK
<1> USE TargetAssumption, Numbers DEF NoVersion
<1>1. Aged(t, i)
  BY DEF AgeOK
<1>2. ASSUME UNCHANGED <<latest, dest, localSrc, localDest>>
      PROVE  Aged(t, i)'
  BY <1>1, <1>2 DEF Aged
<1>3. ASSUME NEW j \in Image, Publish(j)
      PROVE  Aged(t, i)'
  <2>1. latest'[i] \in {latest[i], latest[i] + 1}
    BY <1>3 DEF Publish, TypeOK, Contents
  <2> QED  BY <1>1, <1>3, <2>1 DEF Publish, daemonVars, Aged
<1>4. ASSUME NEW w \in Job, Pull(w)
      PROVE  Aged(t, i)'
  <2>1. localSrc'[i] \in {localSrc[i], latest[i]}
    BY <1>4 DEF Pull, SourceOK, TypeOK, Contents
  <2> QED  BY <1>1, <1>4, <2>1 DEF Pull, sourceVars, Aged
<1>5. ASSUME NEW w \in Job, Tag(w)
      PROVE  Aged(t, i)'
  <2>1. localDest'[t][i] # localDest[t][i] =>
           localDest'[t][i] = localSrc[i] /\ localSrc[i] # NoVersion
    <3>1. PICK u \in Target, j \in Image, c \in {localSrc[image[w]]} :
             u = TargetOf[w] /\ j = image[w] /\ c = localSrc[j]
      BY DEF TypeOK
    <3>2. CASE c = NoVersion
      BY <1>5, <3>1, <3>2 DEF Tag
    <3>3. CASE c # NoVersion
      <4>1. localDest' = [localDest EXCEPT ![u][j] = c]
        BY <1>5, <3>1, <3>3 DEF Tag
      <4>2. localDest \in [Target -> Contents]
        BY DEF TypeOK
      <4>3. localDest'[t][i] = IF t = u /\ i = j THEN c ELSE localDest[t][i]
        <5>1. localDest'[t] = IF t = u THEN [localDest[t] EXCEPT ![j] = c] ELSE localDest[t]
          BY ONLY <4>1, <4>2, t \in Target, u \in Target
        <5>2. localDest[t] \in [Image -> Version]
          BY ONLY <4>2, t \in Target DEF Contents
        <5> QED  BY ONLY <5>1, <5>2, i \in Image, j \in Image
      <4> QED  BY <3>1, <3>3, <4>3
    <3> QED  BY <3>2, <3>3
  <2> QED  BY <1>1, <1>5, <2>1 DEF Tag, sourceVars, Aged
<1>6. ASSUME NEW w \in Job, Push(w)
      PROVE  Aged(t, i)'
  <2>1. dest'[t][i] # dest[t][i] =>
           dest'[t][i] = localDest[t][i] /\ localDest[t][i] # NoVersion
    <3>1. PICK u \in Target, j \in Image, c \in {localDest[TargetOf[w]][image[w]]} :
             u = TargetOf[w] /\ j = image[w]
      BY DEF TypeOK
    <3>2. dest \in [Target -> Contents]
      BY DEF TypeOK
    <3>3. CASE dest' = dest
      BY <3>3
    <3>4. CASE dest' = [dest EXCEPT ![u][j] = c] /\ c # NoVersion
      <4>1. dest'[t] = IF t = u THEN [dest[t] EXCEPT ![j] = c] ELSE dest[t]
        BY ONLY <3>2, <3>4, t \in Target, u \in Target
      <4>2. dest[t] \in [Image -> Version]
        BY ONLY <3>2, t \in Target DEF Contents
      <4>3. dest'[t][i] = IF t = u /\ i = j THEN c ELSE dest[t][i]
        BY ONLY <4>1, <4>2, i \in Image, j \in Image
      <4> QED  BY <3>1, <3>4, <4>3
    <3>5. \/ dest' = dest
          \/ c # NoVersion /\ dest' = [dest EXCEPT ![u][j] = c]
      BY <1>6, <3>1 DEF Push
    <3> QED  BY <3>3, <3>4, <3>5
  <2> QED  BY <1>1, <1>6, <2>1 DEF Push, sourceVars, daemonVars, Aged
<1>7. ASSUME NEW w \in Job, RemoveSource(w)
      PROVE  Aged(t, i)'
  <2>1. localSrc'[i] \in {localSrc[i], NoVersion}
    BY <1>7 DEF RemoveSource, TypeOK, Contents
  <2> QED  BY <1>1, <1>7, <2>1 DEF RemoveSource, sourceVars, Aged
<1>8. ASSUME NEW w \in Job, RemoveDest(w)
      PROVE  Aged(t, i)'
  <2>1. localDest'[t][i] \in {localDest[t][i], NoVersion}
    BY <1>8 DEF RemoveDest, TypeOK, Contents
  <2> QED  BY <1>1, <1>8, <2>1 DEF RemoveDest, sourceVars, Aged
<1>9. ASSUME NEW w \in Job, Delete(w)
      PROVE  Aged(t, i)'
  <2>1. dest'[t][i] \in {dest[t][i], NoVersion}
    <3>1. PICK u \in Target, j \in Image, c \in {NoVersion} :
             u = TargetOf[w] /\ j = image[w]
      BY DEF TypeOK
    <3>2. dest \in [Target -> Contents]
      BY DEF TypeOK
    <3>3. CASE dest' = dest
      BY <3>3
    <3>4. CASE dest' = [dest EXCEPT ![u][j] = c]
      <4>1. dest'[t] = IF t = u THEN [dest[t] EXCEPT ![j] = c] ELSE dest[t]
        BY ONLY <3>2, <3>4, t \in Target, u \in Target
      <4>2. dest[t] \in [Image -> Version]
        BY ONLY <3>2, t \in Target DEF Contents
      <4>3. dest'[t][i] = IF t = u /\ i = j THEN c ELSE dest[t][i]
        BY ONLY <4>1, <4>2, i \in Image, j \in Image
      <4> QED  BY <3>1, <4>3
    <3>5. dest' = dest \/ dest' = [dest EXCEPT ![u][j] = c]
      BY <1>9, <3>1 DEF Delete
    <3> QED  BY <3>3, <3>4, <3>5
  <2> QED  BY <1>1, <1>9, <2>1 DEF Delete, sourceVars, daemonVars, Aged
<1>10. ASSUME NEW w \in Job,
              ListSource(w) \/ ListDest(w) \/ NextAdd(w) \/ NextDel(w) \/ RoundDone(w)
                \/ PullFails(w) \/ CallRaises(w)
       PROVE  Aged(t, i)'
  BY <1>2, <1>10 DEF ListSource, ListDest, Diffed, NextAdd, NextDel, RoundDone, PullFails,
                     CallRaises, sourceVars, daemonVars
<1>11. ASSUME NEW j \in Image, Withdraw(j) \/ TaskOverwrite(j)
       PROVE  Aged(t, i)'
  BY <1>2, <1>11 DEF Withdraw, TaskOverwrite, daemonVars
<1>12. CASE Crash
  BY <1>2, <1>12 DEF Crash, sourceVars, daemonVars
<1>13. CASE UNCHANGED vars
  BY <1>2, <1>13 DEF vars
<1> QED
  BY <1>3, <1>4, <1>5, <1>6, <1>7, <1>8, <1>9, <1>10, <1>11, <1>12, <1>13 DEF Next, Sync

-----------------------------------------------------------------------------
(* The invariant, and what holds whoever the targets belong to.            *)

LEMMA IndInit == Init => IndInv
<1> SUFFICES ASSUME Init
             PROVE  IndInv
  OBVIOUS
<1>1. TypeOK
  BY TypeInit
<1>2. SourceOK /\ NamesOK
  BY DEF Init, SourceOK, NamesOK, Known
<1>3. HeldOK
  BY DEF Init, HeldOK
<1>4. AgeOK
  <2> SUFFICES ASSUME NEW t \in Target, NEW i \in Image
               PROVE  Aged(t, i)
    BY DEF AgeOK
  <2>1. latest[i] \in Nat
    BY <1>1, Numbers
  <2>2. dest[t][i] = NoVersion /\ localDest[t][i] = NoVersion /\ localSrc[i] = NoVersion
    BY DEF Init
  <2> QED  BY <2>1, <2>2 DEF Aged, NoVersion
<1> QED  BY <1>1, <1>2, <1>3, <1>4 DEF IndInv

LEMMA IndStep == IndInv /\ [Next]_vars => IndInv'
BY TypeStep, SourceStep, NamesStep, HeldStep, AgeStep DEF IndInv

LEMMA Inductive == Spec => []IndInv
BY IndInit, IndStep, PTL DEF Spec

\* Every variable keeps its type: the worker's lists hold images, contents are
\* within what was published, and a worker is at a step of its round.
THEOREM TypeCorrect == Spec => []TypeOK
<1>1. IndInv => TypeOK
  BY DEF IndInv
<1> QED  BY <1>1, Inductive, PTL

\* Without a crash, when all workers are between two images, the daemon holds
\* no image: add_one_repository removes what it pulled and what it tagged, and
\* workers that copy one image at the same time do not leave it to each other.
THEOREM Clean == Spec => []DaemonClean
<1>1. IndInv => DaemonClean
  <2> SUFFICES ASSUME IndInv, faults.crash = 0,
                      \A w \in Job : pc[w] \in {"top", "diff", "next"}
               PROVE  /\ Present(localSrc) = {}
                      /\ \A t \in Target : Present(localDest[t]) = {}
    BY DEF DaemonClean, IndInv
  <2>1. \A i \in Image : ~HeldSource(i) /\ \A t \in Target : ~HeldDest(t, i)
    BY DEF HeldSource, HeldDest
  <2> QED  BY <2>1 DEF IndInv, HeldOK, Present
<1> QED  BY <1>1, Inductive, PTL

-----------------------------------------------------------------------------
(* One task for each target.                                               *)

\* Another worker's steps leave this one where it is, and its target's images
\* in the daemon and in the target alone.
LEMMA OthersFrame ==
    ASSUME OneTaskEach, TypeOK, NEW v \in Job, Sync(v), NEW w \in Job, w # v
    PROVE  /\ pc'[w] = pc[w] /\ image'[w] = image[w] /\ lsrc'[w] = lsrc[w]
           /\ del'[w] = del[w]
           /\ localDest'[TargetOf[w]] = localDest[TargetOf[w]]
           /\ dest'[TargetOf[w]] = dest[TargetOf[w]]
<1> USE TargetAssumption
<1>1. TargetOf[v] # TargetOf[w] /\ TargetOf[w] \in Target
  BY DEF OneTaskEach
<1>2. pc'[w] = pc[w] /\ image'[w] = image[w] /\ lsrc'[w] = lsrc[w] /\ del'[w] = del[w]
  <2>1. CASE Calls(v)
    BY <2>1, CallFrame
  <2>2. CASE Elsewhere(v)
    BY <2>2 DEF Elsewhere, TypeOK, Lists, ListSource, ListDest, Diffed, NextAdd, NextDel,
                RoundDone, Delete, Goto, listVars
  <2> QED  BY <2>1, <2>2 DEF Sync, Calls, Elsewhere
<1>3. localDest'[TargetOf[w]] = localDest[TargetOf[w]]
  BY <1>1 DEF Sync, TypeOK, ListSource, ListDest, Diffed, NextAdd, NextDel, RoundDone, Pull,
         PullFails, Tag, Push, RemoveSource, RemoveDest, CallRaises, Delete, daemonVars
<1>4. dest'[TargetOf[w]] = dest[TargetOf[w]]
  BY <1>1 DEF Sync, TypeOK, ListSource, ListDest, Diffed, NextAdd, NextDel, RoundDone, Pull,
         PullFails, Tag, Push, RemoveSource, RemoveDest, CallRaises, Delete
<1> QED  BY <1>2, <1>3, <1>4

\* The steps that no worker takes, but the crash.
LEMMA SourceSideFrame ==
    ASSUME NEW i \in Image, Publish(i) \/ Withdraw(i) \/ TaskOverwrite(i)
    PROVE  /\ UNCHANGED <<pc, image, dest, localSrc, localDest, lsrc, del, faults>>
           /\ removed \subseteq removed'
BY DEF Publish, Withdraw, TaskOverwrite, daemonVars, listVars

\* Only the worker itself removes what it has tagged.
LEMMA TagStep ==
    ASSUME OneTaskEach
    PROVE  TypeOK /\ TagOK /\ [Next]_vars => TagOK'
<1> SUFFICES ASSUME TypeOK, TagOK, [Next]_vars, NEW w \in Job,
                    pc'[w] \in {"push", "rmsrc", "rmdest"}
             PROVE  localDest'[TargetOf[w]][image'[w]] # NoVersion
  BY DEF TagOK
<1>1. ASSUME NEW v \in Job, Sync(v), v # w
      PROVE  localDest'[TargetOf[w]][image'[w]] # NoVersion
  BY <1>1, OthersFrame DEF TagOK
<1>2. CASE Tag(w)
  <2>1. /\ image' = image /\ localSrc[image[w]] # NoVersion
        /\ localDest' = [localDest EXCEPT ![TargetOf[w]][image[w]] = localSrc[image[w]]]
    BY <1>2, CallFrame DEF Calls, Tag, Goto, TypeOK
  <2> QED  BY <2>1, TargetAssumption DEF TypeOK, Contents
<1>3. CASE Push(w) \/ RemoveSource(w)
  <2>1. image' = image /\ localDest' = localDest /\ pc[w] \in {"push", "rmsrc"}
    BY <1>3, CallFrame DEF Calls, Push, RemoveSource, daemonVars
  <2> QED  BY <2>1 DEF TagOK
<1>4. CASE Elsewhere(w)
  BY <1>4, ElsewhereFrame
<1>5. CASE Pull(w) \/ PullFails(w) \/ RemoveDest(w) \/ CallRaises(w)
  <2>1. CASE Pull(w) \/ PullFails(w) \/ RemoveDest(w)
    <3>1. pc[w] \in {"pull", "rmdest"}
      BY <2>1 DEF Pull, PullFails, RemoveDest
    <3> QED  BY <2>1, <3>1, CallFrame DEF Calls, After
  <2>2. CASE CallRaises(w)
    BY <2>2 DEF CallRaises, Goto, TypeOK
  <2> QED  BY <1>5, <2>1, <2>2
<1>6. CASE Crash
  BY <1>6 DEF Crash
<1>7. CASE UNCHANGED vars
  BY <1>7 DEF vars, TagOK
<1>8. ASSUME NEW i \in Image, Publish(i) \/ Withdraw(i) \/ TaskOverwrite(i)
      PROVE  localDest'[TargetOf[w]][image'[w]] # NoVersion
  BY <1>8, SourceSideFrame DEF TagOK
<1> QED
  BY <1>1, <1>2, <1>3, <1>4, <1>5, <1>6, <1>7, <1>8 DEF Next, Sync, Elsewhere

\* Calls that failed are not forgotten either.
LEMMA CallFaultsStay ==
    ASSUME TypeOK, [Next]_vars, faults'.call = 0
    PROVE  ~(faults.call > 0)
<1>1. ASSUME NEW w \in Job, Calls(w)
      PROVE  faults.call > 0 => faults'.call > 0
  BY <1>1, CallEnds
<1>2. ASSUME NEW w \in Job, ListSource(w) \/ ListDest(w) \/ Delete(w)
      PROVE  faults'.call = faults.call
  BY <1>2, FaultTypes DEF ListSource, ListDest, Listing, Delete, TypeOK, Faults
<1>3. CASE Crash
  BY <1>3 DEF Crash, TypeOK
<1>4. CASE faults' = faults
  BY <1>4
<1> QED
  BY <1>1, <1>2, <1>3, <1>4 DEF Next, Sync, Calls, NextAdd, NextDel, RoundDone, Publish,
     Withdraw, TaskOverwrite, vars

\* The source's images only leave the daemon by a worker that goes on.
LEMMA GoesOnStep ==
    TypeOK /\ NamesOK /\ TagOK /\ SomeGoesOn /\ [Next]_vars => SomeGoesOn'
<1> SUFFICES ASSUME TypeOK, NamesOK, TagOK, SomeGoesOn, [Next]_vars
             PROVE  SomeGoesOn'
  OBVIOUS
<1>0. SUFFICES ASSUME faults'.call = 0
               PROVE  SomeGoesOn'
  BY TypeStep DEF SomeGoesOn, TypeOK
<1>1. PICK w \in Job : GoesOn(w)
  BY <1>0, CallFaultsStay DEF SomeGoesOn
<1>2. removed \subseteq removed'
  BY SourceFrame DEF Publish, Withdraw
<1>3. ASSUME pc'[w] = pc[w], image'[w] = image[w],
             localSrc[image[w]] # NoVersion => localSrc'[image[w]] # NoVersion
      PROVE  SomeGoesOn'
  BY <1>1, <1>2, <1>3 DEF SomeGoesOn, GoesOn
<1>4. ASSUME NEW v \in Job, Elsewhere(v)
      PROVE  SomeGoesOn'
  <2>1. CASE v = w
    BY <1>4, <2>1, ElsewhereFrame DEF SomeGoesOn, GoesOn
  <2>2. CASE v # w
    BY <1>3, <1>4, <2>2, ElsewhereFrame
  <2> QED  BY <2>1, <2>2
<1>5. ASSUME NEW v \in Job, Pull(v) \/ PullFails(v)
      PROVE  SomeGoesOn'
  <2>1. /\ pc[v] = "pull" /\ pc' = [pc EXCEPT ![v] = "tag"] /\ image' = image
    <3>1. pc[v] = "pull"
      BY <1>5 DEF Pull, PullFails
    <3> QED  BY <1>0, <1>5, <3>1, CallEnds, CallFrame DEF Calls, After
  <2>4. /\ localSrc[image[w]] # NoVersion => localSrc'[image[w]] # NoVersion
        /\ src[image[v]] # NoVersion => localSrc'[image[v]] # NoVersion
    <3>1. CASE Pull(v)
      BY <3>1 DEF Pull, TypeOK, Contents
    <3>2. CASE PullFails(v)
      <4>1. CallFault.call > 0
        BY <3>2, <1>0, FaultTypes DEF PullFails, TypeOK, Faults, CallFault
      <4> QED  BY <1>0, <3>2, <4>1 DEF PullFails, daemonVars
    <3> QED  BY <1>5, <3>1, <3>2
  <2>2. CASE v = w
    <3>1. Known(image[v])
      BY <2>1 DEF NamesOK
    <3>2. GoesOn(w)'
      BY <1>2, <2>1, <2>2, <2>4, <3>1 DEF Known, GoesOn, TypeOK
    <3> QED  BY <3>2 DEF SomeGoesOn
  <2>3. CASE v # w
    BY <1>3, <2>1, <2>3, <2>4 DEF TypeOK
  <2> QED  BY <2>2, <2>3
<1>6. ASSUME NEW v \in Job, Tag(v)
      PROVE  SomeGoesOn'
  <2>1. /\ pc[v] = "tag" /\ image' = image /\ localSrc' = localSrc
        /\ pc' = [pc EXCEPT ![v] = IF localSrc[image[v]] = NoVersion THEN "died" ELSE "push"]
    BY <1>0, <1>6, CallEnds, CallFrame DEF Calls, Tag, After, Goto
  <2>2. CASE v = w
    <3>1. GoesOn(w)'
      BY <1>1, <1>2, <2>1, <2>2 DEF GoesOn, TypeOK
    <3> QED  BY <3>1 DEF SomeGoesOn
  <2>3. CASE v # w
    BY <1>3, <2>1, <2>3 DEF TypeOK
  <2> QED  BY <2>2, <2>3
<1>7. ASSUME NEW v \in Job, Push(v)
      PROVE  SomeGoesOn'
  <2>1. /\ pc[v] = "push" /\ image' = image /\ localSrc' = localSrc
        /\ pc' = [pc EXCEPT ![v] = "rmsrc"]
    BY <1>0, <1>7, CallEnds, CallFrame DEF Calls, Push, After, daemonVars
  <2>2. CASE v = w
    <3>1. GoesOn(w)'
      BY <1>1, <2>1, <2>2 DEF GoesOn, TypeOK
    <3> QED  BY <3>1 DEF SomeGoesOn
  <2>3. CASE v # w
    BY <1>3, <2>1, <2>3 DEF TypeOK
  <2> QED  BY <2>2, <2>3
<1>8. ASSUME NEW v \in Job, RemoveSource(v)
      PROVE  SomeGoesOn'
  <2>1. /\ pc[v] = "rmsrc" /\ image' = image
        /\ localSrc' = [localSrc EXCEPT ![image[v]] = NoVersion]
        /\ pc' = [pc EXCEPT ![v] =
                    IF localSrc[image[v]] = NoVersion THEN "died" ELSE "rmdest"]
    <3>1. /\ pc[v] = "rmsrc" /\ Removed(v, localSrc[image[v]], "rmdest")
          /\ localSrc' = [localSrc EXCEPT ![image[v]] = NoVersion]
      BY <1>8 DEF RemoveSource
    <3>2. image' = image
      BY <1>8, CallFrame DEF Calls
    <3>3. CASE localSrc[image[v]] = NoVersion
      BY <3>1, <3>2, <3>3 DEF Removed, Goto
    <3>4. CASE localSrc[image[v]] # NoVersion
      <4>1. pc' = [pc EXCEPT ![v] = "rmdest"]
        BY <1>0, <1>8, <3>1, <3>4, CallEnds DEF Calls, After
      <4> QED  BY <3>1, <3>2, <3>4, <4>1
    <3> QED  BY <3>3, <3>4
  <2>2. CASE localSrc[image[v]] # NoVersion
    BY <2>1, <2>2 DEF SomeGoesOn, GoesOn, TypeOK
  <2>3. CASE localSrc[image[v]] = NoVersion
    <3>1. v # w
      BY <1>1, <2>1, <2>3 DEF GoesOn
    <3>2. localSrc' = localSrc
      BY <2>1, <2>3 DEF TypeOK, Contents
    <3> QED  BY <1>3, <2>1, <3>1, <3>2 DEF TypeOK
  <2> QED  BY <2>2, <2>3
<1>9. ASSUME NEW v \in Job, RemoveDest(v)
      PROVE  SomeGoesOn'
  <2>1. /\ pc[v] = "rmdest" /\ image' = image /\ localSrc' = localSrc
        /\ pc' = [pc EXCEPT ![v] = "next"]
    <3>1. pc[v] = "rmdest" /\ localSrc' = localSrc
      BY <1>9 DEF RemoveDest
    <3>2. image' = image
      BY <1>9, CallFrame DEF Calls
    <3>3. localDest[TargetOf[v]][image[v]] # NoVersion
      BY <3>1 DEF TagOK
    <3> QED  BY <1>0, <1>9, <3>1, <3>2, <3>3, CallEnds DEF Calls, After
  <2> QED  BY <2>1 DEF SomeGoesOn, GoesOn, TypeOK
<1>10. CASE Crash
  BY <1>1, <1>10 DEF Crash, SomeGoesOn, GoesOn
<1>11. ASSUME NEW i \in Image, Publish(i) \/ Withdraw(i) \/ TaskOverwrite(i)
       PROVE  SomeGoesOn'
  BY <1>3, <1>11, SourceSideFrame
<1>12. CASE UNCHANGED vars
  BY <1>3, <1>12 DEF vars
<1>13. ASSUME NEW v \in Job, CallRaises(v)
       PROVE  FALSE
  BY <1>0, <1>13, FaultTypes DEF CallRaises, TypeOK, Faults
<1> QED
  BY <1>4, <1>5, <1>6, <1>7, <1>8, <1>9, <1>10, <1>11, <1>12, <1>13 DEF Next, Sync, Elsewhere

\* Listings that failed are not forgotten.
LEMMA ListFaultsStay ==
    ASSUME TypeOK, [Next]_vars, faults'.list = 0
    PROVE  faults.list = 0
<1>1. ASSUME NEW w \in Job, ListSource(w)
      PROVE  faults.list = 0
  BY <1>1, FaultTypes DEF ListSource, Listing, TypeOK, Faults
<1>2. ASSUME NEW w \in Job, ListDest(w)
      PROVE  faults.list = 0
  BY <1>2, FaultTypes DEF ListDest, Listing, TypeOK, Faults
<1>3. ASSUME NEW w \in Job, Calls(w) \/ Delete(w)
      PROVE  faults.list = 0
  BY <1>3, FaultTypes, CallEnds DEF Delete, TypeOK, Faults
<1>4. CASE Crash
  BY <1>4 DEF Crash, TypeOK
<1>5. CASE faults' = faults
  BY <1>5
<1> QED
  BY <1>1, <1>2, <1>3, <1>4, <1>5 DEF Next, Sync, Calls, NextAdd, NextDel, RoundDone,
     Publish, Withdraw, TaskOverwrite, vars

\* What is missing in the source's listing was removed from it, and only the
\* worker itself adds to its target afterwards.
LEMMA DeleteStep ==
    ASSUME OneTaskEach
    PROVE  IndInv /\ DeleteOK /\ [Next]_vars => DeleteOK'
<1> DEFINE Sound(w) ==
      /\ pc[w] = "diff" =>
            \A i \in Image \ lsrc[w] : dest[TargetOf[w]][i] # NoVersion => i \in removed
      /\ del[w] \subseteq removed
      /\ pc[w] = "delete" => image[w] \in removed
<1> SUFFICES ASSUME IndInv, DeleteOK, [Next]_vars, faults'.list = 0, NEW w \in Job
             PROVE  Sound(w)'
  BY DEF DeleteOK
<1>1. TypeOK /\ faults.list = 0
  BY ListFaultsStay DEF IndInv
<1>2. Sound(w)
  BY <1>1 DEF DeleteOK
<1>3. removed \subseteq removed'
  BY SourceFrame DEF Publish, Withdraw
<1>4. ASSUME UNCHANGED <<pc, image, dest, lsrc, del>>
      PROVE  Sound(w)'
  BY <1>2, <1>3, <1>4
<1>5. ASSUME NEW v \in Job, Sync(v), v # w
      PROVE  Sound(w)'
  BY <1>1, <1>2, <1>3, <1>5, OthersFrame
<1>6. CASE ListSource(w)
  <2>1. /\ lsrc' = [lsrc EXCEPT ![w] = Present(src)]
        /\ pc' = [pc EXCEPT ![w] = "diff"] /\ UNCHANGED <<dest, removed, del, image>>
    <3>1. PICK l : Listing(src, l) /\ lsrc' = [lsrc EXCEPT ![w] = l]
      BY <1>6 DEF ListSource
    <3>2. l = Present(src)
      BY <1>1, <3>1, FaultTypes DEF Listing, TypeOK, Faults
    <3> QED  BY <1>6, <3>1, <3>2 DEF ListSource, sourceVars
  <2>2. ASSUME NEW i \in Image \ Present(src), dest[TargetOf[w]][i] # NoVersion
        PROVE  i \in removed
    <3>1. latest[i] # NoVersion
      BY <1>1, <2>2, Numbers, TargetAssumption DEF IndInv, AgeOK, Aged, NoVersion
    <3> QED  BY <2>2, <3>1 DEF IndInv, NamesOK, Known, Present
  <2>3. pc'[w] = "diff" /\ lsrc'[w] = Present(src)
    BY <1>1, <2>1 DEF TypeOK, Lists
  <2> QED  BY <1>2, <2>1, <2>2, <2>3
<1>7. CASE ListDest(w)
  <2>1. PICK l \in {Present(dest[TargetOf[w]]), {}} : del' = [del EXCEPT ![w] = l \ lsrc[w]]
    BY <1>7 DEF ListDest
  <2>2. /\ pc[w] = "diff" /\ pc' = [pc EXCEPT ![w] = "next"] /\ removed' = removed
    BY <1>7 DEF ListDest, Diffed, sourceVars
  <2>3. del'[w] \subseteq removed /\ pc'[w] = "next"
    BY <1>1, <1>2, <2>1, <2>2 DEF Present, TypeOK, Lists
  <2> QED  BY <2>2, <2>3
<1>8. CASE NextDel(w)
  BY <1>1, <1>2, <1>8 DEF NextDel, TypeOK, Lists, sourceVars
<1>9. CASE NextAdd(w) \/ RoundDone(w) \/ Calls(w) \/ Delete(w)
  <2>1. pc'[w] \notin {"diff", "delete"} /\ del' = del
    <3>1. CASE Calls(w)
      BY <1>1, <3>1, CallFrame
    <3>2. CASE NextAdd(w) \/ RoundDone(w) \/ Delete(w)
      BY <1>1, <3>2 DEF NextAdd, RoundDone, Delete, Goto, TypeOK, listVars
    <3> QED  BY <1>9, <3>1, <3>2
  <2> QED  BY <1>2, <1>3, <2>1
<1>10. CASE Crash
  BY <1>10 DEF Crash
<1>11. ASSUME NEW i \in Image, Publish(i) \/ Withdraw(i) \/ TaskOverwrite(i)
       PROVE  Sound(w)'
  BY <1>4, <1>11, SourceSideFrame
<1>12. CASE UNCHANGED vars
  BY <1>4, <1>12 DEF vars
<1> QED
  BY <1>5, <1>6, <1>7, <1>8, <1>9, <1>10, <1>11, <1>12 DEF Next, Sync, Calls

LEMMA EachInductive ==
    ASSUME OneTaskEach
    PROVE  Spec => [](IndInv /\ EachInv)
<1>1. Init => IndInv /\ EachInv
  BY IndInit, JobAssumption DEF Init, EachInv, TagOK, SomeGoesOn, GoesOn, DeleteOK
<1>2. IndInv /\ EachInv /\ [Next]_vars => (IndInv /\ EachInv)'
  BY IndStep, TagStep, GoesOnStep, DeleteStep DEF IndInv, EachInv
<1> QED  BY <1>1, <1>2, PTL DEF Spec

\* If no two tasks have one target, the workers never end all of them unless
\* a pull or another call of the daemon has failed or one has ended at an image
\* the source removed: the exceptions that the missing image of another worker's
\* clean-up raises always leave a worker over.
THEOREM Survives ==
    ASSUME OneTaskEach
    PROVE  Spec => []SomeWorkerSurvives
<1>1. IndInv /\ EachInv => SomeWorkerSurvives
  BY DEF EachInv, SomeGoesOn, GoesOn, SomeWorkerSurvives
<1> QED  BY <1>1, EachInductive, PTL

-----------------------------------------------------------------------------
(* The workers implement Replica.                                          *)

\* A push brings a content that was published and is no older than the target's.
LEMMA PushCopies ==
    ASSUME IndInv, NEW w \in Job, Push(w), dest' # dest
    PROVE  Abstract!Copy(TargetOf[w], image[w])
<1>1. TypeOK /\ TargetOf[w] \in Target /\ image[w] \in Image
  BY TargetAssumption DEF IndInv, TypeOK
<1>2. PICK v : v = localDest[TargetOf[w]][image[w]]
  OBVIOUS
<1>3. v # NoVersion /\ dest' = [dest EXCEPT ![TargetOf[w]][image[w]] = v]
  BY <1>2 DEF Push
<1>4. v \in 1..latest[image[w]] /\ dest[TargetOf[w]][image[w]] <= v
  BY <1>1, <1>2, <1>3, Numbers DEF IndInv, AgeOK, Aged, NoVersion
<1>5. latest' = latest /\ removed' = removed
  BY DEF Push, sourceVars
<1> QED  BY <1>3, <1>4, <1>5 DEF Abstract!Copy

LEMMA ReplicaStep ==
    IndInv /\ EachInv /\ [Next]_vars =>
        [faults'.list = 0 => Abstract!Next]_(Abstract!vars)
<1> SUFFICES ASSUME IndInv, EachInv, [Next]_vars, faults'.list = 0,
                    ~UNCHANGED <<latest, removed, dest>>
             PROVE  Abstract!Next
  BY DEF Abstract!vars
<1>1. TypeOK /\ faults.list = 0
  BY ListFaultsStay DEF IndInv
<1>2. ASSUME NEW i \in Image, Publish(i)
      PROVE  Abstract!Next
  BY <1>2 DEF Publish, Abstract!Next, Abstract!Publish
<1>3. ASSUME NEW i \in Image, Withdraw(i)
      PROVE  Abstract!Next
  BY <1>3 DEF Withdraw, Abstract!Next, Abstract!Withdraw
<1>4. ASSUME NEW w \in Job, Push(w)
      PROVE  Abstract!Next
  <2>1. dest' # dest
    BY <1>4 DEF Push, sourceVars
  <2>2. Abstract!Copy(TargetOf[w], image[w])
    BY <1>4, <2>1, PushCopies
  <2> QED  BY <1>1, <2>2, TargetAssumption DEF Abstract!Next, TypeOK
<1>5. ASSUME NEW w \in Job, Delete(w)
      PROVE  Abstract!Next
  <2>1. dest' = [dest EXCEPT ![TargetOf[w]][image[w]] = 0] /\ latest' = latest
           /\ removed' = removed
    BY <1>5 DEF Delete, sourceVars, NoVersion
  <2>2. image[w] \in removed
    BY <1>1, <1>5 DEF EachInv, DeleteOK, Delete
  <2>3. Abstract!Drop(TargetOf[w], image[w])
    BY <2>1, <2>2 DEF Abstract!Drop
  <2> QED  BY <1>1, <2>3, TargetAssumption DEF Abstract!Next, TypeOK
<1>6. ASSUME NEW w \in Job,
             ListSource(w) \/ ListDest(w) \/ NextAdd(w) \/ NextDel(w) \/ RoundDone(w)
               \/ Pull(w) \/ PullFails(w) \/ Tag(w) \/ RemoveSource(w) \/ RemoveDest(w)
               \/ CallRaises(w)
      PROVE  FALSE
  BY <1>6 DEF ListSource, ListDest, Diffed, NextAdd, NextDel, RoundDone, Pull, PullFails, Tag,
              RemoveSource, RemoveDest, CallRaises, sourceVars
<1>7. ASSUME Crash \/ UNCHANGED vars \/ \E i \in Image : TaskOverwrite(i)
      PROVE  FALSE
  BY <1>7 DEF Crash, TaskOverwrite, sourceVars, vars
<1> QED  BY <1>2, <1>3, <1>4, <1>5, <1>6, <1>7 DEF Next, Sync

\* As long as no listing has failed, and if no two tasks have one target, the
\* workers implement Replica: every change of a target is the copy of a content
\* that was published and is no older than the one it replaces, or the loss of
\* an image the source once removed.  In between are listings that have grown
\* old, contents that wait in the shared daemon, and crashes.
THEOREM Replicates ==
    ASSUME OneTaskEach
    PROVE  Spec => ReplicaSpec
<1>1. Init => Abstract!Init
  <2> SUFFICES ASSUME Init
               PROVE  Abstract!Init
    OBVIOUS
  <2>1. latest \in [Image -> Nat]
    BY DEF Init
  <2> QED  BY <2>1 DEF Init, Abstract!Init, NoVersion
<1>2. IndInv /\ EachInv /\ [Next]_vars =>
         [faults'.list = 0 => Abstract!Next]_(Abstract!vars)
  BY ReplicaStep
<1> QED  BY <1>1, <1>2, EachInductive, PTL DEF Spec, ReplicaSpec
=============================================================================
