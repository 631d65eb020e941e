--------------------------- MODULE MCRegistrySync ---------------------------
(* Small instances of RegistrySync.                                        *)
EXTENDS RegistrySync, TLC

CONSTANTS w1, w2, t1, t2

\* One task.
MCOneTarget == w1 :> t1

\* Two tasks that replicate one namespace to two data centres.
MCTwoTargets == w1 :> t1 @@ w2 :> t2
=============================================================================
