--------------------------- MODULE MCTaskService ---------------------------
(* Small instances of TaskService.                                         *)
EXTENDS TaskService, TLC

CONSTANTS u1, r1, o1, o2

\* One task address; two Task objects when it is posted twice or again.
MCOneRoute == u1 :> r1

\* Task objects are interchangeable (only in runs without liveness).
MCSymmetry == Permutations(Obj)
=============================================================================
