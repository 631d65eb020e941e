---------------------------- MODULE MCEventBatch ----------------------------
(* Small instances of EventBatch.                                          *)
EXTENDS EventBatch, TLC

CONSTANTS e1, e2, s1, s2

\* Two errors of one subsystem.
MCOneSubject == e1 :> s1 @@ e2 :> s1

\* One error each of two subsystems.
MCTwoSubjects == e1 :> s1 @@ e2 :> s2
=============================================================================
