---------------------------- MODULE MCNetlinkQueue ----------------------------
(* Small instances of NetlinkQueue.                                        *)
EXTENDS NetlinkQueue, TLC

\* No property says anything of what follows once something is broken or a
\* node is in both lists.
MCSound == ~broken /\ (limited => ListEmpty(link, MsgHead) \/ thread.pc \in {"lapse", "advance"})
=============================================================================
