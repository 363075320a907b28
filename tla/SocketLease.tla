------------------------------ MODULE SocketLease ------------------------------
(***************************************************************************)
(* What the daemons of one data directory promise each other about the IPC *)
(* address: it is held by at most one process, taken only while free and   *)
(* given up only by its holder.                                            *)
(***************************************************************************)
CONSTANT Proc
VARIABLE holders

Init == holders = {}

Acquire(p) == holders = {} /\ holders' = {p}

Release(p) == p \in holders /\ holders' = {}

Next == \E p \in Proc : Acquire(p) \/ Release(p)

Spec == Init /\ [][Next]_holders
================================================================================
