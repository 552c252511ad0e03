---------------------------- MODULE MCOnDemandScan ----------------------------
(* Three requests of one user and a pool of one thread. *)
EXTENDS OnDemandScan

CONSTANTS r1, r2, r3, u1

MCUserOf == [r \in Tasks |-> u1]
=============================================================================
