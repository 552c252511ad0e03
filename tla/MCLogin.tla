------------------------------- MODULE MCLogin -------------------------------
(***************************************************************************)
(* Two tabs of one browser; the second callback of one of them comes from  *)
(* another browser, behind the same address.                               *)
(***************************************************************************)
EXTENDS Login, TLC

CONSTANTS t1, t2, b1, b2, c1

MCRequests == (Tabs \X {"login", "callback"}) \cup {<<t1, "reload">>}
TwoBrowsers == [r \in MCRequests |-> IF KindOf(r) = "reload" THEN b2 ELSE b1]
OneAddress == [r \in MCRequests |-> c1]

Symmetry == Permutations(Accounts)
=============================================================================
