--------------------------- MODULE MCPrScanWorker ---------------------------
(* Small instances of PrScanWorker.  Two deliveries for the same head (a   *)
(* redelivery) or for two heads of one PR, a diff that shrinks when the    *)
(* second head is pushed, between its pages too, and one manifest more     *)
(* than the limit.                                                         *)
EXTENDS PrScanWorker, TLC

CONSTANTS d1, d2, d3, p1, s1, s2, m1, m2

(* Both deliveries are for the PR's only head.                             *)
SamePr == [d \in Deliveries |-> p1]

SameSha == [d \in Deliveries |-> s1]

TwoShas == [d \in Deliveries |-> IF d = d1 THEN s1 ELSE s2]

(* One page for each head.                                                 *)
SteadyDiff == [s \in Shas |-> <<Manifests>>]

(* The second head takes everything back.                                  *)
EmptiedDiff == [s \in Shas |-> IF s = s1 THEN <<Manifests>> ELSE <<>>]

(* The same with two pages.                                                *)
EmptiedPages == [s \in Shas |-> IF s = s1 THEN <<{m1}, {m2}>> ELSE <<>>]

(* With SamePr and SameSha the deliveries are interchangeable.             *)
Symmetry == Permutations(Deliveries)

=============================================================================
