------------------------------- MODULE MCLookup -------------------------------
(* A batch with an invalid name in the middle, and a lookup of its first name. *)
EXTENDS Lookup, TLC

CONSTANTS l1, l2, n1, n2, bad

MCBatch == l1 :> <<n1, bad, n2>> @@ l2 :> <<n1>>
=============================================================================
