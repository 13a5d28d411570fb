----------------------------- MODULE MCOrphanSweep -----------------------------
(* OrphanSweep for TLC: two batches of two whose orders cross. *)
EXTENDS OrphanSweep, TLC

CONSTANTS o1, o2
Crossed == 1 :> o1 @@ 2 :> o2 @@ 3 :> o2 @@ 4 :> o1
=============================================================================
