------------------------- MODULE MCSupplierFulfilment -------------------------
(* SupplierFulfilment for TLC: the workers are interchangeable. *)
EXTENDS SupplierFulfilment, TLC

ChainAB == <<"A", "B">>
ChainA  == <<"A">>

WorkerSymmetry == Permutations(Workers)
=============================================================================
