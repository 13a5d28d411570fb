-------------------------- MODULE MCSupplierExchange --------------------------
(* SupplierExchange for TLC: callers, requests and codes are interchangeable. *)
EXTENDS SupplierExchange, TLC

ExchangeSymmetry == Permutations(Caller) \cup Permutations(Request) \cup Permutations(Code)
=============================================================================
