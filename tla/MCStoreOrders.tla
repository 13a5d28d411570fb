---------------------------- MODULE MCStoreOrders ----------------------------
(***************************************************************************)
(* StoreOrders and its books on small instances: orders of different        *)
(* prices.                                                                  *)
(***************************************************************************)
EXTENDS StoreBooks, TLC

CONSTANTS o1, o2
Prices == (o1 :> 3) @@ (o2 :> 5)
=============================================================================
