---------------------------- MODULE MCArrivalOrder ----------------------------
(* ArrivalOrder on small instances; events are interchangeable. *)
EXTENDS ArrivalOrder, TLC

EventSymmetry == Permutations(EventId)
=============================================================================
