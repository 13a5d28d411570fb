----------------------------- MODULE SupplierPlan -----------------------------
(***************************************************************************)
(* The fallback plan of apps/api/src/suppliers/supplier-plan.util.ts: which *)
(* supplier an order asks next, given its attempts in the order of their    *)
(* ids, and what an exhausted chain means.  The code passes the attempts of *)
(* one delivery generation; here the generation is a parameter.  The        *)
(* functions are pure: this module has no state.                            *)
(***************************************************************************)
EXTENDS Integers, Sequences, FiniteSets

CONSTANT FallbackChain   \* FALLBACK_CHAIN: the suppliers in the order of preference

SupplierCode == {FallbackChain[k] : k \in DOMAIN FallbackChain}

ASSUME PlanAssumption ==
  /\ FallbackChain \in Seq(SupplierCode)
  /\ FallbackChain # <<>>
  /\ \A k, l \in DOMAIN FallbackChain : FallbackChain[k] = FallbackChain[l] => k = l

\* The attempts of a generation at a supplier, and the last of them.
AttemptsFor(attempts, g, s) ==
  {i \in DOMAIN attempts : attempts[i].gen = g /\ attempts[i].sup = s}
LastAttemptFor(attempts, g, s) ==
  {i \in AttemptsFor(attempts, g, s) : \A j \in AttemptsFor(attempts, g, s) : j <= i}

IsRetriableSameSupplier(a) == a.state = "failed" /\ a.err = "http_5xx"
IsOutOfStockOutcome(a) == a.err = "out_of_stock"

\* Faulty variant: the budget allows one attempt too many.
NextNoOneMore(attempts, g, s, maxPerSupplier) ==
  IF AttemptsFor(attempts, g, s) = {} THEN {1}
  ELSE {attempts[i].no + 1 : i \in
          {j \in LastAttemptFor(attempts, g, s) :
             /\ IsRetriableSameSupplier(attempts[j])
             /\ Cardinality(AttemptsFor(attempts, g, s)) <= maxPerSupplier}}

\* The number of the attempt a supplier would get now: one if it has had none,
\* the next if its last failed with a 5xx and its budget lasts, otherwise none.
NextNo(attempts, g, s, maxPerSupplier) ==
  IF AttemptsFor(attempts, g, s) = {} THEN {1}
  ELSE {attempts[i].no + 1 : i \in
          {j \in LastAttemptFor(attempts, g, s) :
             /\ IsRetriableSameSupplier(attempts[j])
             /\ Cardinality(AttemptsFor(attempts, g, s)) < maxPerSupplier}}

\* Faulty variant: any supplier of the chain that would get an attempt.
PickAnySupplier(attempts, g, maxPerSupplier) ==
  UNION {{[sup |-> FallbackChain[k], no |-> n] :
            n \in NextNo(attempts, g, FallbackChain[k], maxPerSupplier)} :
         k \in DOMAIN FallbackChain}

\* pickSupplier: the first supplier of the chain that would get an attempt, and
\* its number; empty where the code returns null.
PickSupplier(attempts, g, maxPerSupplier) ==
  LET Numbers(k) == NextNo(attempts, g, FallbackChain[k], maxPerSupplier)
      First == {k \in DOMAIN FallbackChain :
                  \A l \in DOMAIN FallbackChain : l < k => Numbers(l) = {}}
  IN UNION {{[sup |-> FallbackChain[k], no |-> n] : n \in Numbers(k)} : k \in First}

AllSuppliersOutOfStock(attempts, g) ==
  \A s \in SupplierCode :
    \E i \in LastAttemptFor(attempts, g, s) : IsOutOfStockOutcome(attempts[i])

\* resolveExhaustedOutcome, and what applyExhaustedOutcome makes of its null.
ExhaustedStatus(attempts, g) ==
  IF AllSuppliersOutOfStock(attempts, g) THEN "out_of_stock" ELSE "delivery_failed"
=============================================================================
