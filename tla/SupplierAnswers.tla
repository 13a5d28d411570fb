---------------------------- MODULE SupplierAnswers ----------------------------
(***************************************************************************)
(* What SupplierClient makes of an answer (supplier.client.ts and          *)
(* suppliers.util.ts).  The outcomes are issued, unknown and three that    *)
(* the chain takes for a proof that no code was issued.                    *)
(*                                                                         *)
(* A body is what the client reads of it: its status field ("none" when    *)
(* the text is no JSON object), the request_id it echoes, its code, and    *)
(* whether its reason is out_of_stock.                                     *)
(***************************************************************************)
EXTENDS Integers

CONSTANTS
  Request,  \* request_ids of the attempts at one supplier
  Code      \* codes the supplier can mint

NoCode == "no code"
NoRequest == "no request"

HttpStatus == {200, 400, 404, 409, 500}
Body == [status : {"ok", "error", "none"}, request : Request \cup {NoRequest},
         code : Code \cup {NoCode}, soldOut : BOOLEAN]
Answer == [http : HttpStatus, body : Body]

Outcome == {"issued", "out_of_stock", "rejected", "unavailable", "unknown"}
Definite == {"out_of_stock", "rejected", "unavailable"}

Ok(r, k) == [http |-> 200, body |-> [status |-> "ok", request |-> r, code |-> k, soldOut |-> FALSE]]
Error(http, soldOut) ==
  [http |-> http, body |-> [status |-> "error", request |-> NoRequest, code |-> NoCode, soldOut |-> soldOut]]
Garbage(http) ==
  [http |-> http, body |-> [status |-> "none", request |-> NoRequest, code |-> NoCode, soldOut |-> FALSE]]

IsSupplierSuccessBody(b) == b.status = "ok" /\ b.code # NoCode
IsSupplierErrorBody(b) == b.status = "error"
MatchesRequestId(b, r) == b.request = r

\* Faulty variant: a 5xx is a refusal whoever wrote its body.
ClassifyHttpStatusTrusting(http, b) ==
  IF b.soldOut THEN "out_of_stock"
  ELSE IF http >= 500 THEN "unavailable"
  ELSE "rejected"

\* classifySupplierHttpStatus
ClassifyHttpStatus(http, b) ==
  IF b.soldOut THEN "out_of_stock"
  ELSE IF http >= 500 THEN (IF IsSupplierErrorBody(b) THEN "unavailable" ELSE "unknown")
  ELSE "rejected"

\* Faulty variant: the echo is not compared.
ClassifyResponseNoEcho(a, r) ==
  IF a.http >= 400 THEN ClassifyHttpStatus(a.http, a.body)
  ELSE IF IsSupplierSuccessBody(a.body) THEN "issued"
  ELSE "unknown"

\* classifyResponse, the answer to a POST.
ClassifyResponse(a, r) ==
  IF a.http >= 400 THEN ClassifyHttpStatus(a.http, a.body)
  ELSE IF IsSupplierSuccessBody(a.body) /\ MatchesRequestId(a.body, r) THEN "issued"
  ELSE "unknown"

\* classifyLookupResponse, the answer to a GET: only a 404 is definite.
ClassifyLookup(a, r) ==
  IF a.http < 400 /\ IsSupplierSuccessBody(a.body) /\ MatchesRequestId(a.body, r) THEN "issued"
  ELSE IF a.http = 404 THEN "rejected"
  ELSE "unknown"

\* classifySupplierNetworkError: only a connection that was never made is definite.
ClassifyNetworkError(error) == IF error = "refused" THEN "unavailable" ELSE "unknown"
=============================================================================
