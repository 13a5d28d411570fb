--------------------------- MODULE SupplierExchange ---------------------------
(***************************************************************************)
(* One supplier (the process in apps/supplier-stub), the network and the    *)
(* callers of SupplierClient.  SupplierFulfilment takes a supplier for      *)
(* granted whose refusals mean something; this module says what they mean.  *)
(*                                                                         *)
(* decide() runs between two awaits, and the store writes its file before   *)
(* it returns, so a decision is one step.  The write may throw, which       *)
(* leaves the memory ahead of the file, and a crash that hits it leaves a   *)
(* torn file.  Time is left out: a caller may give up at any moment, so a   *)
(* slow answer is an answer, and a hang is none.                            *)
(***************************************************************************)
EXTENDS SupplierAnswers, FiniteSets

CONSTANTS
  Caller,        \* processes with at most one call out each
  InventorySize, \* STUB_INVENTORY_SIZE
  RestockCounts, \* counts a restock may come with
  Persist,       \* STUB_PERSIST_PATH is not empty
  MaxFaults,     \* model bound: crashes of the supplier and writes that throw
  MaxControls    \* model bound: calls of _control

ASSUME ExchangeAssumption ==
  /\ InventorySize \in Nat
  /\ RestockCounts \subseteq Nat
  /\ Persist \in BOOLEAN
  /\ MaxFaults \in Nat
  /\ MaxControls \in Nat
  /\ NoCode \notin Code
  /\ NoRequest \notin Request

VARIABLES
  up,       \* the supplier's process runs
  store,    \* its memory: records by request_id, consumed, inventorySize
  file,     \* its state file
  behind,   \* the last write threw, and the file has not what the memory has
  forced,   \* scenario.setForced: the mode, and how often it is still to be used
  call,     \* per caller: the call it has out
  stray,    \* POSTs their caller gave up on that are still on their way
  asked,    \* requests that were POSTed before
  told,     \* requests and codes callers were told
  refused,  \* requests callers were told are refused
  doubt,    \* requests the network or a second caller made uncertain
  wiped,    \* the supplier lost its records
  faults, controls

bookVars == <<store, file, behind>>
stubVars == <<up, bookVars, forced>>
heardVars == <<told, refused>>
boundVars == <<faults, controls>>
vars == <<stubVars, call, stray, asked, heardVars, doubt, wiped, boundVars>>

-----------------------------------------------------------------------------
(* The supplier's state.                                                   *)

Mode == {"normal", "ok", "issue_then_hang", "timeout", "error_5xx", "error_5xx_garbage",
         "out_of_stock", "bad_request", "refuse"}   \* slow is ok with a delay
Always == 0                                          \* remaining = null
NotForced == [mode |-> "normal", left |-> Always]

\* The code of each request, how many codes went out, and what the stock holds.
EmptyStore == [issued |-> [r \in Request |-> NoCode], consumed |-> 0, size |-> InventorySize]
NoFile == [issued |-> [r \in Request |-> NoCode], consumed |-> 0, size |-> -1]   \* none, or not to be parsed

Minted(s, r) == s.issued[r] # NoCode
Remaining(s) == IF s.consumed < s.size THEN s.size - s.consumed ELSE 0

\* What onModuleInit finds.
Loaded == IF Persist /\ file # NoFile THEN file ELSE EmptyStore

Records == IF up THEN store ELSE Loaded

Fault == faults < MaxFaults /\ faults' = faults + 1

\* persist(), after every change of the store.
Write(s) ==
  /\ store' = s
  /\ file' = IF Persist THEN s ELSE file
  /\ behind' = FALSE
  /\ UNCHANGED faults

\* writeFileSync throws, and nothing undoes the change: the file is as it was,
\* or cut short.
WriteThrows(s) ==
  /\ Persist
  /\ Fault
  /\ store' = s
  /\ file' \in {file, NoFile}
  /\ behind' = TRUE

\* A call is idle, sent, hung or answered, a POST or a lookup.  again: the request
\* was POSTed before.  answer is looked at in "answered" only.
NoCall == [pc |-> "idle", req |-> NoRequest, lookup |-> FALSE, again |-> FALSE, answer |-> Garbage(500)]
At(c, pc) == call[c].pc = pc
Req(c) == call[c].req

Init ==
  /\ up = TRUE
  /\ store = EmptyStore
  /\ file = NoFile
  /\ behind = FALSE
  /\ forced = NotForced
  /\ call = [c \in Caller |-> NoCall]
  /\ stray = {}
  /\ asked = {}
  /\ told = {}
  /\ refused = {}
  /\ doubt = {}
  /\ wiped = FALSE
  /\ faults = 0
  /\ controls = 0

-----------------------------------------------------------------------------
(* The caller sends.  A request that was settled is not sent again; a GET   *)
(* follows a POST.                                                          *)

Settled(r) == r \in refused \/ \E k \in Code : <<r, k>> \in told
Out(r) == \E c \in Caller : ~At(c, "idle") /\ Req(c) = r

Send(c, r, lookup) ==
  /\ At(c, "idle")
  /\ ~Settled(r)
  /\ lookup => r \in asked
  /\ call' = [call EXCEPT ![c] = [NoCall EXCEPT !.pc = "sent", !.req = r, !.lookup = lookup,
                                                    !.again = (r \in asked)]]
  /\ asked' = asked \cup {r}
  /\ doubt' = IF Out(r) THEN doubt \cup {r} ELSE doubt
  /\ UNCHANGED <<stubVars, stray, heardVars, wiped, boundVars>>

-----------------------------------------------------------------------------
(* The supplier decides.                                                    *)

\* drawNormal, or the forced mode.
NextMode == IF forced.mode = "normal" THEN {"timeout", "error_5xx", "ok"} ELSE {forced.mode}
SpendMode ==
  forced' = IF forced.mode = "normal" \/ forced.left = Always THEN forced
            ELSE IF forced.left = 1 THEN NotForced
            ELSE [forced EXCEPT !.left = @ - 1]

\* The store with a code for r that no other request has.
WithCode(r, k) == [issued |-> [store.issued EXCEPT ![r] = k], consumed |-> store.consumed + 1, size |-> store.size]
Minting(r) == {WithCode(r, k) : k \in {j \in Code : \A q \in Request : store.issued[q] # j}}

\* What a mode that mints nothing sends back, if it does.
BlockedAnswer(mode) ==
  CASE mode = "out_of_stock" -> Error(409, TRUE)
    [] mode = "bad_request" -> Error(400, FALSE)
    [] mode = "error_5xx" -> Error(500, FALSE)
    [] mode = "error_5xx_garbage" -> Garbage(500)

\* decide(): what the store and the scenario become, and the mode that is left
\* to answer in.  A record comes before everything, and the mode is spent before
\* the stock is looked at.
Replay(r) == Minted(store, r) /\ UNCHANGED <<bookVars, forced, faults>>

Mints == {"ok", "issue_then_hang"}
Blocks(mode) == IF mode = "out_of_stock" \/ Remaining(store) = 0 THEN "out_of_stock" ELSE mode

\* Faulty variant: a record does not keep its request from being decided again.
DecideAgain(r, mode) ==
  /\ \E drawn \in NextMode : mode = Blocks(drawn)
  /\ SpendMode
  /\ IF mode \in Mints THEN \E s \in Minting(r) : Write(s) ELSE UNCHANGED <<bookVars, faults>>

Decide(r, mode) ==
  /\ ~Minted(store, r)
  /\ \E drawn \in NextMode : mode = Blocks(drawn)
  /\ SpendMode
  /\ IF mode \in Mints THEN \E s \in Minting(r) : Write(s) ELSE UNCHANGED <<bookVars, faults>>

\* The record is in memory when persist() throws, and the caller has the 500 page
\* of the framework.
DecideThrows(r) ==
  /\ ~Minted(store, r)
  /\ \E drawn \in NextMode : Blocks(drawn) \in Mints
  /\ SpendMode
  /\ \E s \in Minting(r) : WriteThrows(s)

Reply(c, a) == call' = [call EXCEPT ![c].pc = "answered", ![c].answer = a]
Hang(c) == call' = [call EXCEPT ![c].pc = "hung"]

\* The issue handler.  A socket that is destroyed (refuse) is reset.
HandlePost(c) ==
  LET r == Req(c) IN
  /\ up
  /\ At(c, "sent")
  /\ ~call[c].lookup
  /\ \/ Replay(r) /\ Reply(c, Ok(r, store.issued[r]))
     \/ \E mode \in Mode :
          /\ Decide(r, mode)
          /\ IF mode = "ok" THEN Reply(c, Ok(r, store'.issued[r]))
             ELSE IF mode \in {"issue_then_hang", "timeout", "refuse"} THEN Hang(c)
             ELSE Reply(c, BlockedAnswer(mode))
     \/ DecideThrows(r) /\ Reply(c, Garbage(500))
  /\ UNCHANGED <<up, stray, asked, heardVars, doubt, wiped, controls>>

\* The same for a POST nobody waits for any more.
HandleStray(r) ==
  /\ up
  /\ r \in stray
  /\ stray' = stray \ {r}
  /\ \/ Replay(r)
     \/ \E mode \in Mode : Decide(r, mode)
     \/ DecideThrows(r)
  /\ UNCHANGED <<up, call, asked, heardVars, doubt, wiped, controls>>

\* The lookup handler, a pure read.
HandleGet(c) ==
  LET r == Req(c) IN
  /\ up
  /\ At(c, "sent")
  /\ call[c].lookup
  /\ Reply(c, IF Minted(store, r) THEN Ok(r, store.issued[r]) ELSE Error(404, FALSE))
  /\ UNCHANGED <<stubVars, stray, asked, heardVars, doubt, wiped, boundVars>>

-----------------------------------------------------------------------------
(* _control.                                                                *)

Control == up /\ controls < MaxControls /\ controls' = controls + 1

SetScenario(mode, times) ==
  /\ Control
  /\ forced' = [mode |-> mode, left |-> times]
  /\ UNCHANGED <<up, bookVars, call, stray, asked, heardVars, doubt, wiped, faults>>

\* The count is what is left, whatever was left before.
Restock(count) ==
  /\ Control
  /\ LET s == [store EXCEPT !.size = store.consumed + count] IN Write(s) \/ WriteThrows(s)
  /\ UNCHANGED <<up, forced, call, stray, asked, heardVars, doubt, wiped>>

Reset ==
  /\ Control
  /\ forced' = NotForced
  /\ Write(EmptyStore) \/ WriteThrows(EmptyStore)
  /\ wiped' = TRUE
  /\ UNCHANGED <<up, call, stray, asked, heardVars, doubt>>

-----------------------------------------------------------------------------
(* The process and its file.                                                *)

Die == up /\ up' = FALSE /\ store' = EmptyStore /\ behind' = FALSE /\ forced' = NotForced

\* The requests whose POST may be at the supplier right now.
Arriving == stray \cup {Req(c) : c \in {d \in Caller : At(d, "sent") /\ ~call[d].lookup}}

\* What the memory alone had is lost.
Crash ==
  /\ Fault
  /\ Die
  /\ wiped' = (wiped \/ ~Persist \/ behind)
  /\ UNCHANGED <<file, call, stray, asked, heardVars, doubt, controls>>

\* writeFileSync is not atomic: a crash in the middle of the write of a mint or of
\* _control leaves what cannot be parsed, and the next start begins afresh.
TearFile ==
  /\ Persist
  /\ Fault
  /\ \/ (\E r \in Arriving : ~Minted(store, r) /\ Remaining(store) > 0) /\ UNCHANGED controls
     \/ Control
  /\ Die
  /\ file' = NoFile
  /\ wiped' = TRUE
  /\ UNCHANGED <<call, stray, asked, heardVars, doubt>>

Restart ==
  /\ ~up
  /\ up' = TRUE
  /\ store' = Loaded
  /\ UNCHANGED <<file, behind, forced, call, stray, asked, heardVars, doubt, wiped, boundVars>>

-----------------------------------------------------------------------------
(* The caller hears, or does not.                                           *)

HangUp(c) == call' = [call EXCEPT ![c] = NoCall]

\* The fulfilment closes an attempt as failed on any definite outcome of a POST,
\* and on the 404 of a GET (settleRefused, settleResolved).
Refuses(c, outcome) == IF call[c].lookup THEN outcome = "rejected" ELSE outcome \in Definite

Hears(c, outcome, k) ==
  /\ HangUp(c)
  /\ told' = IF outcome = "issued" THEN told \cup {<<Req(c), k>>} ELSE told
  /\ refused' = IF Refuses(c, outcome) THEN refused \cup {Req(c)} ELSE refused

Classify(c, a) == IF call[c].lookup THEN ClassifyLookup(a, Req(c)) ELSE ClassifyResponse(a, Req(c))

Hear(c) ==
  LET a == call[c].answer IN
  /\ At(c, "answered")
  /\ Hears(c, Classify(c, a), a.body.code)
  /\ UNCHANGED <<stubVars, stray, asked, doubt, wiped, boundVars>>

\* Something between the two answers in the supplier's place: a 5xx page, or the
\* answer of another request.  The request itself may have come through.
HearMiddleman(c) ==
  /\ ~At(c, "idle")
  /\ \E a \in {Garbage(500)} \cup {Ok(r, store.issued[r]) : r \in {q \in Request \ {Req(c)} : Minted(store, q)}} :
       Hears(c, Classify(c, a), a.body.code)
  /\ UNCHANGED <<stubVars, stray, asked, doubt, wiped, boundVars>>

\* The connection was never made.  It proves something of this POST only: of one
\* sent before, the supplier may have a record.
HearRefused(c) ==
  /\ At(c, "sent")
  /\ Hears(c, ClassifyNetworkError("refused"), NoCode)
  /\ doubt' = IF call[c].again THEN doubt \cup {Req(c)} ELSE doubt
  /\ UNCHANGED <<stubVars, stray, asked, wiped, boundVars>>

\* The connection breaks.
HearReset(c) ==
  /\ ~At(c, "idle")
  /\ Hears(c, ClassifyNetworkError("reset"), NoCode)
  /\ UNCHANGED <<stubVars, stray, asked, doubt, wiped, boundVars>>

\* AbortSignal.timeout, or the caller's process dies.  A POST that is on its way
\* may still arrive.
GiveUp(c) ==
  /\ ~At(c, "idle")
  /\ Hears(c, ClassifyNetworkError("timeout"), NoCode)
  /\ \/ UNCHANGED <<stray, doubt>>
     \/ /\ At(c, "sent")
        /\ ~call[c].lookup
        /\ stray' = stray \cup {Req(c)}
        /\ doubt' = doubt \cup {Req(c)}
  /\ UNCHANGED <<stubVars, asked, wiped, boundVars>>

-----------------------------------------------------------------------------
Next ==
  \/ \E c \in Caller :
       \/ \E r \in Request, lookup \in BOOLEAN : Send(c, r, lookup)
       \/ HandlePost(c)
       \/ HandleGet(c)
       \/ Hear(c)
       \/ HearMiddleman(c)
       \/ HearRefused(c)
       \/ HearReset(c)
       \/ GiveUp(c)
  \/ \E r \in Request : HandleStray(r)
  \/ \E mode \in Mode, times \in {Always, 2} : SetScenario(mode, times)
  \/ \E count \in RestockCounts : Restock(count)
  \/ Reset
  \/ Crash
  \/ TearFile
  \/ Restart

Spec == Init /\ [][Next]_vars

-----------------------------------------------------------------------------
(* Invariants.                                                             *)

\* spec/06, 6.5: the supplier can only ever return one code for a request_id,
\* and no two requests share one.  What a caller was told stays on record across
\* crashes, whatever the callers resend; only a reset, a missing or a torn state
\* file, and a crash after a write that threw let the supplier forget.
ToldStaysOnRecord ==
  ~wiped =>
    /\ \A p \in told : Records.issued[p[1]] = p[2]
    /\ \A q, r \in Request : q # r /\ Minted(Records, q) => Records.issued[q] # Records.issued[r]

\* suppliers.constants.ts: the chain leaves a supplier on outcomes that prove no
\* code was issued.  They do: no code exists for a refused request, and none
\* will, unless a POST of it is still on its way, a second caller had it out at
\* the same time, or a replay was refused a connection.
RefusalProvesNothingMinted ==
  ~wiped => \A r \in refused \ doubt : ~Minted(Records, r)

\* The stock counts each request once, however often it is sent, and is never
\* oversold, across restocks and restarts.
StockFollowsRecords ==
  /\ Records.consumed = Cardinality({r \in Request : Minted(Records, r)})
  /\ Records.consumed <= Records.size
=============================================================================
