------------------------ MODULE SupplierExchangeProofs ------------------------
(***************************************************************************)
(* Proofs about SupplierExchange, for any callers, requests and codes, any  *)
(* number of crashes, of writes that throw and of calls of _control, with   *)
(* and without a state file.                                                *)
(***************************************************************************)
EXTENDS SupplierExchange, FiniteSetTheorems, TLAPS

-----------------------------------------------------------------------------
(* What the supplier has on record.                                        *)

Book == [issued : [Request -> Code \cup {NoCode}], consumed : Nat, size : Nat]

MintedIn(s) == {r \in Request : Minted(s, r)}

\* The stock of a book counts its records.
Balanced(s) ==
  /\ s \in Book
  /\ IsFiniteSet(MintedIn(s))
  /\ s.consumed = Cardinality(MintedIn(s))
  /\ s.consumed <= s.size

\* A running supplier with a state file has written what it knows, or is behind.
BooksInv ==
  /\ up \in BOOLEAN
  /\ Balanced(store)
  /\ Balanced(Loaded)
  /\ Persist /\ up /\ ~behind => store = Loaded

\* The code on record for a request, if any.
CodeOf(r) == Records.issued[r]

LEMMA EmptyBalanced == Balanced(EmptyStore)
<1>1. EmptyStore \in Book /\ InventorySize \in Nat
  BY ExchangeAssumption DEF EmptyStore, Book
<1>2. MintedIn(EmptyStore) = {}
  BY DEF MintedIn, Minted, EmptyStore
<1>3. EmptyStore.consumed = 0 /\ EmptyStore.size = InventorySize
  BY DEF EmptyStore
<1>. QED BY <1>1, <1>2, <1>3, FS_EmptySet DEF Balanced

\* What stands for no file is not a book.
LEMMA NoFileIsNoBook == \A s \in Book : s # NoFile
<1>1. ASSUME NEW s \in Book, s = NoFile PROVE FALSE
  <2>1. s.size = -1
    BY <1>1 DEF NoFile
  <2>2. s.size \in Nat
    BY DEF Book
  <2>. QED BY <2>1, <2>2
<1>. QED BY <1>1

LEMMA RecordsBalanced == BooksInv => Balanced(Records)
BY DEF BooksInv, Records

\* A write replaces the books, and their file unless it throws.
LEMMA WriteBooks ==
  ASSUME BooksInv, NEW s, Balanced(s), Write(s) \/ WriteThrows(s), UNCHANGED up
  PROVE  BooksInv' /\ (up => Records' = s)
<1>1. s \in Book /\ s # NoFile
  BY NoFileIsNoBook DEF Balanced
<1>2. CASE Write(s) /\ Persist
  <2>1. Loaded' = s /\ store' = s
    BY <1>1, <1>2 DEF Write, Loaded
  <2>. QED BY <2>1 DEF BooksInv, Balanced, Records
<1>3. CASE Write(s) /\ ~Persist
  <2>1. Loaded' = EmptyStore /\ store' = s
    BY <1>3 DEF Write, Loaded
  <2>. QED BY <1>3, <2>1, EmptyBalanced DEF BooksInv, Balanced, Records
<1>4. CASE WriteThrows(s)
  <2>1. (Loaded' = Loaded \/ Loaded' = EmptyStore) /\ store' = s /\ behind'
    BY <1>4 DEF WriteThrows, Loaded
  <2>. QED BY <2>1, EmptyBalanced DEF BooksInv, Balanced, Records
<1>. QED BY <1>2, <1>3, <1>4

-----------------------------------------------------------------------------
(* What a step does to the records.                                        *)

\* They stay as they are.
Kept == \A r \in Request : CodeOf(r)' = CodeOf(r)

\* All or some of them are lost.
Lost == wiped'

\* A code that nobody has goes to a request that has none.
MintStep(r) ==
  /\ CodeOf(r) = NoCode
  /\ CodeOf(r)' \in Code
  /\ \A q \in Request : CodeOf(q) # CodeOf(r)'
  /\ \A q \in Request \ {r} : CodeOf(q)' = CodeOf(q)

LEMMA SameBooks ==
  ASSUME BooksInv, UNCHANGED <<up, bookVars>>
  PROVE  BooksInv' /\ Kept
<1>1. Records' = Records /\ Loaded' = Loaded
  BY DEF Records, Loaded, bookVars
<1>. QED BY <1>1 DEF BooksInv, Balanced, Kept, CodeOf, bookVars

LEMMA MintsOne ==
  ASSUME BooksInv, NEW r \in Request, up, UNCHANGED up, ~Minted(store, r), Remaining(store) # 0,
         \E s \in Minting(r) : Write(s) \/ WriteThrows(s)
  PROVE  BooksInv' /\ MintStep(r)
<1>1. PICK k \in Code : /\ \A q \in Request : store.issued[q] # k
                        /\ Write(WithCode(r, k)) \/ WriteThrows(WithCode(r, k))
  BY DEF Minting
<1>. DEFINE s == WithCode(r, k)
<1>2. store \in Book /\ Balanced(store) /\ k # NoCode
  BY ExchangeAssumption DEF BooksInv, Balanced
<1>4. s \in Book
  BY <1>2 DEF Book, WithCode
<1>5. MintedIn(s) = MintedIn(store) \cup {r} /\ r \notin MintedIn(store)
  BY <1>2 DEF MintedIn, Minted, Book, WithCode
<1>6. IsFiniteSet(MintedIn(s)) /\ Cardinality(MintedIn(s)) = Cardinality(MintedIn(store)) + 1
  BY <1>2, <1>5, FS_AddElement DEF Balanced
<1>7. store.consumed < store.size
  BY <1>2 DEF Remaining, Book
<1>8. s.consumed <= s.size /\ s.consumed = store.consumed + 1
  BY <1>2, <1>7 DEF Book, WithCode
<1>9. Balanced(s)
  BY <1>2, <1>4, <1>6, <1>8 DEF Balanced
<1>10. Write(s) \/ WriteThrows(s)
  BY <1>1
<1>11. s.issued = [store.issued EXCEPT ![r] = k]
  BY DEF WithCode
<1>. HIDE DEF s
<1>12. BooksInv' /\ Records' = s
  BY <1>9, <1>10, WriteBooks
<1>13. MintStep(r)
  <2>1. Records = store
    BY DEF Records
  <2>2. store.issued \in [Request -> Code \cup {NoCode}]
    BY <1>2 DEF Book
  <2>3. CodeOf(r)' = k /\ \A q \in Request \ {r} : CodeOf(q)' = CodeOf(q)
    BY <1>11, <1>12, <2>1, <2>2 DEF CodeOf
  <2>. QED BY <1>1, <2>1, <2>3 DEF MintStep, CodeOf, Minted
<1>. QED BY <1>12, <1>13

\* A request without a record is decided: the mode says whether it mints.
LEMMA Decides ==
  ASSUME BooksInv, NEW r \in Request, NEW mode, up, UNCHANGED up, Decide(r, mode)
  PROVE  /\ BooksInv'
         /\ CodeOf(r) = NoCode
         /\ mode # "normal"
         /\ \/ mode \in Mints /\ MintStep(r)
            \/ mode \notin Mints /\ Kept
<1>1. CodeOf(r) = NoCode /\ ~Minted(store, r)
  BY DEF Decide, Minted, CodeOf, Records
<1>2. PICK drawn \in NextMode : mode = Blocks(drawn)
  BY DEF Decide
<1>3. mode # "normal"
  BY <1>2 DEF Blocks, NextMode
<1>4. CASE mode \in Mints
  <2>1. \E s \in Minting(r) : Write(s)
    BY <1>4 DEF Decide
  <2>2. Remaining(store) # 0
    BY <1>2, <1>4 DEF Blocks, Mints
  <2>. QED BY <1>1, <1>3, <1>4, <2>1, <2>2, MintsOne
<1>5. CASE mode \notin Mints
  BY <1>1, <1>3, <1>5, SameBooks DEF Decide
<1>. QED BY <1>4, <1>5

\* A write that throws does not take the code back.
LEMMA ThrowingMints ==
  ASSUME BooksInv, NEW r \in Request, up, UNCHANGED up, DecideThrows(r)
  PROVE  BooksInv' /\ MintStep(r)
<1>1. ~Minted(store, r) /\ \E s \in Minting(r) : WriteThrows(s)
  BY DEF DecideThrows
<1>2. Remaining(store) # 0
  BY DEF DecideThrows, Blocks, Mints
<1>. QED BY <1>1, <1>2, MintsOne

\* _control, crashes and restarts keep the records or lose them.
Surroundings ==
  \/ \E mode \in Mode, times \in {Always, 2} : SetScenario(mode, times)
  \/ \E count \in RestockCounts : Restock(count)
  \/ Reset
  \/ Crash
  \/ TearFile
  \/ Restart

LEMMA SurroundingsBooks ==
  ASSUME BooksInv, Surroundings
  PROVE  BooksInv' /\ (Kept \/ Lost)
<1>1. ASSUME NEW mode, NEW times, SetScenario(mode, times) PROVE BooksInv' /\ Kept
  BY <1>1, SameBooks DEF SetScenario
<1>2. ASSUME NEW count \in RestockCounts, Restock(count) PROVE BooksInv' /\ Kept
  <2>. DEFINE s == [store EXCEPT !.size = store.consumed + count]
  <2>1. Balanced(store) /\ store \in Book /\ count \in Nat
    BY ExchangeAssumption DEF BooksInv, Balanced
  <2>2. s \in Book /\ s.issued = store.issued /\ s.consumed = store.consumed /\ s.size = store.consumed + count
    BY <2>1 DEF Book
  <2>3. MintedIn(s) = MintedIn(store)
    BY <2>2 DEF MintedIn, Minted
  <2>4. s.consumed <= s.size
    BY <2>1, <2>2 DEF Book
  <2>5. Balanced(s)
    BY <2>1, <2>2, <2>3, <2>4 DEF Balanced
  <2>6. (Write(s) \/ WriteThrows(s)) /\ up /\ UNCHANGED up
    BY <1>2 DEF Restock, Control
  <2>. HIDE DEF s
  <2>7. BooksInv' /\ Records' = s /\ Records = store
    BY <2>5, <2>6, WriteBooks DEF Records
  <2>. QED BY <2>2, <2>7 DEF Kept, CodeOf
<1>3. ASSUME Reset PROVE BooksInv' /\ Lost
  <2>1. (Write(EmptyStore) \/ WriteThrows(EmptyStore)) /\ up /\ UNCHANGED up /\ wiped'
    BY <1>3 DEF Reset, Control
  <2>. QED BY <2>1, EmptyBalanced, WriteBooks DEF Lost
<1>4. ASSUME Crash PROVE BooksInv' /\ (Kept \/ Lost)
  <2>1. up /\ up' = FALSE /\ store' = EmptyStore /\ file' = file /\ wiped' = (wiped \/ ~Persist \/ behind)
    BY <1>4 DEF Crash, Die
  <2>2. Loaded' = Loaded /\ Records = store /\ Records' = Loaded
    BY <2>1 DEF Loaded, Records
  <2>3. BooksInv'
    BY <2>1, <2>2, EmptyBalanced DEF BooksInv, Balanced
  <2>4. CASE Persist /\ ~behind
    BY <2>1, <2>2, <2>3, <2>4 DEF BooksInv, Kept, CodeOf
  <2>5. CASE ~Persist \/ behind
    BY <2>1, <2>3, <2>5 DEF Lost
  <2>. QED BY <2>4, <2>5
<1>5. ASSUME TearFile PROVE BooksInv' /\ Lost
  <2>1. up' = FALSE /\ store' = EmptyStore /\ file' = NoFile /\ wiped'
    BY <1>5 DEF TearFile, Die
  <2>2. Loaded' = EmptyStore
    BY <2>1 DEF Loaded
  <2>3. BooksInv'
    BY <2>1, <2>2, EmptyBalanced DEF BooksInv, Balanced
  <2>. QED BY <2>1, <2>3 DEF Lost
<1>6. ASSUME Restart PROVE BooksInv' /\ Kept
  <2>1. ~up /\ up' = TRUE /\ store' = Loaded /\ file' = file
    BY <1>6 DEF Restart
  <2>2. Loaded' = Loaded /\ Records = Loaded /\ Records' = Loaded
    BY <2>1 DEF Loaded, Records
  <2>3. BooksInv'
    BY <2>1, <2>2 DEF BooksInv, Balanced
  <2>. QED BY <2>2, <2>3 DEF Kept, CodeOf
<1>. QED BY <1>1, <1>2, <1>3, <1>4, <1>5, <1>6 DEF Surroundings

-----------------------------------------------------------------------------
(* The calls that are out.                                                 *)

Call == [pc : {"idle", "sent", "hung", "answered"}, req : Request \cup {NoRequest},
         lookup : BOOLEAN, again : BOOLEAN, answer : Answer]

\* What the supplier sends back without a code.
Refusals == {Error(409, TRUE), Error(400, FALSE), Error(500, FALSE), Garbage(500), Error(404, FALSE)}

\* The request has no code, as far as anybody can know.
Unminted(r) == wiped \/ r \in doubt \/ CodeOf(r) = NoCode

\* An answer on its way is still true: its code is on record, or there is none.
\* The 500 page says nothing.
AnswerTrue(c) ==
  \/ \E k \in Code : call[c].answer = Ok(Req(c), k) /\ (wiped \/ CodeOf(Req(c)) = k)
  \/ call[c].answer \in Refusals /\ Unminted(Req(c))
  \/ call[c].answer = Garbage(500)

\* A call that is out is for a request that was asked and is not over, and a
\* request that is sent for the first time has no record.
CallSound(c) ==
  At(c, "idle") \/
    /\ Req(c) \in asked
    /\ Req(c) \in refused => Req(c) \in doubt
    /\ At(c, "sent") /\ ~call[c].again => Unminted(Req(c))
    /\ At(c, "answered") => AnswerTrue(c)

\* Who has the same request out as somebody else, has it in doubt.
OneOut ==
  \A c, d \in Caller : c # d /\ ~At(c, "idle") /\ ~At(d, "idle") /\ Req(c) = Req(d) => Req(c) \in doubt

CallsInv ==
  /\ call \in [Caller -> Call]
  /\ asked \subseteq Request
  /\ stray \subseteq asked \cap doubt
  /\ OneOut
  /\ \A c \in Caller : CallSound(c)

\* What callers were told, and no code twice.
HeardInv ==
  /\ told \subseteq Request \X Code
  /\ refused \subseteq Request
  /\ \A r \in refused : Unminted(r)
  /\ ~wiped => /\ \A p \in told : CodeOf(p[1]) = p[2]
               /\ \A q, r \in Request : q # r /\ CodeOf(q) # NoCode => CodeOf(q) # CodeOf(r)
               /\ \A r \in Request : CodeOf(r) # NoCode => r \in asked

IInv == BooksInv /\ CallsInv /\ HeardInv

LEMMA InitIInv == Init => IInv
<1>. SUFFICES ASSUME Init PROVE IInv
  OBVIOUS
<1>1. Loaded = EmptyStore /\ Records = EmptyStore
  BY DEF Init, Loaded, Records
<1>2. BooksInv
  BY <1>1, EmptyBalanced DEF Init, BooksInv
<1>3. \A r \in Request : CodeOf(r) = NoCode
  BY <1>1 DEF CodeOf, EmptyStore
<1>4. NoCall \in Call
  BY DEF NoCall, Call, Answer, HttpStatus, Body, Garbage
<1>5. \A c \in Caller : At(c, "idle")
  BY DEF Init, At, NoCall
<1>6. CallsInv
  BY <1>4, <1>5 DEF Init, CallsInv, OneOut, CallSound
<1>7. HeardInv
  BY <1>3 DEF Init, HeardInv, Unminted
<1>. QED BY <1>2, <1>6, <1>7 DEF IInv

\* The records as far as one request is concerned: it keeps its code unless all
\* are lost, and gets one only if its own call or a stray POST is decided.
LEMMA Bystander ==
  ASSUME NEW d \in Caller, CallSound(d), Req(d) \in Request \/ At(d, "idle"),
         UNCHANGED call[d], asked \subseteq asked', doubt \subseteq doubt', wiped => wiped',
         Req(d) \in refused' => Req(d) \in refused \cup doubt',
         Kept \/ Lost \/ (\E r \in Request : MintStep(r) /\ (At(d, "idle") \/ Req(d) # r \/ r \in doubt'))
  PROVE  CallSound(d)'
<1>1. Req(d)' = Req(d) /\ \A pc : At(d, pc)' <=> At(d, pc)
  BY DEF Req, At
<1>. SUFFICES ASSUME ~At(d, "idle") PROVE CallSound(d)'
  BY <1>1 DEF CallSound
<1>2. \/ CodeOf(Req(d))' = CodeOf(Req(d))
      \/ wiped'
      \/ CodeOf(Req(d)) = NoCode /\ Req(d) \in doubt'
  <2>1. PICK q \in Request : q = Req(d) /\ q = Req(d)'
    BY <1>1
  <2>2. \/ CodeOf(q)' = CodeOf(q)
        \/ wiped'
        \/ CodeOf(q) = NoCode /\ q \in doubt'
    BY <2>1 DEF Kept, Lost, MintStep
  <2>3. CodeOf(Req(d))' = CodeOf(q)'
    BY <2>1 DEF CodeOf
  <2>. QED BY <2>1, <2>2, <2>3
<1>3. At(d, "answered") => AnswerTrue(d)'
  <2>. SUFFICES ASSUME At(d, "answered") PROVE AnswerTrue(d)'
    OBVIOUS
  <2>1. AnswerTrue(d)
    BY DEF CallSound
  <2>2. CASE \E k \in Code : call[d].answer = Ok(Req(d), k) /\ (wiped \/ CodeOf(Req(d)) = k)
    <3>1. NoCode \notin Code
      BY ExchangeAssumption
    <3>. QED BY <1>1, <1>2, <2>2, <3>1 DEF AnswerTrue
  <2>3. CASE call[d].answer \in Refusals /\ Unminted(Req(d))
    BY <1>1, <1>2, <2>3 DEF AnswerTrue, Unminted
  <2>4. CASE call[d].answer = Garbage(500)
    BY <2>4 DEF AnswerTrue
  <2>. QED BY <2>1, <2>2, <2>3, <2>4 DEF AnswerTrue
<1>4. Unminted(Req(d)) => Unminted(Req(d))'
  BY <1>1, <1>2 DEF Unminted
<1>. QED BY <1>1, <1>3, <1>4 DEF CallSound

\* What was heard stays right while nothing is heard.
LEMMA NothingHeard ==
  ASSUME HeardInv, UNCHANGED <<told, refused>>, asked \subseteq asked', doubt \subseteq doubt', wiped => wiped',
         Kept \/ Lost \/ (\E r \in Request : MintStep(r) /\ r \in asked' /\ (r \in refused => r \in doubt'))
  PROVE  HeardInv'
<1>1. CASE Kept
  <2>1. \A p \in told : p[1] \in Request
    BY DEF HeardInv
  <2>. QED BY <1>1, <2>1 DEF HeardInv, Kept, Unminted
<1>2. CASE Lost
  BY <1>2 DEF HeardInv, Lost, Unminted
<1>3. ASSUME NEW r \in Request, MintStep(r), r \in asked', r \in refused => r \in doubt'
      PROVE  HeardInv'
  <2>1. \A p \in told : p[1] \in Request /\ p[2] \in Code
    BY DEF HeardInv
  <2>2. ~wiped' => \A p \in told : CodeOf(p[1])' = p[2]
    <3>. SUFFICES ASSUME ~wiped', NEW p \in told PROVE CodeOf(p[1])' = p[2]
      OBVIOUS
    <3>1. CodeOf(p[1]) = p[2] /\ CodeOf(p[1]) # NoCode
      BY <2>1, ExchangeAssumption DEF HeardInv
    <3>. QED BY <1>3, <2>1, <3>1 DEF MintStep
  <2>3. \A q \in refused : Unminted(q)'
    BY <1>3 DEF HeardInv, MintStep, Unminted
  <2>4. ~wiped' => \A p, q \in Request : p # q /\ CodeOf(p)' # NoCode => CodeOf(p)' # CodeOf(q)'
    BY <1>3 DEF HeardInv, MintStep
  <2>5. ~wiped' => \A q \in Request : CodeOf(q)' # NoCode => q \in asked'
    BY <1>3 DEF HeardInv, MintStep
  <2>. QED BY <2>2, <2>3, <2>4, <2>5 DEF HeardInv
<1>. QED BY <1>1, <1>2, <1>3

\* A step that touches no call.
LEMMA NoCallMoves ==
  ASSUME IInv, BooksInv', UNCHANGED <<call, asked, doubt, told, refused>>, stray' \subseteq stray, wiped => wiped',
         Kept \/ Lost \/ (\E r \in stray : MintStep(r))
  PROVE  IInv'
<1>1. \A r \in stray : r \in Request /\ r \in asked /\ r \in doubt
  BY DEF IInv, CallsInv
<1>2. HeardInv'
  BY <1>1, NothingHeard DEF IInv
<1>3. ASSUME NEW d \in Caller PROVE CallSound(d)'
  <2>1. CallSound(d) /\ (Req(d) \in Request \/ At(d, "idle"))
    BY DEF IInv, CallsInv, CallSound
  <2>. QED BY <1>1, <2>1, Bystander
<1>4. CallsInv'
  BY <1>3 DEF IInv, CallsInv, OneOut, At, Req
<1>. QED BY <1>2, <1>4 DEF IInv

LEMMA SurroundingsIInv == ASSUME IInv, Surroundings PROVE IInv'
<1>1. BooksInv' /\ (Kept \/ Lost)
  BY SurroundingsBooks DEF IInv
<1>2. UNCHANGED <<call, asked, doubt, told, refused>> /\ stray' \subseteq stray /\ (wiped => wiped')
  <2>1. CASE \E mode \in Mode, times \in {Always, 2} : SetScenario(mode, times)
    BY <2>1 DEF SetScenario, heardVars
  <2>2. CASE \E count \in RestockCounts : Restock(count)
    BY <2>2 DEF Restock, heardVars
  <2>3. CASE Reset \/ TearFile \/ Restart
    BY <2>3 DEF Reset, TearFile, Restart, heardVars
  <2>4. CASE Crash
    BY <2>4 DEF Crash, heardVars
  <2>. QED BY <2>1, <2>2, <2>3, <2>4 DEF Surroundings
<1>. QED BY <1>1, <1>2, NoCallMoves

LEMMA HandleStrayIInv == ASSUME IInv, NEW r \in Request, HandleStray(r) PROVE IInv'
<1>1. /\ UNCHANGED <<call, asked, doubt, told, refused>>
      /\ stray' \subseteq stray
      /\ wiped => wiped'
      /\ r \in stray
      /\ up /\ UNCHANGED up
  BY DEF HandleStray, heardVars
<1>2. CASE Replay(r)
  BY <1>1, <1>2, SameBooks, NoCallMoves DEF Replay, IInv
<1>3. ASSUME NEW mode \in Mode, Decide(r, mode) PROVE IInv'
  <2>1. BooksInv' /\ (Kept \/ MintStep(r))
    BY <1>1, <1>3, Decides DEF IInv
  <2>. QED BY <1>1, <2>1, NoCallMoves
<1>4. CASE DecideThrows(r)
  BY <1>1, <1>4, ThrowingMints, NoCallMoves DEF IInv
<1>. QED BY <1>2, <1>3, <1>4 DEF HandleStray

\* A step of one call that nobody hears of.
LEMMA CallMoves ==
  ASSUME IInv, BooksInv', NEW c \in Caller, call' \in [Caller -> Call],
         \A d \in Caller \ {c} : call'[d] = call[d],
         ~At(c, "idle"), Req(c)' = Req(c), CallSound(c)',
         UNCHANGED <<asked, doubt, stray, told, refused, wiped>>,
         Kept \/ MintStep(Req(c))
  PROVE  IInv'
<1>1. Req(c) \in Request /\ Req(c) \in asked /\ (Req(c) \in refused => Req(c) \in doubt)
  BY DEF IInv, CallsInv, CallSound
<1>2. HeardInv'
  BY <1>1, NothingHeard DEF IInv
<1>3. \A d \in Caller \ {c} : (Req(d)' = Req(d)) /\ (At(d, "idle")' <=> At(d, "idle"))
  BY DEF Req, At
<1>4. OneOut'
  BY <1>3 DEF IInv, CallsInv, OneOut
<1>5. ASSUME NEW d \in Caller \ {c} PROVE CallSound(d)'
  <2>1. CallSound(d) /\ (Req(d) \in Request \/ At(d, "idle"))
    BY DEF IInv, CallsInv, CallSound
  <2>2. At(d, "idle") \/ Req(d) # Req(c) \/ Req(c) \in doubt
    BY DEF IInv, CallsInv, OneOut
  <2>. QED BY <1>1, <2>1, <2>2, Bystander
<1>6. CallsInv'
  BY <1>4, <1>5 DEF IInv, CallsInv
<1>. QED BY <1>2, <1>6 DEF IInv

\* The supplier's side of a call moves on.
LEMMA ReplyMoves ==
  ASSUME call \in [Caller -> Call], NEW c \in Caller, NEW a \in Answer, Reply(c, a)
  PROVE  /\ call' \in [Caller -> Call]
         /\ \A d \in Caller \ {c} : call'[d] = call[d]
         /\ Req(c)' = Req(c)
         /\ At(c, "answered")'
         /\ call'[c].answer = a
BY DEF Reply, Call, Req, At

LEMMA HangMoves ==
  ASSUME call \in [Caller -> Call], NEW c \in Caller, Hang(c)
  PROVE  /\ call' \in [Caller -> Call]
         /\ \A d \in Caller \ {c} : call'[d] = call[d]
         /\ Req(c)' = Req(c)
         /\ At(c, "hung")'
BY DEF Hang, Call, Req, At

LEMMA AnswerTypes ==
  /\ Refusals \subseteq Answer
  /\ \A r \in Request, k \in Code : Ok(r, k) \in Answer
BY DEF Refusals, Answer, HttpStatus, Body, Ok, Error, Garbage

-----------------------------------------------------------------------------
(* One lemma per action of a caller.                                       *)

LEMMA SendIInv ==
  ASSUME IInv, NEW c \in Caller, NEW r \in Request, NEW lookup \in BOOLEAN, Send(c, r, lookup)
  PROVE  IInv'
<1>. DEFINE new == [NoCall EXCEPT !.pc = "sent", !.req = r, !.lookup = lookup, !.again = (r \in asked)]
<1>1. /\ UNCHANGED <<up, bookVars, stray, told, refused, wiped>>
      /\ At(c, "idle")
      /\ r \notin refused
      /\ call' = [call EXCEPT ![c] = new]
      /\ asked' = asked \cup {r}
      /\ doubt \subseteq doubt'
      /\ Out(r) => r \in doubt'
  BY DEF Send, stubVars, heardVars, Settled
<1>2. call \in [Caller -> Call] /\ BooksInv /\ HeardInv
  BY DEF IInv, CallsInv
<1>3. new \in Call /\ new.pc = "sent" /\ new.req = r /\ (~new.again => r \notin asked)
  <2>1. PICK again \in BOOLEAN : again <=> r \in asked
    OBVIOUS
  <2>2. new = [NoCall EXCEPT !.pc = "sent", !.req = r, !.lookup = lookup, !.again = again]
    BY <2>1
  <2>3. NoCall \in Call
    BY DEF NoCall, Call, Answer, HttpStatus, Body, Garbage
  <2>. HIDE DEF new
  <2>. QED BY <2>1, <2>2, <2>3 DEF Call
<1>. HIDE DEF new
<1>4. BooksInv' /\ Kept
  BY <1>1, <1>2, SameBooks
<1>5. HeardInv'
  BY <1>1, <1>2, <1>4, NothingHeard
<1>6. call' \in [Caller -> Call] /\ call'[c] = new /\ \A d \in Caller \ {c} : call'[d] = call[d]
  BY <1>1, <1>2, <1>3
<1>7. Req(c)' = r /\ At(c, "sent")' /\ ~At(c, "idle")' /\ ~At(c, "answered")'
  BY <1>3, <1>6 DEF Req, At
<1>8. CallSound(c)'
  <2>1. r \notin asked => Unminted(r)'
    BY <1>1, <1>2, <1>4 DEF HeardInv, Kept, Unminted
  <2>2. Unminted(Req(c))' <=> Unminted(r)'
    BY <1>7 DEF Unminted, CodeOf
  <2>. QED BY <1>1, <1>3, <1>6, <1>7, <2>1, <2>2 DEF CallSound
<1>9. ASSUME NEW d \in Caller \ {c} PROVE CallSound(d)'
  <2>1. CallSound(d) /\ (Req(d) \in Request \/ At(d, "idle"))
    BY DEF IInv, CallsInv, CallSound
  <2>2. asked \subseteq asked' /\ (Req(d) \in refused' => Req(d) \in refused \cup doubt')
    BY <1>1
  <2>. QED BY <1>1, <1>4, <1>6, <2>1, <2>2, Bystander
<1>10. OneOut'
  <2>1. \A d \in Caller \ {c} : (Req(d)' = Req(d)) /\ (At(d, "idle")' <=> At(d, "idle"))
    BY <1>6 DEF Req, At
  <2>2. \A d \in Caller \ {c} : ~At(d, "idle") /\ Req(d) = r => r \in doubt'
    BY <1>1 DEF Out
  <2>. QED BY <1>1, <1>7, <2>1, <2>2 DEF IInv, CallsInv, OneOut
<1>11. CallsInv'
  BY <1>1, <1>6, <1>8, <1>9, <1>10 DEF IInv, CallsInv
<1>. QED BY <1>4, <1>5, <1>11 DEF IInv

\* A record and what is answered from it.
LEMMA AnsweredFromRecord ==
  ASSUME BooksInv, NEW r \in Request, up, Minted(store, r)
  PROVE  CodeOf(r) \in Code /\ CodeOf(r) = store.issued[r]
<1>1. store \in Book /\ Records = store
  BY DEF BooksInv, Balanced, Records
<1>. QED BY <1>1 DEF Book, CodeOf, Minted

\* The POST is decided while its caller waits.
LEMMA HandlePostIInv == ASSUME IInv, NEW c \in Caller, HandlePost(c) PROVE IInv'
<1>1. /\ UNCHANGED <<up, asked, doubt, stray, told, refused, wiped>>
      /\ up
      /\ At(c, "sent")
      /\ ~At(c, "idle")
  BY DEF HandlePost, heardVars, At
<1>2. PICK r \in Request : r = Req(c)
  BY <1>1 DEF IInv, CallsInv, CallSound
<1>3. BooksInv /\ call \in [Caller -> Call] /\ r \in asked /\ (r \in refused => r \in doubt)
  BY <1>1, <1>2 DEF IInv, CallsInv, CallSound
<1>4. ASSUME NEW k \in Code, Reply(c, Ok(r, k)), CodeOf(r)' = k, BooksInv', Kept \/ MintStep(r) PROVE IInv'
  <2>1. /\ call' \in [Caller -> Call]
        /\ \A d \in Caller \ {c} : call'[d] = call[d]
        /\ Req(c)' = Req(c)
        /\ At(c, "answered")'
        /\ call'[c].answer = Ok(r, k)
    BY <1>3, <1>4, ReplyMoves, AnswerTypes
  <2>2. CodeOf(Req(c))' = k
    BY <1>2, <1>4, <2>1 DEF CodeOf
  <2>3. AnswerTrue(c)'
    BY <1>2, <2>1, <2>2 DEF AnswerTrue
  <2>4. CallSound(c)'
    BY <1>1, <1>2, <1>3, <2>1, <2>3 DEF CallSound, At
  <2>. QED BY <1>1, <1>2, <1>4, <2>1, <2>4, CallMoves
<1>5. ASSUME NEW a \in Refusals, Reply(c, a), BooksInv',
             (CodeOf(r) = NoCode /\ Kept) \/ (a = Garbage(500) /\ MintStep(r))
      PROVE  IInv'
  <2>1. /\ call' \in [Caller -> Call]
        /\ \A d \in Caller \ {c} : call'[d] = call[d]
        /\ Req(c)' = Req(c)
        /\ At(c, "answered")'
        /\ call'[c].answer = a
    BY <1>3, <1>5, ReplyMoves, AnswerTypes
  <2>2. CodeOf(Req(c))' = NoCode \/ a = Garbage(500)
    BY <1>2, <1>5, <2>1 DEF CodeOf, Kept
  <2>3. AnswerTrue(c)'
    BY <2>1, <2>2 DEF AnswerTrue, Refusals, Unminted
  <2>4. CallSound(c)'
    BY <1>1, <1>2, <1>3, <2>1, <2>3 DEF CallSound, At
  <2>. QED BY <1>1, <1>2, <1>5, <2>1, <2>4, CallMoves
<1>6. ASSUME Hang(c), BooksInv', Kept \/ MintStep(r) PROVE IInv'
  <2>1. /\ call' \in [Caller -> Call]
        /\ \A d \in Caller \ {c} : call'[d] = call[d]
        /\ Req(c)' = Req(c)
        /\ At(c, "hung")'
    BY <1>3, <1>6, HangMoves
  <2>2. CallSound(c)'
    BY <1>1, <1>2, <1>3, <2>1 DEF CallSound, At
  <2>. QED BY <1>1, <1>2, <1>6, <2>1, <2>2, CallMoves
<1>7. CASE Replay(r) /\ Reply(c, Ok(r, store.issued[r]))
  <2>1. BooksInv' /\ Kept
    BY <1>1, <1>3, <1>7, SameBooks DEF Replay
  <2>2. CodeOf(r) \in Code /\ CodeOf(r) = store.issued[r]
    BY <1>1, <1>3, <1>7, AnsweredFromRecord DEF Replay
  <2>3. CodeOf(r)' = CodeOf(r)
    BY <2>1 DEF Kept
  <2>. QED BY <1>4, <1>7, <2>1, <2>2, <2>3
<1>8. ASSUME NEW mode \in Mode, Decide(r, mode),
             IF mode = "ok" THEN Reply(c, Ok(r, store'.issued[r]))
             ELSE IF mode \in {"issue_then_hang", "timeout", "refuse"} THEN Hang(c)
             ELSE Reply(c, BlockedAnswer(mode))
      PROVE  IInv'
  <2>1. /\ BooksInv'
        /\ CodeOf(r) = NoCode
        /\ mode # "normal"
        /\ \/ mode \in {"ok", "issue_then_hang"} /\ MintStep(r)
           \/ mode \notin {"ok", "issue_then_hang"} /\ Kept
    BY <1>1, <1>3, <1>8, Decides DEF Mints
  <2>2. CASE mode = "ok"
    <3>1. Records' = store'
      BY <1>1 DEF Records
    <3>2. CodeOf(r)' = store'.issued[r] /\ CodeOf(r)' \in Code
      BY <2>1, <2>2, <3>1 DEF CodeOf, MintStep
    <3>. QED BY <1>4, <1>8, <2>1, <2>2, <3>2
  <2>3. CASE mode \in {"issue_then_hang", "timeout", "refuse"}
    BY <1>6, <1>8, <2>1, <2>3
  <2>4. CASE mode \in {"out_of_stock", "bad_request", "error_5xx", "error_5xx_garbage"}
    <3>1. BlockedAnswer(mode) \in Refusals
      <4>1. CASE mode = "out_of_stock"
        BY <4>1 DEF BlockedAnswer, Refusals
      <4>2. CASE mode = "bad_request"
        BY <4>2 DEF BlockedAnswer, Refusals
      <4>3. CASE mode = "error_5xx"
        BY <4>3 DEF BlockedAnswer, Refusals
      <4>4. CASE mode = "error_5xx_garbage"
        BY <4>4 DEF BlockedAnswer, Refusals
      <4>. QED BY <2>4, <4>1, <4>2, <4>3, <4>4
    <3>2. Reply(c, BlockedAnswer(mode)) /\ Kept
      BY <1>8, <2>1, <2>4
    <3>. QED BY <1>5, <2>1, <3>1, <3>2
  <2>. QED BY <2>1, <2>2, <2>3, <2>4 DEF Mode
<1>9. CASE DecideThrows(r) /\ Reply(c, Garbage(500))
  <2>1. BooksInv' /\ MintStep(r)
    BY <1>1, <1>3, <1>9, ThrowingMints
  <2>2. Garbage(500) \in Refusals
    BY DEF Refusals
  <2>. QED BY <1>5, <1>9, <2>1, <2>2
<1>. QED BY <1>2, <1>7, <1>8, <1>9 DEF HandlePost

\* The lookup is answered.
LEMMA HandleGetIInv == ASSUME IInv, NEW c \in Caller, HandleGet(c) PROVE IInv'
<1>1. /\ UNCHANGED <<up, bookVars, asked, doubt, stray, told, refused, wiped>>
      /\ up
      /\ At(c, "sent")
      /\ ~At(c, "idle")
  BY DEF HandleGet, stubVars, heardVars, At
<1>2. PICK r \in Request : r = Req(c)
  BY <1>1 DEF IInv, CallsInv, CallSound
<1>3. BooksInv /\ call \in [Caller -> Call] /\ r \in asked /\ (r \in refused => r \in doubt)
  BY <1>1, <1>2 DEF IInv, CallsInv, CallSound
<1>4. BooksInv' /\ Kept
  BY <1>1, <1>3, SameBooks
<1>5. PICK a \in Answer : /\ Reply(c, a)
                          /\ \/ \E k \in Code : a = Ok(r, k) /\ CodeOf(r) = k
                             \/ a \in Refusals /\ CodeOf(r) = NoCode
  <2>1. CASE Minted(store, r)
    <3>1. CodeOf(r) \in Code /\ CodeOf(r) = store.issued[r]
      BY <1>1, <1>3, <2>1, AnsweredFromRecord
    <3>. QED BY <1>2, <2>1, <3>1, AnswerTypes DEF HandleGet
  <2>2. CASE ~Minted(store, r)
    <3>1. CodeOf(r) = NoCode
      BY <1>1, <2>2 DEF CodeOf, Records, Minted
    <3>2. Error(404, FALSE) \in Refusals
      BY DEF Refusals
    <3>. QED BY <1>2, <2>2, <3>1, <3>2, AnswerTypes DEF HandleGet
  <2>. QED BY <2>1, <2>2
<1>6. /\ call' \in [Caller -> Call]
      /\ \A d \in Caller \ {c} : call'[d] = call[d]
      /\ Req(c)' = Req(c)
      /\ At(c, "answered")'
      /\ call'[c].answer = a
  BY <1>3, <1>5, ReplyMoves
<1>7. CodeOf(Req(c))' = CodeOf(r)
  BY <1>2, <1>4, <1>6 DEF CodeOf, Kept
<1>8. AnswerTrue(c)'
  BY <1>2, <1>5, <1>6, <1>7 DEF AnswerTrue, Refusals, Unminted
<1>9. CallSound(c)'
  BY <1>1, <1>2, <1>3, <1>6, <1>8 DEF CallSound, At
<1>. QED BY <1>1, <1>4, <1>6, <1>9, CallMoves

-----------------------------------------------------------------------------
(* The caller hears.                                                       *)

\* What is heard is right if a code that is told is on record, and a request
\* that is refused has none; its call was the only one, or it is in doubt.
LEMMA HearsIInv ==
  ASSUME IInv, NEW c \in Caller, NEW outcome, NEW k, Hears(c, outcome, k), ~At(c, "idle"),
         UNCHANGED <<stubVars, asked, wiped>>, doubt \subseteq doubt',
         stray' \subseteq stray \cup ({Req(c)} \cap doubt'),
         outcome = "issued" => k \in Code /\ (wiped \/ CodeOf(Req(c)) = k),
         Refuses(c, outcome) => Req(c) \in doubt' \/ Unminted(Req(c))
  PROVE  IInv'
<1>1. PICK r \in Request : r = Req(c)
  BY DEF IInv, CallsInv, CallSound
<1>2. BooksInv /\ HeardInv /\ call \in [Caller -> Call] /\ r \in asked
  BY <1>1 DEF IInv, CallsInv, CallSound
<1>3. UNCHANGED <<up, bookVars>>
  BY DEF stubVars
<1>4. BooksInv' /\ Kept
  BY <1>2, <1>3, SameBooks
<1>5. call' = [call EXCEPT ![c] = NoCall] /\ NoCall \in Call /\ NoCall.pc = "idle"
  BY DEF Hears, HangUp, NoCall, Call, Answer, HttpStatus, Body, Garbage
<1>6. call' \in [Caller -> Call] /\ At(c, "idle")' /\ \A d \in Caller \ {c} : call'[d] = call[d]
  BY <1>2, <1>5 DEF At
<1>7. told' = told \/ (told' = told \cup {<<r, k>>} /\ k \in Code /\ (wiped \/ CodeOf(r) = k))
  BY <1>1 DEF Hears
<1>8. refused' = refused \/ (refused' = refused \cup {r} /\ (r \in doubt' \/ Unminted(r)))
  BY <1>1 DEF Hears
<1>9. HeardInv'
  <2>1. told' \subseteq Request \X Code /\ refused' \subseteq Request
    BY <1>2, <1>7, <1>8 DEF HeardInv
  <2>2. ~wiped' => \A p \in told' : CodeOf(p[1])' = p[2]
    <3>. SUFFICES ASSUME ~wiped, NEW p \in told' PROVE CodeOf(p[1])' = p[2]
      OBVIOUS
    <3>1. p[1] \in Request
      BY <2>1
    <3>2. CodeOf(p[1])' = CodeOf(p[1])
      BY <1>4, <3>1 DEF Kept
    <3>3. CASE p \in told
      BY <1>2, <3>2, <3>3 DEF HeardInv
    <3>4. CASE p \notin told
      BY <1>7, <3>2, <3>4
    <3>. QED BY <3>3, <3>4
  <2>3. \A q \in refused' : Unminted(q)'
    BY <1>2, <1>4, <1>8, <2>1 DEF HeardInv, Kept, Unminted
  <2>4. ~wiped' => \A p, q \in Request : p # q /\ CodeOf(p)' # NoCode => CodeOf(p)' # CodeOf(q)'
    BY <1>2, <1>4 DEF HeardInv, Kept
  <2>5. ~wiped' => \A q \in Request : CodeOf(q)' # NoCode => q \in asked'
    BY <1>2, <1>4 DEF HeardInv, Kept
  <2>. QED BY <2>1, <2>2, <2>3, <2>4, <2>5 DEF HeardInv
<1>10. ASSUME NEW d \in Caller \ {c} PROVE CallSound(d)'
  <2>1. CallSound(d) /\ (Req(d) \in Request \/ At(d, "idle"))
    BY DEF IInv, CallsInv, CallSound
  <2>2. At(d, "idle") \/ Req(d) # r \/ r \in doubt'
    BY <1>1 DEF IInv, CallsInv, OneOut
  <2>3. CASE At(d, "idle")
    BY <1>6, <2>3 DEF CallSound, At
  <2>4. CASE ~At(d, "idle")
    <3>1. Req(d) \in refused' => Req(d) \in refused \cup doubt'
      BY <1>8, <2>2, <2>4
    <3>. QED BY <1>4, <1>6, <2>1, <3>1, Bystander
  <2>. QED BY <2>3, <2>4
<1>11. CallSound(c)'
  BY <1>6 DEF CallSound
<1>12. OneOut'
  <2>1. \A d \in Caller \ {c} : (Req(d)' = Req(d)) /\ (At(d, "idle")' <=> At(d, "idle"))
    BY <1>6 DEF Req, At
  <2>. QED BY <1>6, <2>1 DEF IInv, CallsInv, OneOut
<1>13. CallsInv'
  BY <1>1, <1>2, <1>6, <1>10, <1>11, <1>12 DEF IInv, CallsInv
<1>. QED BY <1>4, <1>9, <1>13 DEF IInv

\* An answer with a code is a success for the request it echoes only.
LEMMA OkMeansIssued ==
  ASSUME NEW c \in Caller, NEW r \in Request, NEW k, Classify(c, Ok(r, k)) # "unknown"
  PROVE  Classify(c, Ok(r, k)) = "issued" /\ r = Req(c)
BY DEF Classify, ClassifyLookup, ClassifyResponse, IsSupplierSuccessBody, MatchesRequestId, Ok

\* A success is never refused.
LEMMA IssuedIsNotRefused == \A c \in Caller : ~Refuses(c, "issued") /\ ~Refuses(c, "unknown")
BY DEF Refuses, Definite

\* An answer without a code is no success, and a page of the network's is nothing.
LEMMA NoCodeMeansNotIssued ==
  ASSUME NEW c \in Caller
  PROVE  /\ \A a \in Refusals : Classify(c, a) # "issued"
         /\ Classify(c, Garbage(500)) = "unknown"
<1>1. ASSUME NEW a \in Refusals PROVE a.http >= 400
  BY DEF Refusals, Error, Garbage
<1>2. ASSUME NEW a \in Refusals PROVE Classify(c, a) # "issued"
  <2>1. ~(a.http < 400) /\ a.http >= 400
    BY <1>1 DEF Refusals, Error, Garbage
  <2>. QED BY <2>1 DEF Classify, ClassifyLookup, ClassifyResponse, ClassifyHttpStatus
<1>3. Classify(c, Garbage(500)) = "unknown"
  BY DEF Classify, ClassifyLookup, ClassifyResponse, ClassifyHttpStatus, IsSupplierErrorBody, Garbage
<1>. QED BY <1>2, <1>3

LEMMA HearIInv == ASSUME IInv, NEW c \in Caller, Hear(c) PROVE IInv'
<1>. DEFINE a == call[c].answer
<1>1. /\ Hears(c, Classify(c, a), a.body.code)
      /\ UNCHANGED <<stubVars, asked, wiped, doubt, stray>>
      /\ At(c, "answered")
      /\ ~At(c, "idle")
  BY DEF Hear, At
<1>2. AnswerTrue(c) /\ Req(c) \in Request
  BY <1>1 DEF IInv, CallsInv, CallSound
<1>3. Classify(c, a) = "issued" => a.body.code \in Code /\ (wiped \/ CodeOf(Req(c)) = a.body.code)
  <2>1. CASE \E k \in Code : a = Ok(Req(c), k) /\ (wiped \/ CodeOf(Req(c)) = k)
    BY <2>1 DEF Ok
  <2>2. CASE a \in Refusals
    BY <2>2, NoCodeMeansNotIssued
  <2>3. CASE a = Garbage(500)
    BY <2>3, NoCodeMeansNotIssued
  <2>. QED BY <1>2, <2>1, <2>2, <2>3 DEF AnswerTrue
<1>4. Refuses(c, Classify(c, a)) => Unminted(Req(c))
  <2>1. CASE \E k \in Code : a = Ok(Req(c), k)
    BY <1>2, <2>1, OkMeansIssued, IssuedIsNotRefused
  <2>2. CASE a = Garbage(500)
    BY <2>2, NoCodeMeansNotIssued, IssuedIsNotRefused
  <2>. QED BY <1>2, <2>1, <2>2 DEF AnswerTrue
<1>. HIDE DEF a
<1>. QED BY <1>1, <1>3, <1>4, HearsIInv

LEMMA HearMiddlemanIInv == ASSUME IInv, NEW c \in Caller, HearMiddleman(c) PROVE IInv'
<1>1. /\ UNCHANGED <<stubVars, asked, wiped, doubt, stray>>
      /\ ~At(c, "idle")
  BY DEF HearMiddleman
<1>2. PICK a : /\ a = Garbage(500) \/ \E r \in Request \ {Req(c)} : a = Ok(r, store.issued[r])
               /\ Hears(c, Classify(c, a), a.body.code)
  BY DEF HearMiddleman
<1>3. Classify(c, a) = "unknown"
  BY <1>2, NoCodeMeansNotIssued, OkMeansIssued
<1>. QED BY <1>1, <1>2, <1>3, IssuedIsNotRefused, HearsIInv

\* A POST that was never sent before cannot have a record.
LEMMA HearRefusedIInv == ASSUME IInv, NEW c \in Caller, HearRefused(c) PROVE IInv'
<1>1. /\ Hears(c, "unavailable", NoCode)
      /\ UNCHANGED <<stubVars, asked, wiped, stray>>
      /\ At(c, "sent")
      /\ ~At(c, "idle")
      /\ doubt \subseteq doubt'
      /\ call[c].again => Req(c) \in doubt'
  BY DEF HearRefused, ClassifyNetworkError, At
<1>2. Req(c) \in doubt' \/ Unminted(Req(c))
  BY <1>1 DEF IInv, CallsInv, CallSound
<1>. QED BY <1>1, <1>2, HearsIInv

LEMMA HearResetIInv == ASSUME IInv, NEW c \in Caller, HearReset(c) PROVE IInv'
<1>1. /\ Hears(c, "unknown", NoCode)
      /\ UNCHANGED <<stubVars, asked, wiped, doubt, stray>>
      /\ ~At(c, "idle")
  BY DEF HearReset, ClassifyNetworkError
<1>. QED BY <1>1, IssuedIsNotRefused, HearsIInv

LEMMA GiveUpIInv == ASSUME IInv, NEW c \in Caller, GiveUp(c) PROVE IInv'
<1>1. /\ Hears(c, "unknown", NoCode)
      /\ UNCHANGED <<stubVars, asked, wiped>>
      /\ ~At(c, "idle")
      /\ doubt \subseteq doubt'
      /\ stray' \subseteq stray \cup ({Req(c)} \cap doubt')
  BY DEF GiveUp, ClassifyNetworkError
<1>. QED BY <1>1, IssuedIsNotRefused, HearsIInv

-----------------------------------------------------------------------------
LEMMA NextIInv == IInv /\ [Next]_vars => IInv'
<1>. SUFFICES ASSUME IInv, [Next]_vars PROVE IInv'
  OBVIOUS
<1>1. ASSUME NEW c \in Caller, NEW r \in Request, NEW lookup \in BOOLEAN, Send(c, r, lookup) PROVE IInv'
  BY <1>1, SendIInv
<1>2. ASSUME NEW c \in Caller, HandlePost(c) PROVE IInv'
  BY <1>2, HandlePostIInv
<1>3. ASSUME NEW c \in Caller, HandleGet(c) PROVE IInv'
  BY <1>3, HandleGetIInv
<1>4. ASSUME NEW c \in Caller, Hear(c) \/ HearMiddleman(c) \/ HearRefused(c) \/ HearReset(c) \/ GiveUp(c) PROVE IInv'
  BY <1>4, HearIInv, HearMiddlemanIInv, HearRefusedIInv, HearResetIInv, GiveUpIInv
<1>5. ASSUME NEW r \in Request, HandleStray(r) PROVE IInv'
  BY <1>5, HandleStrayIInv
<1>6. CASE Surroundings
  BY <1>6, SurroundingsIInv
<1>7. CASE UNCHANGED vars
  <2>1. UNCHANGED <<up, bookVars, call, asked, doubt, told, refused, stray, wiped>>
    BY <1>7 DEF vars, stubVars, heardVars
  <2>. QED BY <2>1, SameBooks, NoCallMoves DEF IInv
<1>. QED BY <1>1, <1>2, <1>3, <1>4, <1>5, <1>6, <1>7 DEF Next, Surroundings

LEMMA Invariant == Spec => []IInv
BY InitIInv, NextIInv, PTL DEF Spec

-----------------------------------------------------------------------------
(* The results.                                                            *)

\* A supplier that has not lost its records keeps one code per request_id, gives
\* no code to two requests, and has what it told.
THEOREM ToldIsKept == Spec => []ToldStaysOnRecord
<1>1. ASSUME IInv PROVE ToldStaysOnRecord
  <2>1. \A p \in told : p[1] \in Request
    BY <1>1 DEF IInv, HeardInv
  <2>. QED BY <1>1, <2>1 DEF ToldStaysOnRecord, IInv, HeardInv, CodeOf, Minted
<1>. QED BY <1>1, Invariant, PTL

\* A definite refusal of a request that nobody else had out and whose POST is
\* not under way any more proves that it has no code and will get none.
THEOREM RefusalIsProof == Spec => []RefusalProvesNothingMinted
<1>1. IInv => RefusalProvesNothingMinted
  BY DEF RefusalProvesNothingMinted, IInv, HeardInv, Unminted, CodeOf, Minted
<1>. QED BY <1>1, Invariant, PTL

\* The stock counts the records and is not oversold, across restocks, resets,
\* crashes, writes that throw and torn files.
THEOREM StockIsCounted == Spec => []StockFollowsRecords
<1>1. IInv => StockFollowsRecords
  BY RecordsBalanced DEF StockFollowsRecords, IInv, Balanced, MintedIn
<1>. QED BY <1>1, Invariant, PTL
=============================================================================
