---------------------------- MODULE ReturnsProofs ----------------------------
(***************************************************************************)
(* Whatever the transactions, the stores' configurations and the number of *)
(* operations in flight: the returns keep their types, no line is returned *)
(* beyond what is left of it, what Done submits belongs together and is    *)
(* applied as it was entered, and the sagas throw only where they must.    *)
(***************************************************************************)
EXTENDS Returns, TLAPS, SequenceTheorems

\* The same with and without contention: contention lifts what c guards.
EnteredOK(entry, c) ==
  IsEntered(entry) /\ (~c /\ entry.of # None => Within(entry.of, entry.quantity))

BasketOK(quantities, c) ==
  /\ DOMAIN quantities = Transactions
  /\ \A t \in Transactions : quantities[t] \in [Gathered(t) -> Int]
  /\ ~c => \A t \in Transactions : Within(t, quantities[t])

AnyQuantity == {<<>>} \cup UNION {[Gathered(t) -> Int] : t \in Transactions}

Operations == [kind : OperationKinds, transaction : Transactions \cup {None},
               of : Transactions \cup {None}, quantity : AnyQuantity, changed : BOOLEAN]

OperationOK(operation, c) ==
  /\ QuantityOf(operation.of, operation.quantity)
  /\ operation.kind \in ChoiceKinds => operation.transaction \in Transactions
  /\ ~c /\ operation.of # None => Within(operation.of, operation.quantity)
  /\ ~c /\ operation.kind = "apply" => operation.transaction \in {operation.of, None}

Sound(c) == {operation \in Operations : OperationOK(operation, c)}

Scalars ==
  /\ settings \in Settings /\ screen \in Screens /\ autoMove \in BOOLEAN
  /\ found \subseteq Transactions /\ recorded \subseteq Transactions
  /\ session \in {"none", "transaction", "noReceipt"}
  /\ transaction \in Transactions \cup {None}
  /\ contended \in BOOLEAN /\ halted \in BOOLEAN

\* Without contention, what is shown is what is entered, and it is the only
\* transaction that is asked for.
Shown == ~contended /\ screen = "details" => transaction \in {working.of, None}

Quiet == ~contended => ~Contended(pending, screen, transaction)

IInv ==
  /\ Scalars
  /\ BasketOK(basket, contended)
  /\ EnteredOK(working, contended) /\ EnteredOK(starting, contended)
  /\ pending \in Seq(Sound(contended))
  /\ Shown /\ Quiet

-----------------------------------------------------------------------------
(* What the helpers return.                                                *)

LEMMA AvailableNat ==
  ASSUME NEW t \in Transactions, NEW i \in DOMAIN Sublines[t]
  PROVE  Available(t, i) \in Nat
<1>1. Sublines[t] \in Seq([kind : Kinds, key : Keys, returnable : BOOLEAN, available : Nat])
  BY SublinesAssumption
<1>2. Sublines[t][i] \in [kind : Kinds, key : Keys, returnable : BOOLEAN, available : Nat]
  BY <1>1, LenProperties, ElementOfSeq
<1> QED
  BY <1>2 DEF Available

LEMMA GatheredOK ==
  ASSUME IInv, NEW t \in Transactions
  PROVE  EnteredOK(GatheredQuantities(t), contended)
<1>1. t # None
  BY TransactionsAssumption
<1>2. IsEntered(GatheredQuantities(t))
  BY <1>1 DEF IInv, BasketOK, GatheredQuantities, IsEntered, QuantityOf
<1>3. ~contended => Within(t, basket[t])
  BY DEF IInv, BasketOK
<1> QED
  BY <1>2, <1>3 DEF EnteredOK, GatheredQuantities

LEMMA OperationSound ==
  ASSUME NEW kind \in OperationKinds, NEW t \in Transactions \cup {None}, NEW c \in BOOLEAN,
         kind \in ChoiceKinds => t \in Transactions, kind # "apply"
  PROVE  Operation(kind, t) \in Sound(c)
BY Zenon DEF Operation, Sound, Operations, AnyQuantity, OperationOK, QuantityOf

\* Operations that have lost an entry, or got one more, are sound still.
LEMMA Removed ==
  ASSUME NEW S, NEW s \in Seq(S), NEW k \in DOMAIN s
  PROVE  RemoveAt(s, k) \in Seq(S)
<1>1. k \in 1 .. Len(s) /\ Len(s) \in Nat
  BY LenProperties
<1>2. SubSeq(s, 1, k - 1) \in Seq(S)
  BY <1>1, SubSeqProperties
<1>3. SubSeq(s, k + 1, Len(s)) \in Seq(S)
  BY <1>1, SubSeqProperties
<1> QED
  BY <1>2, <1>3, ConcatProperties DEF RemoveAt

LEMMA SoundMonotonic ==
  ASSUME NEW c \in BOOLEAN, NEW d \in BOOLEAN, c => d, NEW s \in Seq(Sound(c))
  PROVE  s \in Seq(Sound(d))
<1>1. Sound(c) \subseteq Sound(d)
  BY DEF Sound, OperationOK
<1> QED
  BY <1>1, SeqMonotonic

\* The operations stay sound, however they change.
LEMMA PendingSound ==
  ASSUME IInv, contended' \in BOOLEAN, contended => contended'
  PROVE  /\ \A k \in DOMAIN pending : pending[k] \in Sound(contended)
         /\ UNCHANGED pending => pending' \in Seq(Sound(contended'))
         /\ \A k \in DOMAIN pending :
              /\ Answered(k) => pending' \in Seq(Sound(contended'))
              /\ \A operation \in Sound(contended') :
                   pending' = Append(RemoveAt(pending, k), operation)
                     => pending' \in Seq(Sound(contended'))
         /\ \A operations \in Seq(Sound(contended')) :
              Send(operations) => pending' \in Seq(Sound(contended'))
<1>1. pending \in Seq(Sound(contended)) /\ contended \in BOOLEAN
  BY DEF IInv, Scalars
<1>2. pending \in Seq(Sound(contended'))
  BY <1>1, SoundMonotonic
<1>3. \A k \in DOMAIN pending : RemoveAt(pending, k) \in Seq(Sound(contended'))
  BY <1>2, Removed
<1>4. \A k \in DOMAIN pending : pending[k] \in Sound(contended)
  BY <1>1, ElementOfSeq
<1>5. ASSUME NEW k \in DOMAIN pending, NEW operation \in Sound(contended'),
             pending' = Append(RemoveAt(pending, k), operation)
      PROVE  pending' \in Seq(Sound(contended'))
  BY <1>3, <1>5, AppendProperties
<1>6. ASSUME NEW operations \in Seq(Sound(contended')), Send(operations)
      PROVE  pending' \in Seq(Sound(contended'))
  BY <1>2, <1>6, ConcatProperties DEF Send
<1> QED
  BY <1>2, <1>3, <1>4, <1>5, <1>6 DEF Answered
-----------------------------------------------------------------------------
(* What the parts of a step do to the quantities that are entered.         *)

\* Nothing is asked of the contention but that it does not end.
Goes == contended' \in BOOLEAN /\ (contended => contended')

LEMMA Stayed ==
  ASSUME IInv, Goes, UNCHANGED entered
  PROVE  EnteredOK(working', contended') /\ EnteredOK(starting', contended')
BY DEF IInv, Goes, entered, EnteredOK

LEMMA DetailsShown ==
  ASSUME IInv, Goes, NEW t \in Transactions, NEW auto \in BOOLEAN, ShowDetails(t, auto)
  PROVE  /\ EnteredOK(working', contended') /\ EnteredOK(starting', contended')
         /\ working'.of = t /\ screen' = "details" /\ autoMove' \in BOOLEAN /\ UNCHANGED halted
<1>1. EnteredOK(GatheredQuantities(t), contended)
  BY GatheredOK
<1>2. GatheredQuantities(t).of = t
  BY DEF GatheredQuantities
<1>3. /\ working' = GatheredQuantities(t) /\ starting' = GatheredQuantities(t)
      /\ screen' = "details" /\ autoMove' = auto /\ UNCHANGED halted
  BY DEF ShowDetails
<1> QED
  BY <1>1, <1>2, <1>3 DEF EnteredOK, Goes

LEMMA EnteredQuantity ==
  ASSUME IInv, Goes, NEW quantity, NEW typed \in SUBSET Indices, Enter(quantity, typed),
         working.of # None, quantity \in [Gathered(working.of) -> Int],
         ~contended => Within(working.of, quantity)
  PROVE  /\ EnteredOK(working', contended') /\ EnteredOK(starting', contended')
         /\ working'.of = working.of
<1>1. IsEntered(working)
  BY DEF IInv, EnteredOK
<1>2. /\ working' = [of |-> working.of, quantity |-> quantity, typed |-> working.typed \cup typed]
      /\ starting' = starting
  BY <1>1 DEF Enter, IsEntered
<1>3. IsEntered(working')
  BY <1>1, <1>2 DEF IsEntered, QuantityOf
<1>4. EnteredOK(starting', contended')
  BY <1>2 DEF IInv, EnteredOK, Goes
<1>5. ~contended' => Within(working'.of, working'.quantity)
  BY <1>2 DEF Goes
<1> QED
  BY <1>2, <1>3, <1>4, <1>5 DEF EnteredOK

\* The working quantities, where there are any.
LEMMA WorkingQuantities ==
  ASSUME IInv, NEW i \in DOMAIN working.quantity
  PROVE  /\ working.of \in Transactions
         /\ working.quantity \in [Gathered(working.of) -> Int]
         /\ i \in Gathered(working.of) /\ i \in Indices
         /\ ~contended => Within(working.of, working.quantity)
<1>1. IsEntered(working)
  BY DEF IInv, EnteredOK
<1>2. working.of # None
  <2>1. CASE working.of = None
    <3>1. working.quantity = <<>>
      BY <1>1, <2>1 DEF IsEntered, QuantityOf
    <3>2. DOMAIN working.quantity = {}
      BY <3>1
    <3> QED
      BY <3>2
  <2> QED
    BY <2>1
<1>3. working.of \in Transactions /\ working.quantity \in [Gathered(working.of) -> Int]
  BY <1>1, <1>2 DEF IsEntered, QuantityOf
<1>4. ~contended => Within(working.of, working.quantity)
  BY <1>2 DEF IInv, EnteredOK
<1> QED
  BY <1>3, <1>4 DEF Indices

\* Changing one quantity, to one that is within what is left.
LEMMA OneEntered ==
  ASSUME IInv, Goes, NEW i \in DOMAIN working.quantity, NEW n \in Int,
         Enter([working.quantity EXCEPT ![i] = n], {i}),
         ~contended => n >= 0 /\ n <= Available(working.of, i)
  PROVE  /\ EnteredOK(working', contended') /\ EnteredOK(starting', contended')
         /\ working'.of = working.of
<1>1. /\ working.of \in Transactions
      /\ working.quantity \in [Gathered(working.of) -> Int]
      /\ i \in Gathered(working.of) /\ i \in Indices
      /\ ~contended => Within(working.of, working.quantity)
  BY WorkingQuantities
<1> DEFINE quantity == [working.quantity EXCEPT ![i] = n]
<1>2. quantity \in [Gathered(working.of) -> Int]
  BY <1>1
<1>3. \A j \in Gathered(working.of) : quantity[j] = IF j = i THEN n ELSE working.quantity[j]
  BY <1>1
<1>4. ~contended => Within(working.of, quantity)
  BY <1>1, <1>3 DEF Within
<1>5. working.of # None /\ {i} \in SUBSET Indices /\ Enter(quantity, {i})
  BY <1>1, TransactionsAssumption
<1> HIDE DEF quantity
<1> QED
  BY <1>2, <1>4, <1>5, EnteredQuantity

-----------------------------------------------------------------------------
(* The steps.                                                              *)

\* What Next says besides of every step.
Along ==
  /\ contended' = (contended \/ Contended(pending', screen', transaction'))
  /\ UNCHANGED settings

LEMMA AlongGoes ==
  ASSUME IInv, Along
  PROVE  Goes /\ Quiet' /\ settings' \in Settings
BY DEF IInv, Scalars, Along, Goes, Quiet, Contended

LEMMA BasketKept ==
  ASSUME IInv, Goes, UNCHANGED basket
  PROVE  BasketOK(basket', contended')
BY DEF IInv, BasketOK, Goes

\* A step that leaves the entered quantities, the basket and the transaction alone.
LEMMA Navigated ==
  ASSUME IInv, Along, UNCHANGED <<entered, engine, halted>>, autoMove' = autoMove,
         screen' \in Screens, screen' = "details" => screen = "details",
         found' \subseteq Transactions, pending' \in Seq(Sound(contended'))
  PROVE  IInv'
<1>1. Goes /\ Quiet' /\ settings' \in Settings
  BY AlongGoes
<1>2. EnteredOK(working', contended') /\ EnteredOK(starting', contended')
  BY <1>1, Stayed
<1>3. BasketOK(basket', contended')
  BY <1>1, BasketKept DEF engine
<1>4. Shown'
  BY <1>1 DEF IInv, Shown, entered, engine, Goes
<1>5. Scalars'
  BY <1>1 DEF IInv, Scalars, engine, Goes
<1> QED
  BY <1>1, <1>2, <1>3, <1>4, <1>5 DEF IInv

\* A step that shows the details of the transaction to return from.
LEMMA NavigatedToDetails ==
  ASSUME IInv, Along, NEW t \in Transactions, NEW auto \in BOOLEAN, ShowDetails(t, auto),
         transaction' = t, UNCHANGED basket, recorded' \subseteq Transactions,
         session' \in {"none", "transaction", "noReceipt"},
         found' \subseteq Transactions, pending' \in Seq(Sound(contended'))
  PROVE  IInv'
<1>1. Goes /\ Quiet' /\ settings' \in Settings
  BY AlongGoes
<1>2. /\ EnteredOK(working', contended') /\ EnteredOK(starting', contended')
      /\ working'.of = t /\ screen' = "details" /\ autoMove' \in BOOLEAN /\ UNCHANGED halted
  BY <1>1, DetailsShown
<1>3. BasketOK(basket', contended')
  BY <1>1, BasketKept
<1>4. Shown'
  BY <1>2 DEF Shown
<1>5. Scalars'
  BY <1>1, <1>2 DEF IInv, Scalars, Screens, Goes
<1> QED
  BY <1>1, <1>2, <1>3, <1>4, <1>5 DEF IInv

\* Sending sound operations.
LEMMA Sent ==
  ASSUME IInv, Along
  PROVE  /\ \A kind \in OperationKinds, t \in Transactions \cup {None} :
              /\ (kind \in ChoiceKinds => t \in Transactions) /\ kind # "apply"
              /\ Send(<<Operation(kind, t)>>)
              => pending' \in Seq(Sound(contended'))
         /\ \A t \in Transactions :
              Send(<<Operation("record", t), Choice(t)>>) => pending' \in Seq(Sound(contended'))
         /\ UNCHANGED pending => pending' \in Seq(Sound(contended'))
<1>1. contended' \in BOOLEAN /\ (contended => contended')
  BY AlongGoes DEF Goes
<1>2. ASSUME NEW kind \in OperationKinds, NEW t \in Transactions \cup {None},
             kind \in ChoiceKinds => t \in Transactions, kind # "apply",
             Send(<<Operation(kind, t)>>)
      PROVE  pending' \in Seq(Sound(contended'))
  <2>1. Operation(kind, t) \in Sound(contended')
    BY <1>1, <1>2, OperationSound
  <2>2. <<Operation(kind, t)>> \in Seq(Sound(contended'))
    BY <2>1
  <2> QED
    BY <1>1, <1>2, <2>2, PendingSound
<1>3. ASSUME NEW t \in Transactions, Send(<<Operation("record", t), Choice(t)>>)
      PROVE  pending' \in Seq(Sound(contended'))
  <2>1. Operation("record", t) \in Sound(contended') /\ Operation("select", t) \in Sound(contended')
    BY <1>1, OperationSound DEF OperationKinds, ChoiceKinds
  <2>2. Choice(t) \in {Operation("record", t), Operation("select", t)}
    BY DEF Choice
  <2>3. <<Operation("record", t), Choice(t)>> \in Seq(Sound(contended'))
    BY <2>1, <2>2
  <2> QED
    BY <1>1, <1>3, <2>3, PendingSound
<1> QED
  BY <1>1, <1>2, <1>3, PendingSound

LEMMA EnterReturnsStep ==
  ASSUME IInv, Along, EnterReturns, UNCHANGED found
  PROVE  IInv'
<1>1. pending' \in Seq(Sound(contended')) /\ found' \subseteq Transactions
  BY Sent DEF EnterReturns, IInv, Scalars
<1>2. /\ session' = "transaction"
      /\ UNCHANGED <<recorded, transaction, basket>>
      /\ recorded' \subseteq Transactions
  BY DEF EnterReturns, IInv, Scalars
<1>3. CASE transaction \in Transactions /\ ShowDetails(transaction, TRUE)
  BY <1>1, <1>2, <1>3, NavigatedToDetails
<1>4. CASE Show("search")
  <2>1. Goes /\ Quiet' /\ settings' \in Settings
    BY AlongGoes
  <2>2. EnteredOK(working', contended') /\ EnteredOK(starting', contended')
    BY <1>4, <2>1, Stayed DEF Show
  <2>3. BasketOK(basket', contended')
    BY <1>2, <2>1, BasketKept
  <2>4. Shown'
    BY <1>4 DEF Show, Shown
  <2>5. Scalars'
    BY <1>1, <1>2, <1>4, <2>1 DEF IInv, Scalars, Screens, Goes, Show
  <2> QED
    BY <1>1, <2>1, <2>2, <2>3, <2>4, <2>5 DEF IInv
<1> QED
  BY <1>3, <1>4 DEF EnterReturns, IInv, Scalars

LEMMA SearchEndsStep ==
  ASSUME IInv, Along, NEW results \in SUBSET Transactions, SearchEnds(results)
  PROVE  IInv'
<1>1. found' \subseteq Transactions /\ UNCHANGED engine
  BY DEF SearchEnds
<1>2. CASE Show("results") /\ pending' \in Seq(Sound(contended'))
  BY <1>1, <1>2, Navigated DEF Show, Screens, entered
<1>3. ASSUME NEW t \in Transactions, transaction = t,
             Send(<<Operation("record", t)>>), ShowDetails(t, FALSE)
      PROVE  IInv'
  <2>1. pending' \in Seq(Sound(contended'))
    BY <1>3, Sent DEF OperationKinds, ChoiceKinds
  <2> QED
    BY <1>1, <1>3, <2>1, NavigatedToDetails DEF engine, IInv, Scalars
<1>4. ASSUME NEW t \in Transactions, Show("results"),
             \/ Send(<<Operation("record", t)>>)
             \/ Send(<<Operation("record", t), Choice(t)>>)
      PROVE  IInv'
  <2>1. pending' \in Seq(Sound(contended'))
    BY <1>4, Sent DEF OperationKinds, ChoiceKinds
  <2> QED
    BY <1>2, <1>4, <2>1
<1>5. UNCHANGED pending => pending' \in Seq(Sound(contended'))
  BY Sent
<1> QED
  BY <1>2, <1>3, <1>4, <1>5 DEF SearchEnds

LEMMA ChooseSteps ==
  ASSUME IInv, Along, NEW t \in Transactions, ChooseResult(t) \/ ChooseRecorded(t), UNCHANGED found
  PROVE  IInv'
<1>1. found' \subseteq Transactions /\ UNCHANGED engine
  BY DEF ChooseResult, ChooseRecorded, IInv, Scalars
<1>2. CASE transaction = t /\ ShowDetails(t, FALSE) /\ UNCHANGED pending
  BY <1>1, <1>2, Sent, NavigatedToDetails DEF engine, IInv, Scalars
<1>3. CASE (Send(<<Operation("record", t)>>) \/ Send(<<Operation("select", t)>>)) /\ Stay
  <2>1. pending' \in Seq(Sound(contended'))
    BY <1>3, Sent DEF OperationKinds, ChoiceKinds
  <2> QED
    BY <1>1, <1>3, <2>1, Navigated DEF Stay, IInv, Scalars, entered
<1>4. Choice(t) \in {Operation("record", t), Operation("select", t)}
  BY DEF Choice
<1> QED
  BY <1>2, <1>3, <1>4 DEF ChooseResult, ChooseRecorded

LEMMA LeavingSteps ==
  ASSUME IInv, Along, ReturnWithoutTransaction \/ Back, UNCHANGED found
  PROVE  IInv'
<1>1. found' \subseteq Transactions /\ UNCHANGED engine
  BY DEF ReturnWithoutTransaction, Back, IInv, Scalars
<1>2. CASE (SendEnd(Operation("exit", None)) \/ SendEnd(Operation("leave", None))) /\ Stay
  <2>1. pending' \in Seq(Sound(contended'))
    BY <1>2, Sent DEF SendEnd, OperationKinds, ChoiceKinds
  <2> QED
    BY <1>1, <1>2, <2>1, Navigated DEF Stay, IInv, Scalars, entered
<1>3. CASE (Show("search") \/ Show("results") \/ Show("main")) /\ UNCHANGED pending
  <2>1. pending' \in Seq(Sound(contended'))
    BY <1>3, Sent
  <2> QED
    BY <1>1, <1>3, <2>1, Navigated DEF Show, Screens, entered
<1> QED
  BY <1>2, <1>3 DEF ReturnWithoutTransaction, Back

\* What is submitted is what is shown, as far as there was no contention.
LEMMA DoneStep ==
  ASSUME IInv, Along, Done, UNCHANGED found
  PROVE  IInv'
<1> DEFINE operation == [kind |-> "apply", transaction |-> transaction, of |-> working.of,
                         quantity |-> working.quantity, changed |-> Changed]
<1>1. contended' \in BOOLEAN /\ (contended => contended')
  BY AlongGoes DEF Goes
<1>2. PICK i \in DOMAIN working.quantity : working.quantity[i] # 0
  BY DEF Done, HasReturned
<1>3. /\ working.of \in Transactions
      /\ working.quantity \in [Gathered(working.of) -> Int]
      /\ ~contended => Within(working.of, working.quantity)
  BY <1>2, WorkingQuantities
<1>4. ~contended' => transaction \in {working.of, None}
  BY <1>1 DEF Done, IInv, Shown
<1>5. operation \in Operations
  BY <1>3 DEF Operations, OperationKinds, AnyQuantity, Changed, IInv, Scalars
<1>6. OperationOK(operation, contended')
  BY <1>1, <1>3, <1>4, TransactionsAssumption DEF OperationOK, QuantityOf, ChoiceKinds
<1>7. operation \in Sound(contended')
  BY <1>5, <1>6 DEF Sound
<1>8. Send(<<operation>>) /\ Stay /\ UNCHANGED engine
  BY DEF Done, SendEnd
<1> HIDE DEF operation
<1>9. pending' \in Seq(Sound(contended'))
  <2>1. <<operation>> \in Seq(Sound(contended'))
    BY <1>7
  <2> QED
    BY <1>1, <1>8, <2>1, PendingSound
<1> QED
  BY <1>8, <1>9, Navigated DEF Stay, IInv, Scalars, entered

\* A step on the details screen that changes quantities.
LEMMA QuantitiesChanged ==
  ASSUME IInv, Along, Entering, UNCHANGED found, halted' \in BOOLEAN,
         EnteredOK(working', contended'), EnteredOK(starting', contended'),
         working'.of = working.of
  PROVE  IInv'
<1>1. Goes /\ Quiet' /\ settings' \in Settings
  BY AlongGoes
<1>2. BasketOK(basket', contended')
  BY <1>1, BasketKept DEF Entering, engine
<1>3. Shown'
  BY <1>1 DEF IInv, Shown, Entering, engine, Goes
<1>4. Scalars'
  BY <1>1 DEF IInv, Scalars, Entering, engine, Goes
<1>5. pending' \in Seq(Sound(contended'))
  BY Sent DEF Entering
<1> QED
  BY <1>1, <1>2, <1>3, <1>4, <1>5 DEF IInv

LEMMA Thrown ==
  ASSUME IInv, Along, Entering, UNCHANGED found, UNCHANGED entered, halted' \in BOOLEAN
  PROVE  IInv'
<1>1. EnteredOK(working', contended') /\ EnteredOK(starting', contended')
  BY AlongGoes, Stayed
<1> QED
  BY <1>1, QuantitiesChanged DEF entered

LEMMA ChangeQuantityStep ==
  ASSUME IInv, Along, NEW i, ChangeQuantity(i), UNCHANGED found
  PROVE  IInv'
<1> DEFINE available == Available(transaction, i)
<1>1. Entering /\ transaction \in Transactions /\ i \in Gathered(transaction) /\ screen = "details"
  BY DEF ChangeQuantity, Offered, IInv, Scalars
<1>2. available \in Nat
  BY <1>1, AvailableNat DEF Gathered
<1>3. CASE Throw
  BY <1>1, <1>3, Thrown DEF Throw
<1>4. ASSUME NEW n \in Int \cup {NotANumber}, i \in DOMAIN working.quantity,
             Enter([working.quantity EXCEPT ![i] = Clamped(n, available, @)], {i})
      PROVE  IInv'
  <2> DEFINE m == Clamped(n, available, working.quantity[i])
  <2>1. /\ working.quantity[i] \in Int
        /\ ~contended => working.quantity[i] >= 0 /\ working.quantity[i] <= Available(working.of, i)
    BY <1>4, WorkingQuantities DEF Within
  <2>2. ~contended => working.of = transaction
    BY <1>1, TransactionsAssumption DEF IInv, Shown
  <2>3. m \in Int
    BY <1>2, <2>1 DEF Clamped
  <2>4. ~contended => m >= 0 /\ m <= Available(working.of, i)
    BY <1>2, <2>1, <2>2, <2>3 DEF Clamped
  <2>5. Enter([working.quantity EXCEPT ![i] = m], {i})
    BY <1>4
  <2>6. Goes
    BY AlongGoes
  <2> HIDE DEF m
  <2>7. /\ EnteredOK(working', contended') /\ EnteredOK(starting', contended')
        /\ working'.of = working.of
    BY <1>4, <2>3, <2>4, <2>5, <2>6, OneEntered
  <2> QED
    BY <1>1, <2>5, <2>7, QuantitiesChanged DEF Enter, IInv, Scalars
<1>5. \A n \in {IF working.quantity[i] = available THEN 0 ELSE available} : n \in Int
  BY <1>2
<1>6. \A n \in Keyed \cup {NotANumber} : n \in Int \cup {NotANumber}
  BY KeyedAssumption
<1> HIDE DEF available
<1> QED
  BY <1>3, <1>4, <1>5, <1>6 DEF ChangeQuantity, available

LEMMA ReturnAllStep ==
  ASSUME IInv, Along, ReturnAll, UNCHANGED found
  PROVE  IInv'
<1> DEFINE listed == {i \in Gathered(transaction) : Sellable(transaction, i)}
           chosen == {i \in listed : Available(transaction, i) > 0}
           quantity == [i \in DOMAIN working.quantity |->
                          IF i \in chosen THEN Available(transaction, i) ELSE working.quantity[i]]
<1>1. Entering /\ transaction \in Transactions /\ screen = "details"
  BY DEF ReturnAll, IInv, Scalars
<1>2. CASE Throw
  BY <1>1, <1>2, Thrown DEF Throw
<1>3. CASE chosen # {} /\ chosen \subseteq DOMAIN working.quantity /\ Enter(quantity, chosen)
  <2>1. PICK j \in chosen : j \in DOMAIN working.quantity
    BY <1>3
  <2>2. /\ working.of \in Transactions
        /\ working.quantity \in [Gathered(working.of) -> Int]
        /\ ~contended => Within(working.of, working.quantity)
    BY <2>1, WorkingQuantities
  <2>3. \A i \in chosen : Available(transaction, i) \in Nat
    BY <1>1, AvailableNat DEF Gathered
  <2>4. quantity \in [Gathered(working.of) -> Int]
    BY <2>2, <2>3
  <2>5. ~contended => working.of = transaction
    BY <1>1, TransactionsAssumption DEF IInv, Shown
  <2>6. ~contended => Within(working.of, quantity)
    BY <2>2, <2>3, <2>5 DEF Within
  <2>7. chosen \in SUBSET Indices
    BY <1>1 DEF Indices
  <2>8. Goes /\ working.of # None
    BY AlongGoes, <2>2, TransactionsAssumption
  <2> HIDE DEF quantity, chosen
  <2>9. /\ EnteredOK(working', contended') /\ EnteredOK(starting', contended')
        /\ working'.of = working.of
    BY <1>3, <2>4, <2>6, <2>7, <2>8, EnteredQuantity
  <2> QED
    BY <1>1, <1>3, <2>9, QuantitiesChanged DEF Enter, IInv, Scalars
<1> QED
  BY <1>2, <1>3 DEF ReturnAll

LEMMA ScanItemStep ==
  ASSUME IInv, Along, NEW key, ScanItem(key), UNCHANGED found
  PROVE  IInv'
<1>1. Entering /\ screen = "details" /\ transaction \in Transactions \cup {None}
  BY DEF ScanItem, IInv, Scalars
<1>2. CASE Throw
  BY <1>1, <1>2, Thrown DEF Throw
<1>3. CASE UNCHANGED <<entered, halted>>
  BY <1>1, <1>3, Thrown DEF IInv, Scalars
<1>4. ASSUME transaction # None,
             NEW i \in FirstFit(transaction, key) \cap DOMAIN working.quantity,
             Enter([working.quantity EXCEPT
                      ![i] = IF settings.selectLine THEN Available(transaction, i) ELSE @ + 1], {i})
      PROVE  IInv'
  <2> DEFINE m == IF settings.selectLine
                  THEN Available(transaction, i) ELSE working.quantity[i] + 1
  <2>1. transaction \in Transactions /\ i \in DOMAIN Sublines[transaction]
    BY <1>1, <1>4 DEF FirstFit
  <2>2. Available(transaction, i) \in Nat
    BY <2>1, AvailableNat
  <2>3. /\ working.quantity[i] \in Int
        /\ ~contended => working.quantity[i] >= 0
    BY <1>4, WorkingQuantities DEF Within
  <2>4. ~contended => working.of = transaction
    BY <1>1, <1>4 DEF IInv, Shown
  <2>5. working.quantity[i] < Available(transaction, i)
    BY <1>4 DEF FirstFit, Fits
  <2>6. m \in Int /\ (~contended => m >= 0 /\ m <= Available(working.of, i))
    BY <2>2, <2>3, <2>4, <2>5
  <2>7. Enter([working.quantity EXCEPT ![i] = m], {i})
    BY <1>4
  <2>8. Goes
    BY AlongGoes
  <2> HIDE DEF m
  <2>9. /\ EnteredOK(working', contended') /\ EnteredOK(starting', contended')
        /\ working'.of = working.of
    BY <1>4, <2>6, <2>7, <2>8, OneEntered
  <2> QED
    BY <1>1, <2>7, <2>9, QuantitiesChanged DEF Enter, IInv, Scalars
<1> QED
  BY <1>2, <1>3, <1>4 DEF ScanItem

\* The main screen's own steps.
LEMMA MainSteps ==
  ASSUME IInv, Along, UNCHANGED found,
         CloseSale \/ \E t \in Transactions : \E i \in Gathered(t) : VoidReturnLine(t, i)
  PROVE  IInv'
<1>1. Goes /\ Quiet' /\ settings' \in Settings
  BY AlongGoes
<1>2. /\ Stay /\ screen = "main" /\ UNCHANGED pending
      /\ recorded' \subseteq Transactions /\ session' \in {"none", "transaction", "noReceipt"}
      /\ transaction' \in Transactions \cup {None}
  BY DEF CloseSale, VoidReturnLine, IInv, Scalars
<1>3. EnteredOK(working', contended') /\ EnteredOK(starting', contended')
  BY <1>1, <1>2, Stayed DEF Stay
<1>4. pending' \in Seq(Sound(contended'))
  BY <1>2, Sent
<1>5. Shown'
  BY <1>2 DEF Shown, Stay
<1>6. Scalars'
  BY <1>1, <1>2 DEF IInv, Scalars, Stay, Goes
<1>7. BasketOK(basket', contended')
  <2>1. CASE CloseSale
    <3>1. \A t \in Transactions : Within(t, [i \in Gathered(t) |-> 0])
      <4>1. \A t \in Transactions : \A i \in Gathered(t) : Available(t, i) \in Nat
        BY AvailableNat DEF Gathered
      <4> QED
        BY <4>1 DEF Within
    <3> QED
      BY <2>1, <3>1 DEF CloseSale, BasketOK
  <2>2. ASSUME NEW t \in Transactions, NEW i \in Gathered(t), VoidReturnLine(t, i)
        PROVE  BasketOK(basket', contended')
    <3>1. basket' = [basket EXCEPT ![t] = [basket[t] EXCEPT ![i] = 0]]
      BY <2>2 DEF VoidReturnLine
    <3>2. BasketOK(basket, contended) /\ Available(t, i) \in Nat
      BY AvailableNat DEF IInv, Gathered
    <3> DEFINE q == [basket[t] EXCEPT ![i] = 0]
    <3>3. q \in [Gathered(t) -> Int] /\ (~contended => Within(t, q))
      BY <3>2 DEF BasketOK, Within
    <3>4. \A u \in Transactions : basket'[u] = IF u = t THEN q ELSE basket[u]
      BY <3>1, <3>2 DEF BasketOK
    <3>5. DOMAIN basket' = Transactions
      BY <3>1, <3>2 DEF BasketOK
    <3> HIDE DEF q
    <3> QED
      BY <1>1, <3>2, <3>3, <3>4, <3>5 DEF BasketOK, Goes
  <2> QED
    BY <2>1, <2>2
<1> QED
  BY <1>1, <1>3, <1>4, <1>5, <1>6, <1>7 DEF IInv

\* The answers.
LEMMA ChosenAnsweredStep ==
  ASSUME IInv, Along, NEW k \in DOMAIN pending, ChosenAnswered(k), UNCHANGED found
  PROVE  IInv'
<1>1. Goes /\ Quiet' /\ settings' \in Settings
  BY AlongGoes
<1>2. pending[k] \in Sound(contended) /\ pending' \in Seq(Sound(contended'))
  BY <1>1, PendingSound DEF Goes, ChosenAnswered
<1>3. pending[k].transaction \in Transactions
  BY <1>2 DEF Sound, OperationOK, ChosenAnswered
<1>4. /\ recorded' \subseteq Transactions /\ UNCHANGED <<session, basket>>
      /\ session' \in {"none", "transaction", "noReceipt"}
      /\ transaction' = pending[k].transaction /\ found' \subseteq Transactions
  BY <1>3 DEF ChosenAnswered, IInv, Scalars
<1>5. CASE ShowDetails(pending[k].transaction, screen = "search")
  BY <1>2, <1>3, <1>4, <1>5, NavigatedToDetails
<1>6. CASE Stay
  <2>1. EnteredOK(working', contended') /\ EnteredOK(starting', contended')
    BY <1>1, <1>6, Stayed DEF Stay
  <2>2. BasketOK(basket', contended')
    BY <1>1, <1>4, BasketKept
  <2>3. ASSUME ~contended, screen = "details" PROVE transaction = pending[k].transaction
    <3>1. ~Contended(pending, screen, transaction)
      BY <2>3 DEF IInv, Quiet
    <3>2. Choosing(pending, pending[k].transaction)
      BY DEF Choosing, ChosenAnswered
    <3> QED
      BY <1>3, <2>3, <3>1, <3>2 DEF Contended
  <2>4. Shown'
    BY <1>1, <1>4, <1>6, <2>3 DEF IInv, Shown, Goes, Stay, entered
  <2>5. Scalars'
    BY <1>1, <1>3, <1>4, <1>6 DEF IInv, Scalars, Stay, Goes
  <2> QED
    BY <1>1, <1>2, <2>1, <2>2, <2>4, <2>5 DEF IInv
<1> QED
  BY <1>5, <1>6 DEF ChosenAnswered

LEMMA AppliedSound ==
  ASSUME IInv, NEW operation \in Sound(contended)
  PROVE  BasketOK(Applied(operation), contended)
<1>1. BasketOK(basket, contended)
  BY DEF IInv
<1>2. CASE Applied(operation) = basket
  BY <1>1, <1>2
<1>3. CASE /\ operation.of \in Transactions /\ operation.of # None
           /\ Applied(operation) = [basket EXCEPT ![operation.of] = operation.quantity]
  <2>1. operation.quantity \in [Gathered(operation.of) -> Int]
    BY <1>3 DEF Sound, OperationOK, QuantityOf
  <2>2. ~contended => Within(operation.of, operation.quantity)
    BY <1>3 DEF Sound, OperationOK
  <2>3. \A t \in Transactions : Applied(operation)[t] =
          IF t = operation.of THEN operation.quantity ELSE basket[t]
    BY <1>1, <1>3 DEF BasketOK
  <2>4. DOMAIN Applied(operation) = Transactions
    BY <1>1, <1>3 DEF BasketOK
  <2> QED
    BY <1>1, <2>1, <2>2, <2>3, <2>4 DEF BasketOK
<1>4. operation.of \in Transactions \cup {None}
  BY DEF Sound, Operations
<1> QED
  BY <1>2, <1>3, <1>4 DEF Applied

LEMMA ExitAnsweredStep ==
  ASSUME IInv, Along, NEW k \in DOMAIN pending, ExitAnswered(k), UNCHANGED found
  PROVE  IInv'
<1>1. Goes /\ Quiet' /\ settings' \in Settings
  BY AlongGoes
<1>2. pending[k] \in Sound(contended)
  BY <1>1, PendingSound DEF Goes
<1>3. BasketOK(basket', contended')
  <2>1. basket' \in {basket, Applied(pending[k])}
    BY DEF ExitAnswered
  <2>2. BasketOK(basket', contended)
    BY <1>2, <2>1, AppliedSound DEF IInv
  <2> QED
    BY <1>1, <2>2 DEF BasketOK, Goes
<1>4. /\ session' = "none" /\ transaction' \in {transaction, None} /\ UNCHANGED recorded
      /\ transaction' \in Transactions \cup {None}
  BY DEF ExitAnswered, IInv, Scalars
<1>5. /\ screen' \in {screen, "main"} /\ UNCHANGED <<autoMove, entered, halted>>
      /\ \/ Answered(k)
         \/ pending' = Append(RemoveAt(pending, k), Operation("void", transaction'))
  BY DEF ExitAnswered, Stay, Show
<1>6. Operation("void", transaction') \in Sound(contended')
  BY <1>1, <1>4, OperationSound DEF OperationKinds, ChoiceKinds, Goes
<1>7. pending' \in Seq(Sound(contended'))
  BY <1>1, <1>5, <1>6, PendingSound DEF Goes
<1>8. EnteredOK(working', contended') /\ EnteredOK(starting', contended')
  BY <1>1, <1>5, Stayed
<1>9. Shown'
  BY <1>1, <1>4, <1>5 DEF IInv, Shown, Goes, entered
<1>10. Scalars'
  BY <1>1, <1>4, <1>5 DEF IInv, Scalars, Screens, Goes
<1> QED
  BY <1>1, <1>3, <1>7, <1>8, <1>9, <1>10 DEF IInv

LEMMA OtherAnswersStep ==
  ASSUME IInv, Along, NEW k \in DOMAIN pending, UNCHANGED found,
         LeaveAnswered(k) \/ VoidAnswered(k) \/ OperationFails(k)
  PROVE  IInv'
<1>1. Goes /\ Quiet' /\ settings' \in Settings
  BY AlongGoes
<1>2. /\ Answered(k) /\ UNCHANGED <<recorded, transaction, basket>>
      /\ session' \in {session, "noReceipt"}
      /\ screen' \in {screen, "main", "taxError"} /\ UNCHANGED <<autoMove, entered, halted>>
  BY DEF LeaveAnswered, VoidAnswered, OperationFails, Stay, Show, engine
<1>3. pending' \in Seq(Sound(contended'))
  BY <1>1, <1>2, PendingSound DEF Goes
<1>4. EnteredOK(working', contended') /\ EnteredOK(starting', contended')
  BY <1>1, <1>2, Stayed
<1>5. BasketOK(basket', contended')
  BY <1>1, <1>2, BasketKept
<1>6. Shown'
  BY <1>1, <1>2 DEF IInv, Shown, Goes, entered
<1>7. Scalars'
  BY <1>1, <1>2 DEF IInv, Scalars, Screens, Goes
<1> QED
  BY <1>1, <1>3, <1>4, <1>5, <1>6, <1>7 DEF IInv

-----------------------------------------------------------------------------

\* Before anything was chosen, every part of the invariant holds.
LEMMA InitIInv ==
  Init => IInv
<1> SUFFICES ASSUME Init PROVE IInv
  OBVIOUS
<1>1. Scalars
  BY ConfigurationsAssumption DEF Init, Scalars, Screens
<1>2. \A t \in Transactions : Within(t, [i \in Gathered(t) |-> 0])
  <2>1. \A t \in Transactions : \A i \in Gathered(t) : Available(t, i) \in Nat
    BY AvailableNat DEF Gathered
  <2> QED
    BY <2>1 DEF Within
<1>3. BasketOK(basket, contended)
  BY <1>2 DEF Init, BasketOK
<1>4. EnteredOK(working, contended) /\ EnteredOK(starting, contended)
  BY DEF Init, Nothing, EnteredOK, IsEntered, QuantityOf
<1>5. pending \in Seq(Sound(contended))
  BY DEF Init
<1>6. Shown
  BY DEF Init, Shown
<1>7. Quiet
  BY DEF Init, Quiet, Contended, Choosing
<1> QED
  BY <1>1, <1>3, <1>4, <1>5, <1>6, <1>7 DEF IInv

LEMMA NextIInv ==
  IInv /\ [Next]_vars => IInv'
<1> SUFFICES ASSUME IInv, [Next]_vars PROVE IInv'
  OBVIOUS
<1>1. CASE Next
  <2>1. Along
    BY <1>1 DEF Next, Along
  <2>2. ASSUME NEW results \in SUBSET Transactions, SearchEnds(results) PROVE IInv'
    BY <2>1, <2>2, SearchEndsStep
  <2>3. CASE Answer /\ UNCHANGED found
    BY <2>1, <2>3, ChosenAnsweredStep, ExitAnsweredStep, OtherAnswersStep DEF Answer
  <2>4. CASE Enters /\ UNCHANGED found
    BY <2>1, <2>4, ReturnAllStep, ChangeQuantityStep, ScanItemStep DEF Enters
  <2>5. CASE Navigates /\ UNCHANGED found
    BY <2>1, <2>5, EnterReturnsStep, LeavingSteps, DoneStep, ChooseSteps, MainSteps DEF Navigates
  <2> QED
    BY <1>1, <2>2, <2>3, <2>4, <2>5 DEF Next
<1>2. CASE UNCHANGED vars
  BY <1>2 DEF vars, engine, entered, IInv, Scalars, Shown, Quiet
<1> QED
  BY <1>1, <1>2

THEOREM Invariance == Spec => []IInv
BY InitIInv, NextIInv, PTL DEF Spec

\* The returns keep their types: the quantities that are entered, and those
\* of every operation in flight, are those of the lines of one transaction.
THEOREM TypeCorrect == Spec => []TypeOK
<1>1. IInv => TypeOK
  <2> SUFFICES ASSUME IInv PROVE TypeOK
    OBVIOUS
  <2>1. pending \in Seq(Range(pending))
    BY SeqOfRange DEF IInv
  <2>2. \A k \in DOMAIN pending : pending[k] \in Sound(contended)
    BY LenProperties, ElementOfSeq DEF IInv
  <2>3. \A operation \in Sound(contended) : IsOperation(operation)
    BY DEF Sound, Operations, OperationOK, IsOperation
  <2> QED
    BY <2>1, <2>2, <2>3 DEF TypeOK, IInv, Scalars, BasketOK, EnteredOK
<1> QED
  BY <1>1, Invariance, PTL

\* No line is returned beyond what is left of it: neither in the quantities
\* that are entered nor in the basket they are applied to.
THEOREM QuantitiesCorrect == Spec => []WithinAvailable
<1>1. IInv => WithinAvailable
  BY DEF IInv, WithinAvailable, BasketOK, EnteredOK
<1> QED
  BY <1>1, Invariance, PTL

\* Done submits the quantities of the transaction it names.
THEOREM SubmissionCorrect == Spec => []SubmittedTogether
<1>1. IInv => SubmittedTogether
  <2> SUFFICES ASSUME IInv PROVE SubmittedTogether
    OBVIOUS
  <2>1. \A k \in DOMAIN pending : pending[k] \in Sound(contended)
    BY LenProperties, ElementOfSeq DEF IInv
  <2> QED
    BY <2>1 DEF SubmittedTogether, Sound, OperationOK
<1> QED
  BY <1>1, Invariance, PTL
-----------------------------------------------------------------------------
(* What has been submitted is reported as changed, or is what the basket   *)
(* holds: whatever happens between Done and its answer.                    *)

Reported(operation, live, quantities) ==
  operation.kind = "apply" =>
    /\ operation.of \in Transactions
    /\ live => operation.changed \/ operation.quantity = quantities[operation.of]

Reportable(live, quantities) == {operation \in Operations : Reported(operation, live, quantities)}

Live == session # "none"

\* While the session lasts, the details screen starts from what the basket holds.
Fresh ==
  /\ pending \in Seq(Reportable(Live, basket))
  /\ screen = "details" => starting.of \in Transactions /\ working.of = starting.of
  /\ Live /\ screen = "details" => starting.quantity = basket[starting.of]

\* The basket changes when the session ends, or while nothing is under way.
Lasting == session' = "none" \/ (UNCHANGED basket /\ (Live' => Live))

Reports == pending' \in Seq(Reportable(Live', basket'))

LEMMA Forwarded ==
  ASSUME Fresh, Lasting
  PROVE  /\ UNCHANGED pending => Reports
         /\ \A k \in DOMAIN pending :
              /\ Answered(k) => Reports
              /\ \A t \in Transactions \cup {None} :
                   pending' = Append(RemoveAt(pending, k), Operation("void", t)) => Reports
         /\ \A operations \in Seq(Reportable(Live', basket')) : Send(operations) => Reports
<1> DEFINE S == Reportable(Live', basket')
<1>1. Reportable(Live, basket) \subseteq S
  BY DEF Lasting, Live, Reportable, Reported
<1>2. pending \in Seq(S)
  BY <1>1, SeqMonotonic DEF Fresh
<1>3. \A t \in Transactions \cup {None} : Operation("void", t) \in S
  BY Zenon DEF Operation, Operations, OperationKinds, AnyQuantity, Reportable, Reported
<1> HIDE DEF S
<1>4. \A k \in DOMAIN pending : RemoveAt(pending, k) \in Seq(S)
  BY <1>2, Removed
<1>5. \A k \in DOMAIN pending : \A operation \in S :
        Append(RemoveAt(pending, k), operation) \in Seq(S)
  BY <1>4, AppendProperties
<1>6. \A operations \in Seq(S) : Send(operations) => pending' \in Seq(S)
  BY <1>2, ConcatProperties DEF Send
<1> QED
  BY <1>2, <1>3, <1>4, <1>5, <1>6 DEF Answered, Reports, S

\* What the other buttons send needs no report.
LEMMA OthersReported ==
  ASSUME Fresh, Lasting
  PROVE  /\ \A kind \in OperationKinds \ {"apply"}, t \in Transactions \cup {None} :
              Send(<<Operation(kind, t)>>) => Reports
         /\ \A t \in Transactions : Send(<<Operation("record", t), Choice(t)>>) => Reports
<1>1. ASSUME NEW kind \in OperationKinds \ {"apply"}, NEW t \in Transactions \cup {None}
      PROVE  Operation(kind, t) \in Reportable(Live', basket')
  BY Zenon DEF Operation, Operations, AnyQuantity, Reportable, Reported
<1>2. ASSUME NEW t \in Transactions
      PROVE  /\ Operation("record", t) \in Reportable(Live', basket')
             /\ Choice(t) \in Reportable(Live', basket')
  BY <1>1 DEF OperationKinds, ChoiceKinds, Choice
<1> DEFINE S == Reportable(Live', basket')
<1> HIDE DEF S
<1>3. \A kind \in OperationKinds \ {"apply"}, t \in Transactions \cup {None} :
        <<Operation(kind, t)>> \in Seq(S)
  BY <1>1 DEF S
<1>4. \A t \in Transactions : <<Operation("record", t), Choice(t)>> \in Seq(S)
  BY <1>2 DEF S
<1>5. \A operations \in Seq(S) : Send(operations) => Reports
  BY Forwarded DEF S
<1> QED
  BY <1>3, <1>4, <1>5

\* A step that does not come to the details screen.
LEMMA Remained ==
  ASSUME Fresh, Lasting, Reports,
         screen' = "details" => /\ screen = "details" /\ UNCHANGED starting
                                /\ working'.of = working.of
  PROVE  Fresh'
BY DEF Fresh, Lasting, Reports, Live

\* One that does gathers what the basket holds.
LEMMA Gathers ==
  ASSUME Fresh, Reports, NEW t \in Transactions, NEW auto, ShowDetails(t, auto), UNCHANGED basket
  PROVE  Fresh'
BY DEF Fresh, Reports, ShowDetails, GatheredQuantities

LEMMA ExitReported ==
  ASSUME IInv, Fresh, NEW k \in DOMAIN pending,
         ExitAnswered(k) \/ LeaveAnswered(k) \/ VoidAnswered(k) \/ OperationFails(k)
  PROVE  Fresh'
<1>1. Lasting
  BY DEF ExitAnswered, LeaveAnswered, VoidAnswered, OperationFails, Lasting, Live, engine
<1>2. /\ screen' = "details" => screen = "details"
      /\ UNCHANGED entered
      /\ \/ Answered(k)
         \/ \E t \in Transactions \cup {None} :
              pending' = Append(RemoveAt(pending, k), Operation("void", t))
  BY DEF ExitAnswered, LeaveAnswered, VoidAnswered, OperationFails, Stay, Show, IInv, Scalars
<1>3. Reports
  BY <1>1, <1>2, Forwarded
<1> QED
  BY <1>1, <1>2, <1>3, Remained DEF entered

LEMMA AnswerReported ==
  ASSUME IInv, Fresh, Answer
  PROVE  Fresh'
<1>1. PICK k \in DOMAIN pending :
        \/ ChosenAnswered(k) \/ ExitAnswered(k) \/ LeaveAnswered(k)
        \/ VoidAnswered(k) \/ OperationFails(k)
  BY DEF Answer
<1>2. CASE ChosenAnswered(k)
  <2>1. Lasting /\ UNCHANGED <<session, basket>>
    BY <1>2 DEF ChosenAnswered, Lasting, Live
  <2>2. Reports
    BY <1>2, <2>1, Forwarded DEF ChosenAnswered
  <2>3. pending[k].transaction \in Transactions
    <3>1. pending[k] \in Sound(contended)
      BY LenProperties, ElementOfSeq DEF IInv
    <3> QED
      BY <1>2, <3>1 DEF Sound, OperationOK, ChosenAnswered
  <2>4. CASE ShowDetails(pending[k].transaction, screen = "search")
    BY <2>1, <2>2, <2>3, <2>4, Gathers
  <2>5. CASE Stay
    BY <2>1, <2>2, <2>5, Remained DEF Stay, entered
  <2> QED
    BY <1>2, <2>4, <2>5 DEF ChosenAnswered
<1> QED
  BY <1>1, <1>2, ExitReported

\* The quantities are entered on the details screen, and those it started from stay.
LEMMA EntersReported ==
  ASSUME IInv, Fresh, Enters
  PROVE  Fresh'
<1>1. Entering
  BY DEF Enters, ReturnAll, ChangeQuantity, ScanItem
<1>2. Lasting /\ Reports
  BY <1>1, Forwarded DEF Entering, engine, Lasting, Live
<1>3. UNCHANGED starting /\ working'.of = working.of
  <2>1. ASSUME NEW quantity, NEW typed, Enter(quantity, typed)
        PROVE  UNCHANGED starting /\ working'.of = working.of
    BY <2>1 DEF Enter, IInv, EnteredOK, IsEntered
  <2>2. UNCHANGED entered => UNCHANGED starting /\ working'.of = working.of
    BY DEF entered
  <2>3. CASE ReturnAll
    BY <2>1, <2>2, <2>3 DEF ReturnAll, Throw
  <2>4. CASE \E i \in Indices : ChangeQuantity(i)
    BY <2>1, <2>2, <2>4 DEF ChangeQuantity, Throw
  <2>5. CASE \E key \in Keys : ScanItem(key)
    BY <2>1, <2>2, <2>5 DEF ScanItem, Throw
  <2> QED
    BY <2>3, <2>4, <2>5 DEF Enters
<1> QED
  BY <1>1, <1>2, <1>3, Remained DEF Entering

\* Done reports the quantities as changed, or they are those of the basket.
LEMMA DoneReported ==
  ASSUME IInv, Fresh, Done
  PROVE  Fresh'
<1> DEFINE operation == [kind |-> "apply", transaction |-> transaction, of |-> working.of,
                         quantity |-> working.quantity, changed |-> Changed]
<1>1. UNCHANGED engine /\ Stay /\ screen = "details" /\ Send(<<operation>>)
  BY DEF Done, SendEnd
<1>2. Lasting
  BY <1>1 DEF Lasting, Live, engine
<1>3. PICK i \in DOMAIN working.quantity : working.quantity[i] # 0
  BY DEF Done, HasReturned
<1>4. working.of \in Transactions /\ working.quantity \in [Gathered(working.of) -> Int]
  BY <1>3, WorkingQuantities
<1>5. operation \in Operations
  BY <1>4 DEF Operations, OperationKinds, AnyQuantity, Changed, IInv, Scalars
<1>6. Reported(operation, Live, basket)
  BY <1>1, <1>4 DEF Fresh, Changed, Reported
<1>7. operation \in Reportable(Live', basket')
  BY <1>1, <1>5, <1>6 DEF Reportable, Live, engine
<1> HIDE DEF operation
<1>8. <<operation>> \in Seq(Reportable(Live', basket'))
  BY <1>7
<1>9. Reports
  BY <1>1, <1>2, <1>8, Forwarded
<1> QED
  BY <1>1, <1>2, <1>9, Remained DEF Stay, entered

LEMMA SearchReported ==
  ASSUME IInv, Fresh,
         \/ \E results \in SUBSET Transactions : SearchEnds(results)
         \/ \E t \in Transactions : ChooseResult(t) \/ ChooseRecorded(t)
  PROVE  Fresh'
<1>1. UNCHANGED engine /\ Lasting
  BY DEF SearchEnds, ChooseResult, ChooseRecorded, engine, Lasting, Live
<1>2. \A t \in Transactions :
        /\ Send(<<Operation("record", t)>>) => Reports
        /\ Send(<<Operation("select", t)>>) => Reports
        /\ Send(<<Operation("record", t), Choice(t)>>) => Reports
        /\ Send(<<Choice(t)>>) => Reports
  BY <1>1, OthersReported DEF OperationKinds, ChoiceKinds, Choice
<1>3. UNCHANGED pending => Reports
  BY <1>1, Forwarded
<1>4. Reports
  BY <1>2, <1>3 DEF SearchEnds, ChooseResult, ChooseRecorded
<1>5. CASE \E t \in Transactions : ShowDetails(t, FALSE)
  BY <1>1, <1>4, <1>5, Gathers DEF engine
<1>6. CASE Stay \/ Show("results")
  BY <1>1, <1>4, <1>6, Remained DEF Stay, Show, entered
<1> QED
  BY <1>5, <1>6 DEF SearchEnds, ChooseResult, ChooseRecorded

LEMMA LeavingReported ==
  ASSUME Fresh, ReturnWithoutTransaction \/ Back
  PROVE  Fresh'
<1>1. UNCHANGED engine /\ Lasting
  BY DEF ReturnWithoutTransaction, Back, engine, Lasting, Live
<1>2. Send(<<Operation("exit", None)>>) \/ Send(<<Operation("leave", None)>>) => Reports
  BY <1>1, OthersReported DEF OperationKinds, ChoiceKinds
<1>3. UNCHANGED pending => Reports
  BY <1>1, Forwarded
<1>4. Reports /\ UNCHANGED entered /\ (screen' = "details" => screen = "details")
  BY <1>2, <1>3 DEF ReturnWithoutTransaction, Back, SendEnd, Stay, Show
<1> QED
  BY <1>1, <1>4, Remained DEF entered

\* The session begins, and the basket changes besides, on the main screen with
\* nothing under way.
LEMMA MainReported ==
  ASSUME IInv, Fresh,
         \/ EnterReturns \/ CloseSale
         \/ \E t \in Transactions : \E i \in Gathered(t) : VoidReturnLine(t, i)
  PROVE  Fresh'
<1>1. pending' = <<>>
  BY DEF EnterReturns, CloseSale, VoidReturnLine
<1>2. Reports
  BY <1>1 DEF Reports
<1>3. CASE screen' # "details"
  BY <1>2, <1>3 DEF Fresh, Reports
<1>4. CASE EnterReturns /\ transaction \in Transactions /\ ShowDetails(transaction, TRUE)
  BY <1>2, <1>4, Gathers DEF EnterReturns
<1> QED
  BY <1>3, <1>4 DEF EnterReturns, CloseSale, VoidReturnLine, Show, Stay, IInv, Scalars

LEMMA NextFresh ==
  IInv /\ Fresh /\ [Next]_vars => Fresh'
<1> SUFFICES ASSUME IInv, Fresh, [Next]_vars PROVE Fresh'
  OBVIOUS
<1>1. CASE Next
  BY <1>1, AnswerReported, EntersReported, DoneReported, SearchReported, LeavingReported,
     MainReported DEF Next, Navigates
<1>2. CASE UNCHANGED vars
  BY <1>2 DEF vars, engine, entered, Fresh, Live
<1> QED
  BY <1>1, <1>2

LEMMA AppliedStep ==
  ASSUME Fresh, IInv, NEW k \in DOMAIN pending, ExitAnswered(k), pending[k].kind = "apply",
         pending[k].of = pending[k].transaction
  PROVE  basket'[pending[k].of] = pending[k].quantity
<1>1. pending[k] \in Reportable(Live, basket)
  BY LenProperties, ElementOfSeq DEF Fresh
<1>2. /\ pending[k].of \in Transactions /\ pending[k].of # None
      /\ pending[k].changed \/ pending[k].quantity = basket[pending[k].of]
  BY <1>1, TransactionsAssumption DEF Reportable, Reported, Live, ExitAnswered
<1>3. basket' = Applied(pending[k]) /\ DOMAIN basket = Transactions
  BY DEF ExitAnswered, IInv, BasketOK
<1> QED
  BY <1>2, <1>3 DEF Applied

\* However the operations overlap and whatever is chosen meanwhile, once the engine has
\* taken what Done submitted the basket holds what the screen showed: quantities that
\* are not reported as changed are those the basket holds already.
THEOREM ApplicationCorrect == Spec => AppliedAsEntered
<1>1. Init => Fresh
  BY DEF Init, Fresh
<1>2. Spec => [](IInv /\ Fresh)
  BY <1>1, InitIInv, NextIInv, NextFresh, PTL DEF Spec
<1>3. IInv /\ Fresh /\ [Next]_vars =>
        [\A k \in DOMAIN pending :
           /\ ExitAnswered(k) /\ pending[k].kind = "apply"
           /\ pending[k].of = pending[k].transaction
           => basket'[pending[k].of] = pending[k].quantity]_vars
  BY AppliedStep
<1> QED
  BY <1>2, <1>3, PTL DEF Spec, AppliedAsEntered

\* Without contention a saga throws only when the engine has dropped the transaction
\* that is shown, or when one of its lines was fulfilled: nothing that is offered on the
\* details screen, or returned with all of the others, lacks its quantity.
THEOREM ThrowsCorrect == Spec => ThrowsOnly
<1> DEFINE Excused == \/ contended \/ transaction = None
                      \/ \E i \in DOMAIN Sublines[transaction] :
                           Sublines[transaction][i].kind = "Fulfillment"
<1>1. ASSUME IInv, [Next]_vars, halted', ~Excused, ~UNCHANGED vars
      PROVE  FALSE
  <2>1. Next /\ ~halted
    BY <1>1 DEF Next
  <2>2. Enters /\ screen = "details" /\ transaction \in Transactions
    <3>1. Enters
      BY <1>1, <2>1 DEF Next, Answer, Navigates, ChosenAnswered, ExitAnswered, LeaveAnswered,
           VoidAnswered, OperationFails, EnterReturns, ReturnWithoutTransaction, Back, Done,
           CloseSale, ChooseResult, ChooseRecorded, VoidReturnLine, SearchEnds, ShowDetails,
           Show, Stay
    <3> QED
      BY <1>1, <3>1 DEF Enters, ReturnAll, ChangeQuantity, ScanItem, IInv, Scalars
  <2>3. DOMAIN working.quantity = Gathered(transaction)
    <3>1. working.of = transaction /\ transaction # None
      BY <1>1, <2>2 DEF IInv, Shown
    <3>2. QuantityOf(working.of, working.quantity)
      BY <1>1 DEF IInv, EnteredOK, IsEntered
    <3>3. working.quantity \in [Gathered(transaction) -> Int]
      BY <3>1, <3>2 DEF QuantityOf
    <3> QED
      BY <3>3
  <2>4. DOMAIN working.quantity = DOMAIN Sublines[transaction]
    BY <1>1, <2>3 DEF Gathered
  <2>5. CASE ReturnAll
    BY <2>1, <2>3, <2>5, <1>1 DEF ReturnAll, Enter
  <2>6. CASE \E i \in Indices : ChangeQuantity(i)
    BY <2>1, <2>3, <2>6, <1>1 DEF ChangeQuantity, Offered, Enter
  <2>7. CASE \E key \in Keys : ScanItem(key)
    BY <2>1, <2>4, <2>7, <1>1 DEF ScanItem, FirstFit, Enter
  <2> QED
    BY <2>2, <2>5, <2>6, <2>7 DEF Enters
<1>2. IInv /\ [Next]_vars => [halted' => Excused]_vars
  BY <1>1
<1> QED
  BY <1>2, Invariance, PTL DEF Spec, ThrowsOnly
=============================================================================
