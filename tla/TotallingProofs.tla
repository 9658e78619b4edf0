---------------------------- MODULE TotallingProofs ----------------------------
(***************************************************************************)
(* Whatever the configurations of the store and the baskets: the main      *)
(* screen stays at the bottom of the stack and the payment is opened for a *)
(* totalled transaction, while no total has gone astray; and no total is   *)
(* requested before what the chain has to ask for.                         *)
(***************************************************************************)
EXTENDS Totalling, Integers, SequenceTheorems, TLAPS

ContactScreens == {"orderPickupDetailsConfirmation", "orderDeliveryAddressConfirmation"}
LateScreens == ContactScreens \cup {"shippingMethod", "donation"}
Outside == {"main", "customerNip", "payment", "receiptSummary"}
Screens == Outside \cup LateScreens \cup
           {"itemSubscription", "unavailableQuantities", "bagFee", "customer",
            "customerDisplay"}

\* What can be at the bottom of the stack: once main is replaced, anything that
\* replaces.
Bottoms == {"main", "payment", "customerNip", "customer", "donation"}

Frames == {"customer", "payment", "replacePayment", "receiptSummary"}

MainScreen ==
  [stack : Seq(Screens), frames : Seq(Frames), sent : SUBSET Operations,
   alert : {"none", "lottery", "unsubscribe"},
   requested : BOOLEAN, replace : BOOLEAN, voiding : BOOLEAN, authorizing : BOOLEAN,
   donation : BOOLEAN, asked : SUBSET Screens]

Transaction ==
  [open : BOOLEAN, basket : Basket, customer : BOOLEAN, partial : BOOLEAN,
   donated : BOOLEAN, taxId : BOOLEAN, total : {"none", "tender", "closing"}]

TypeOK ==
  /\ cfg \in Configurations
  /\ trans \in Transaction
  /\ business \in [event : Operations, error : BOOLEAN, loyalty : BOOLEAN]
  /\ main \in MainScreen
  /\ astray \in SUBSET {"total", "unsubscription"}

-----------------------------------------------------------------------------
(* The stack of the navigator.                                             *)

\* The main screen is nowhere but at the bottom, and the subscriptions are
\* asked for before any other screen of the chain.
Stacked(s) ==
  /\ s \in Seq(Screens) /\ s # <<>>
  /\ Head(s) \in Bottoms
  /\ \A i \in 2..Len(s) : s[i] # "main"
  /\ \A i, j \in 1..Len(s) : i < j /\ s[j] = "itemSubscription" => s[i] \in Outside

LEMMA StackFacts ==
  ASSUME NEW s, Stacked(s)
  PROVE  /\ Len(s) \in Nat \ {0}
         /\ Last(s) \in Range(s) /\ Head(s) \in Range(s) /\ Range(s) \subseteq Screens
         /\ Last(s) = "main" => s = <<"main">>
         /\ Range(s) \ Bottoms # {} => Len(s) > 1
         /\ Head(s) = "main" /\ Last(s) # "main" => Len(s) > 1
         /\ Last(s) = "itemSubscription" => Range(s) \subseteq Outside \cup {"itemSubscription"}
<1>1. s \in Seq(Screens) /\ Len(s) \in Nat \ {0}
  BY LenProperties, EmptySeq DEF Stacked
<1>2. Range(s) = {s[i] : i \in 1..Len(s)} /\ \A i \in 1..Len(s) : s[i] \in Screens
  BY <1>1, RangeEquality, ElementOfSeq
<1>3. Head(s) = s[1]
  BY DEF Head
<1>4. Last(s) = "main" => s = <<"main">>
  <2> SUFFICES ASSUME Last(s) = "main" PROVE s = <<"main">>
    OBVIOUS
  <2>1. s[Len(s)] = "main"
    BY DEF Last
  <2>2. Len(s) = 1
    BY <2>1, <1>1 DEF Stacked
  <2> QED
    BY <2>1, <2>2, <1>1
<1>5. Range(s) \ Bottoms # {} => Len(s) > 1
  BY <1>1, <1>2, <1>3 DEF Stacked
<1>6. Last(s) = "itemSubscription" => Range(s) \subseteq Outside \cup {"itemSubscription"}
  <2> SUFFICES ASSUME Last(s) = "itemSubscription", NEW i \in 1..Len(s)
               PROVE  s[i] \in Outside \cup {"itemSubscription"}
    BY <1>2
  <2>1. CASE i = Len(s)
    BY <2>1 DEF Last
  <2>2. CASE i < Len(s)
    BY <2>2, <1>1 DEF Last, Stacked
  <2> QED
    BY <2>1, <2>2, <1>1
<1> QED
  BY <1>1, <1>2, <1>3, <1>4, <1>5, <1>6 DEF Last

LEMMA MainAlone ==
  /\ Stacked(<<"main">>) /\ Range(<<"main">>) = {"main"}
  /\ Last(<<"main">>) = "main" /\ Head(<<"main">>) = "main"
BY RangeEquality DEF Stacked, Screens, Outside, Bottoms, Last, Range

LEMMA AppendRange ==
  ASSUME NEW S, NEW s \in Seq(S), NEW e \in S
  PROVE  Range(Append(s, e)) = Range(s) \cup {e}
<1>1. /\ Len(s) \in Nat /\ Append(s, e) \in Seq(S) /\ Len(Append(s, e)) = Len(s) + 1
      /\ Append(s, e)[Len(s) + 1] = e /\ \A i \in 1..Len(s) : Append(s, e)[i] = s[i]
  BY AppendProperties, LenProperties
<1>2. \A i \in 1..(Len(s) + 1) : i \in 1..Len(s) \/ i = Len(s) + 1
  BY <1>1
<1>3. \A i \in 1..Len(s) : i \in 1..(Len(s) + 1)
  BY <1>1
<1>4. Len(s) + 1 \in 1..(Len(s) + 1)
  BY <1>1
<1> DEFINE t == Append(s, e)
<1>5. Range(s) = {s[i] : i \in 1..Len(s)} /\ Range(t) = {t[i] : i \in 1..(Len(s) + 1)}
  BY <1>1, RangeEquality
<1> QED
  BY <1>1, <1>2, <1>3, <1>4, <1>5

LEMMA TailRange ==
  ASSUME NEW S, NEW s \in Seq(S), s # <<>>
  PROVE  /\ Tail(s) \in Seq(S) /\ Head(s) \in S
         /\ Head(s) \in Range(s) /\ Range(Tail(s)) \subseteq Range(s)
<1> DEFINE t == Tail(s)
<1>1. /\ Len(s) \in Nat \ {0} /\ t \in Seq(S) /\ Len(t) = Len(s) - 1
      /\ \A i \in 1..Len(t) : t[i] = s[i + 1]
  BY LenProperties, EmptySeq, HeadTailProperties
<1>2. Range(s) = {s[i] : i \in 1..Len(s)} /\ Range(t) = {t[i] : i \in 1..Len(t)}
  BY <1>1, RangeEquality
<1>3. \A i \in 1..Len(t) : i + 1 \in 1..Len(s)
  BY <1>1
<1>4. Range(t) \subseteq Range(s)
  BY <1>1, <1>2, <1>3
<1>5. Head(s) = s[1] /\ 1 \in 1..Len(s) /\ s[1] \in S
  BY <1>1, ElementOfSeq DEF Head
<1> QED
  BY <1>1, <1>2, <1>4, <1>5

LEMMA Pushed ==
  ASSUME NEW s, Stacked(s), NEW screen \in Screens \ {"main"},
         screen = "itemSubscription" => Range(s) \subseteq Outside
  PROVE  LET t == Append(s, screen) IN
         /\ Stacked(t) /\ Range(t) = Range(s) \cup {screen}
         /\ Last(t) = screen /\ Head(t) = Head(s)
<1> DEFINE t == Append(s, screen)
<1>1. s \in Seq(Screens) /\ Len(s) \in Nat \ {0} /\ s \in Seq(Screens)
  BY StackFacts DEF Stacked
<1>2. /\ t \in Seq(Screens) /\ Len(t) = Len(s) + 1 /\ t[Len(t)] = screen
      /\ \A i \in 1..Len(s) : t[i] = s[i]
  BY <1>1, AppendProperties
<1>3. Range(s) = {s[i] : i \in 1..Len(s)} /\ Range(t) = {t[i] : i \in 1..Len(t)}
  BY <1>1, <1>2, RangeEquality
<1>4. Head(t) = t[1] /\ Head(s) = s[1] /\ t # <<>>
  BY <1>2, <1>1, EmptySeq DEF Head
<1>5. Range(t) = Range(s) \cup {screen}
  BY <1>1, AppendRange
<1>6. Last(t) = screen /\ Head(t) = Head(s)
  BY <1>1, <1>2, <1>4 DEF Last
<1>7. \A i \in 2..Len(t) : t[i] # "main"
  BY <1>1, <1>2 DEF Stacked
<1>8. ASSUME NEW i \in 1..Len(t), NEW j \in 1..Len(t), i < j, t[j] = "itemSubscription"
      PROVE  t[i] \in Outside
  <2>1. i \in 1..Len(s) /\ t[i] = s[i] /\ s[i] \in Range(s)
    BY <1>8, <1>1, <1>2, <1>3
  <2>2. CASE j = Len(t)
    BY <2>1, <2>2, <1>2, <1>8
  <2>3. CASE j < Len(t)
    BY <2>1, <2>3, <1>8, <1>1, <1>2 DEF Stacked
  <2> QED
    BY <2>2, <2>3, <1>2, <1>1
<1> QED
  BY <1>2, <1>4, <1>5, <1>6, <1>7, <1>8 DEF Stacked

LEMMA Popped ==
  ASSUME NEW s, Stacked(s), Len(s) > 1
  PROVE  LET t == Front(s) IN
         /\ Stacked(t) /\ Range(t) \subseteq Range(s) /\ Range(s) \subseteq Range(t) \cup {Last(s)}
         /\ Head(t) = Head(s)
         /\ Last(s) = "itemSubscription" => Range(t) \subseteq Outside
<1> DEFINE t == Front(s)
<1>1. s \in Seq(Screens) /\ Len(s) \in Nat /\ Len(s) > 1
  BY StackFacts DEF Stacked
<1>2. /\ t \in Seq(Screens) /\ Len(t) = Len(s) - 1
      /\ \A i \in 1..(Len(s) - 1) : t[i] = s[i]
  BY <1>1, SubSeqProperties DEF Front
<1>3. Range(s) = {s[i] : i \in 1..Len(s)} /\ Range(t) = {t[i] : i \in 1..Len(t)}
  BY <1>1, <1>2, RangeEquality
<1>4. Head(t) = t[1] /\ Head(s) = s[1] /\ t # <<>>
  BY <1>2, <1>1, EmptySeq DEF Head
<1>5. Range(t) \subseteq Range(s) /\ Range(s) \subseteq Range(t) \cup {Last(s)}
  <2>1. \A i \in 1..Len(s) : i = Len(s) \/ i \in 1..Len(t)
    BY <1>1, <1>2
  <2> QED
    BY <2>1, <1>1, <1>2, <1>3 DEF Last
<1>6. \A i \in 2..Len(t) : t[i] # "main"
  BY <1>1, <1>2 DEF Stacked
<1>7. \A i, j \in 1..Len(t) : i < j /\ t[j] = "itemSubscription" => t[i] \in Outside
  BY <1>1, <1>2 DEF Stacked
<1>8. Last(s) = "itemSubscription" => Range(t) \subseteq Outside
  BY <1>1, <1>2, <1>3 DEF Stacked, Last
<1> QED
  BY <1>1, <1>2, <1>4, <1>5, <1>6, <1>7, <1>8 DEF Stacked

\* What replaces the bottom must be a screen that is found there.
LEMMA Replaced ==
  ASSUME NEW s, Stacked(s), NEW screen \in Screens \ {"main", "itemSubscription"},
         screen \in Bottoms \/ Len(s) > 1
  PROVE  LET t == Append(Front(s), screen) IN
         /\ Stacked(t) /\ Range(t) \subseteq Range(s) \cup {screen} /\ Last(t) = screen
         /\ Len(s) > 1 => Head(t) = Head(s)
         /\ Last(s) = "itemSubscription" => Range(t) \subseteq Outside \cup {screen}
<1>1. CASE Len(s) > 1
  <2>1. Stacked(Front(s))
    BY <1>1, Popped
  <2> QED
    BY <1>1, <2>1, Popped, Pushed
<1>2. CASE Len(s) = 1 /\ screen \in Bottoms
  <2>1. Append(Front(s), screen) = <<screen>>
    <3>1. s \in Seq(Screens) /\ Len(s) = 1
      BY <1>2 DEF Stacked
    <3>2. Front(s) = <<>>
      BY <3>1, SubSeqProperties, EmptySeq DEF Front
    <3> QED
      BY <3>2
  <2>2. Range(<<screen>>) = {screen} /\ Last(<<screen>>) = screen
    BY DEF Range, Last
  <2>3. Stacked(<<screen>>)
    BY <1>2 DEF Stacked
  <2> QED
    BY <2>1, <2>2, <2>3, <1>2
<1>3. \A n \in Nat \ {0} : n > 1 \/ n = 1
  OBVIOUS
<1>4. Len(s) > 1 \/ Len(s) = 1
  BY <1>3, StackFacts, Zenon
<1>5. Len(s) = 1 => ~(Len(s) > 1)
  OBVIOUS
<1> QED
  BY <1>1, <1>2, <1>4, <1>5, Zenon

-----------------------------------------------------------------------------
(* The invariant.                                                          *)

\* What the chain asks for has been asked for; an unsubscription that is under
\* way, or has failed, stands for the customer and the contact.
Taken(m, a) == "unsubscribe" \in m.sent \/ "unsubscription" \in a

BagsAsked(m) == cfg.bags => "bagFee" \in m.asked

CustomerAsked(m, t, a) ==
  /\ ShouldPromptForCustomer(t) => "customer" \in m.asked
  /\ ShouldRequireCustomer(t) => Taken(m, a)

ContactAsked(m, t, a) ==
  t.basket.order # "none" => (\E screen \in ContactScreens : screen \in m.asked) \/ Taken(m, a)

DonationAsked(m, t) == cfg.donations /\ t.basket.due => "donation" \in m.asked

Allowed(m, t, a) ==
  BagsAsked(m) /\ CustomerAsked(m, t, a) /\ ContactAsked(m, t, a) /\ DonationAsked(m, t)

\* A screen is shown after those that come before it in the chain.
Due(screen, m, t, a) ==
  /\ screen \in {"customer", "customerDisplay"} \cup LateScreens => BagsAsked(m)
  /\ screen \in LateScreens => CustomerAsked(m, t, a)
  /\ screen \in {"shippingMethod", "donation"} => ContactAsked(m, t, a)
  /\ screen = "shippingMethod" => cfg.shipping

InOrder(m, t, a) ==
  /\ Stacked(m.stack)
  /\ Range(m.stack) \ Outside \subseteq m.asked
  /\ \A screen \in Range(m.stack) : Due(screen, m, t, a)
  /\ "customer" \in Range(m.frames) \/ "bagFee" \in m.sent => BagsAsked(m)
  /\ m.alert = "unsubscribe" => BagsAsked(m) /\ "customer" \in m.asked

\* What begins the chain, or changes the order, is alone on the main screen.
Begins == {"item", "lottery", "returnTotal"}

Alone(m) ==
  /\ m.alert = "lottery" \/ (\E operation \in Begins : operation \in m.sent) =>
       Range(m.stack) \subseteq Outside /\ "customer" \notin Range(m.frames)
  /\ "subscribe" \in m.sent =>
       /\ Range(m.stack) \subseteq Outside \cup {"itemSubscription"}
       /\ "customer" \notin Range(m.frames)
  /\ \A operation \in Begins : operation \in m.sent => m.sent \subseteq {operation, "background"}
  /\ m.alert # "none" => m.sent \subseteq {"background"}

PaymentScreens == {"payment", "customerNip"}
PaymentFrames == {"payment", "replacePayment"}

\* A total that is requested is under way, or has been answered and what was
\* requested with it has not.
Requested(m, t) ==
  /\ m.sent \subseteq {"total", "shipping", "unsubscribe", "background"} /\ m.sent # {}
  /\ "total" \in m.sent \/ t.total # "none"
  /\ "shipping" \in m.sent => ~cfg.shipping
  /\ m.frames = <<>> /\ m.alert = "none"
  /\ m.replace => Top(m) # "main"
  /\ \A screen \in PaymentScreens : screen \notin Range(m.stack)

\* A frame is requested when all else is done.
Framed(m, t, frame) ==
  /\ m.sent \subseteq {"taxCustomer", "background"} /\ m.alert = "none" /\ ~m.requested
  /\ frame \in PaymentFrames => t.total # "none"
  /\ frame = "replacePayment" => Top(m) # "main"

Paying(m, t) ==
  /\ t.total # "none" /\ ~m.requested /\ m.alert = "none"
  /\ m.sent \subseteq {"taxCustomer", "voidDonation", "background"}
  /\ Range(m.frames) \subseteq PaymentFrames
  /\ Top(m) \in PaymentScreens

Straight(m, t) ==
  /\ Head(m.stack) = "main"
  /\ m.requested => Requested(m, t)
  /\ "total" \in m.sent => m.requested
  /\ m.frames = <<>> \/ \E frame \in Frames : m.frames = <<frame>> /\ Framed(m, t, frame)
  /\ (\E screen \in PaymentScreens : screen \in Range(m.stack)) => Paying(m, t)
  /\ m.alert # "none" => m.frames = <<>> /\ ~m.requested
  /\ m.alert = "unsubscribe" => Top(m) \notin {"main", "itemSubscription"}
  /\ "unsubscribe" \in m.sent => Top(m) # "itemSubscription"

IInv ==
  /\ TypeOK
  /\ InOrder(main, trans, astray)
  /\ Alone(main)
  /\ "total" \notin astray => Straight(main, trans)

-----------------------------------------------------------------------------
(* The navigator changes the stack and what has been asked, and no more.   *)

LEMMA ShowFields ==
  ASSUME NEW m \in MainScreen, NEW s \in Seq(Screens)
  PROVE  LET n == Show(m, s) IN
         /\ n \in MainScreen /\ n.stack = s /\ n.asked = m.asked \cup Range(s)
         /\ n.frames = m.frames /\ n.sent = m.sent /\ n.alert = m.alert
         /\ n.requested = m.requested /\ n.replace = m.replace /\ n.voiding = m.voiding
         /\ n.authorizing = m.authorizing /\ n.donation = m.donation
<1>1. Range(s) \subseteq Screens
  BY RangeOfSeq
<1> QED
  BY <1>1 DEF Show, MainScreen

LEMMA SendFields ==
  ASSUME NEW m \in MainScreen, NEW operation \in Operations
  PROVE  LET n == Send(m, operation) IN
         /\ n \in MainScreen /\ n.sent = m.sent \cup {operation}
         /\ n.stack = m.stack /\ n.asked = m.asked /\ n.frames = m.frames /\ n.alert = m.alert
         /\ n.requested = m.requested /\ n.replace = m.replace /\ n.voiding = m.voiding
         /\ n.authorizing = m.authorizing /\ n.donation = m.donation
BY DEF Send, MainScreen

LEMMA FrameFields ==
  ASSUME NEW m \in MainScreen, NEW frame \in Frames
  PROVE  LET n == RequestFrame(m, frame) IN
         /\ n \in MainScreen
         /\ n.frames = Append(m.frames, frame) /\ Range(n.frames) = Range(m.frames) \cup {frame}
         /\ m.frames = <<>> => n.frames = <<frame>>
         /\ n.stack = m.stack /\ n.asked = m.asked /\ n.sent = m.sent /\ n.alert = m.alert
         /\ n.requested = m.requested /\ n.replace = m.replace /\ n.voiding = m.voiding
         /\ n.authorizing = m.authorizing /\ n.donation = m.donation
<1>1. m.frames \in Seq(Frames)
  BY DEF MainScreen
<1>2. Append(m.frames, frame) \in Seq(Frames)
  BY <1>1, AppendProperties
<1>3. Range(Append(m.frames, frame)) = Range(m.frames) \cup {frame}
  BY <1>1, AppendRange
<1>4. m.frames = <<>> => Append(m.frames, frame) = <<frame>>
  OBVIOUS
<1> QED
  BY <1>2, <1>3, <1>4 DEF RequestFrame, MainScreen

\* Due is about what has been asked and what is taken back.
LEMMA DueMonotonic ==
  ASSUME NEW screen, NEW m, NEW n, NEW t, NEW a, Due(screen, m, t, a),
         m.asked \subseteq n.asked, "unsubscribe" \in m.sent => "unsubscribe" \in n.sent
  PROVE  Due(screen, n, t, a)
BY DEF Due, BagsAsked, CustomerAsked, ContactAsked, Taken

\* A screen may be opened when it is due, and unless it is the customer's or one
\* of the payment only when the chain has not just begun.
LEMMA Opened ==
  ASSUME NEW m \in MainScreen, NEW t, NEW a, InOrder(m, t, a), Alone(m),
         NEW s, Stacked(s), NEW screen, Due(screen, m, t, a),
         Range(s) \subseteq Range(m.stack) \cup Outside \cup {screen},
         \/ screen \in Outside
         \/ m.alert # "lottery" /\ \A operation \in Begins \cup {"subscribe"} : operation \notin m.sent
  PROVE  InOrder(Show(m, s), t, a) /\ Alone(Show(m, s))
<1> DEFINE n == Show(m, s)
<1>1. s \in Seq(Screens)
  BY DEF Stacked
<1>2. /\ n.stack = s /\ n.asked = m.asked \cup Range(s)
      /\ n.frames = m.frames /\ n.sent = m.sent /\ n.alert = m.alert
  BY <1>1, ShowFields
<1>3. ASSUME NEW other \in Range(s) PROVE Due(other, n, t, a)
  <2>1. other \in Range(m.stack) \/ other \in Outside \/ other = screen
    OBVIOUS
  <2>2. CASE other \in Outside
    BY <2>2 DEF Due, Outside, LateScreens, ContactScreens
  <2>3. CASE other \in Range(m.stack) \/ other = screen
    <3>1. Due(other, m, t, a)
      BY <2>3 DEF InOrder
    <3> QED
      BY <3>1, <1>2, DueMonotonic
  <2> QED
    BY <2>1, <2>2, <2>3
<1>4. InOrder(n, t, a)
  BY <1>2, <1>3 DEF InOrder, BagsAsked
<1>5. Alone(n)
  <2> HIDE DEF n
  <2> QED
    BY <1>2 DEF Alone
<1> QED
  BY <1>4, <1>5

\* Paying screens and main itself need no leave.
LEMMA OpenedOutside ==
  ASSUME NEW m \in MainScreen, NEW t, NEW a, InOrder(m, t, a), Alone(m),
         NEW s, Stacked(s), Range(s) \subseteq Range(m.stack) \cup Outside
  PROVE  InOrder(Show(m, s), t, a) /\ Alone(Show(m, s))
<1>1. Due("main", m, t, a) /\ "main" \in Outside
  BY DEF Due, LateScreens, ContactScreens, Outside
<1> QED
  BY <1>1, Opened

LEMMA Followed ==
  ASSUME NEW m \in MainScreen, Stacked(m.stack), NEW screen \in Bottoms \ {"main"}
  PROVE  \E s : /\ Follow(m, screen) = Show(m, s) /\ Stacked(s) /\ Last(s) = screen
                /\ Range(s) \subseteq Range(m.stack) \cup {screen}
                /\ Head(m.stack) = "main" => Head(s) = "main"
                /\ Top(m) = "itemSubscription" => Range(s) \subseteq Outside \cup {screen}
<1>1. screen \in Screens \ {"main", "itemSubscription"}
  BY DEF Bottoms, Screens, Outside, LateScreens
<1>2. CASE Top(m) # "main"
  <2> DEFINE s == Append(Front(m.stack), screen)
  <2>1. Follow(m, screen) = Show(m, s)
    BY <1>2 DEF Follow, Replace
  <2>2. /\ Stacked(s) /\ Last(s) = screen /\ Range(s) \subseteq Range(m.stack) \cup {screen}
        /\ Len(m.stack) > 1 => Head(s) = Head(m.stack)
        /\ Last(m.stack) = "itemSubscription" => Range(s) \subseteq Outside \cup {screen}
    BY <1>1, Replaced
  <2>3. Head(m.stack) = "main" => Len(m.stack) > 1
    BY <1>2, StackFacts DEF Top
  <2> QED
    BY <2>1, <2>2, <2>3 DEF Top
<1>3. CASE Top(m) = "main"
  <2> DEFINE s == Append(m.stack, screen)
  <2>1. Follow(m, screen) = Show(m, s)
    BY <1>3 DEF Follow, Push
  <2>2. /\ Stacked(s) /\ Last(s) = screen /\ Range(s) = Range(m.stack) \cup {screen}
        /\ Head(s) = Head(m.stack)
    BY <1>1, Pushed
  <2> QED
    BY <1>3, <2>1, <2>2
<1> QED
  BY <1>2, <1>3

\* The way back to the main screen, where it is still there.
LEMMA Returned ==
  ASSUME NEW m \in MainScreen, NEW t, NEW a, InOrder(m, t, a), Alone(m)
  PROVE  LET n == PopToMain(m) IN
         /\ n \in MainScreen /\ InOrder(n, t, a) /\ Alone(n)
         /\ n.frames = m.frames /\ n.sent = m.sent /\ n.alert = m.alert
         /\ n.requested = m.requested /\ n.replace = m.replace /\ n.voiding = m.voiding
         /\ n.authorizing = m.authorizing /\ n.donation = m.donation
         /\ m.asked \subseteq n.asked
         /\ Head(m.stack) = "main" => n.stack = <<"main">>
<1>1. CASE Head(m.stack) = "main"
  <2> DEFINE s == <<"main">>
             n == Show(m, s)
  <2>1. PopToMain(m) = n
    BY <1>1 DEF PopToMain
  <2>2. s \in Seq(Screens)
    BY MainAlone DEF Stacked
  <2>3. InOrder(n, t, a) /\ Alone(n)
    <3>1. Range(s) \subseteq Range(m.stack) \cup Outside
      BY MainAlone DEF Outside
    <3> QED
      BY <3>1, MainAlone, OpenedOutside
  <2>s. s = <<"main">>
    OBVIOUS
  <2> HIDE DEF s
  <2>4. /\ n \in MainScreen /\ n.stack = s /\ m.asked \subseteq n.asked
        /\ n.frames = m.frames /\ n.sent = m.sent /\ n.alert = m.alert
        /\ n.requested = m.requested /\ n.replace = m.replace /\ n.voiding = m.voiding
        /\ n.authorizing = m.authorizing /\ n.donation = m.donation
    BY <2>2, ShowFields
  <2> HIDE DEF n
  <2> QED
    BY <2>1, <2>3, <2>4, <2>s
<1>2. CASE Head(m.stack) # "main"
  BY <1>2 DEF PopToMain
<1> QED
  BY <1>1, <1>2

-----------------------------------------------------------------------------
(* The chain, from its end to its start.                                   *)

Fit(m, t, a) == m \in MainScreen /\ InOrder(m, t, a) /\ Alone(m)

\* A step of the chain is taken when nothing but what is passed over is under way,
Calm(m) == m.alert = "none" /\ m.sent \subseteq {"shipping", "unsubscribe", "background"}

\* and where no total has gone astray, with no total or payment begun.
Free(m) ==
  /\ Head(m.stack) = "main" /\ ~m.requested /\ m.frames = <<>>
  /\ \A screen \in PaymentScreens : screen \notin Range(m.stack)
  /\ "shipping" \in m.sent => ~cfg.shipping
  /\ "unsubscribe" \in m.sent => Top(m) # "itemSubscription"

\* The chain begins from the main screen, or from one of the payment.
Begun(m) ==
  /\ m \in MainScreen /\ Stacked(m.stack) /\ Range(m.stack) \subseteq Outside
  /\ "customer" \notin Range(m.frames) /\ m.alert = "none" /\ m.sent \subseteq {"background"}

Leads(n, t, a) == Fit(n, t, a) /\ ("total" \in n.sent => Allowed(n, t, a))

\* The flags that are not about what is under way.
LEMMA Insignificant ==
  ASSUME NEW m \in MainScreen, NEW n, NEW voiding \in BOOLEAN, NEW authorizing \in BOOLEAN,
         NEW donation \in BOOLEAN,
         n = [m EXCEPT !.voiding = voiding, !.authorizing = authorizing, !.donation = donation],
         NEW t, NEW a
  PROVE  /\ n \in MainScreen /\ n.stack = m.stack /\ n.asked = m.asked /\ n.frames = m.frames
         /\ n.sent = m.sent /\ n.alert = m.alert /\ n.requested = m.requested
         /\ n.replace = m.replace
         /\ Fit(m, t, a) => Fit(n, t, a)
         /\ Leads(m, t, a) => Leads(n, t, a)
         /\ Straight(m, t) => Straight(n, t)
         /\ Free(m) => Free(n)
         /\ Calm(m) => Calm(n)
         /\ Begun(m) => Begun(n)
<1>1. /\ n \in MainScreen /\ n.stack = m.stack /\ n.asked = m.asked /\ n.frames = m.frames
      /\ n.sent = m.sent /\ n.alert = m.alert /\ n.requested = m.requested
      /\ n.replace = m.replace
  BY DEF MainScreen
<1>2. ASSUME NEW screen, Due(screen, m, t, a) PROVE Due(screen, n, t, a)
  BY <1>1, <1>2, DueMonotonic
<1>3. Fit(m, t, a) => Fit(n, t, a)
  BY <1>1, <1>2 DEF Fit, InOrder, Alone, BagsAsked
<1>4. Allowed(m, t, a) => Allowed(n, t, a)
  BY <1>1 DEF Allowed, BagsAsked, CustomerAsked, ContactAsked, DonationAsked, Taken
<1>5. Straight(m, t) => Straight(n, t)
  <2>1. Top(n) = Top(m)
    BY <1>1 DEF Top
  <2> QED
    BY <1>1, <2>1 DEF Straight, Requested, Framed, Paying
<1>6. Free(m) => Free(n)
  BY <1>1 DEF Free, Top
<1> QED
  BY <1>1, <1>3, <1>4, <1>5, <1>6 DEF Leads, Calm, Begun

LEMMA FreeStraight ==
  ASSUME NEW m, NEW t, Calm(m), Free(m)
  PROVE  Straight(m, t)
BY DEF Calm, Free, Straight

LEMMA CalmLeads ==
  ASSUME NEW m, NEW t, NEW a, Fit(m, t, a), Calm(m)
  PROVE  Leads(m, t, a)
BY DEF Leads, Calm

\* Another screen above main changes neither.
LEMMA CalmOpened ==
  ASSUME NEW m \in MainScreen, Calm(m), NEW s, Stacked(s)
  PROVE  /\ Calm(Show(m, s)) /\ Show(m, s) \in MainScreen
         /\ /\ Free(m) /\ Head(s) = "main" /\ Last(s) # "itemSubscription"
            /\ \A screen \in PaymentScreens : screen \notin Range(s)
            => Free(Show(m, s))
<1>1. s \in Seq(Screens)
  BY DEF Stacked
<1> DEFINE n == Show(m, s)
<1>2. n \in MainScreen /\ n.stack = s /\ n.frames = m.frames /\ n.sent = m.sent
      /\ n.alert = m.alert /\ n.requested = m.requested
  BY <1>1, ShowFields
<1> HIDE DEF n
<1>3. Calm(n)
  BY <1>2 DEF Calm
<1>4. ASSUME Free(m), Head(s) = "main", Last(s) # "itemSubscription",
             \A screen \in PaymentScreens : screen \notin Range(s)
      PROVE  Free(n)
  BY <1>2, <1>4 DEF Free, Top
<1> QED
  BY <1>2, <1>3, <1>4 DEF n

LEMMA TotalLeads ==
  ASSUME NEW m, NEW t, NEW a, NEW r \in BOOLEAN, Fit(m, t, a), Calm(m), Allowed(m, t, a)
  PROVE  LET n == HandleOnTotalTransactionRequested(m, t, r) IN
         /\ Leads(n, t, a)
         /\ Free(m) /\ (r => Top(m) # "main") => Straight(n, t)
<1> DEFINE n == HandleOnTotalTransactionRequested(m, t, r)
<1>1. CASE ~TotalAllowed(t)
  BY <1>1, CalmLeads, FreeStraight DEF HandleOnTotalTransactionRequested
<1>2. CASE TotalAllowed(t)
  <2>1. /\ n \in MainScreen /\ n.sent = m.sent \cup {"total"}
        /\ n.stack = m.stack /\ n.asked = m.asked /\ n.frames = m.frames /\ n.alert = m.alert
        /\ n.requested = TRUE /\ n.replace = r
    BY <1>2 DEF HandleOnTotalTransactionRequested, Send, Fit, MainScreen, Operations
  <2> HIDE DEF n
  <2>2. InOrder(n, t, a)
    <3>1. \A screen \in Range(n.stack) : Due(screen, n, t, a)
      BY <2>1, DueMonotonic DEF Fit, InOrder
    <3> QED
      BY <2>1, <3>1 DEF Fit, InOrder, BagsAsked
  <2>3. Alone(n)
    BY <2>1 DEF Alone, Calm, Begins
  <2>4. Allowed(n, t, a)
    BY <2>1 DEF Allowed, BagsAsked, CustomerAsked, ContactAsked, DonationAsked, Taken
  <2>5. ASSUME Free(m), r => Top(m) # "main"
        PROVE  Straight(n, t)
    BY <2>1, <2>5 DEF Free, Calm, Straight, Requested, Top
  <2> QED
    BY <2>1, <2>2, <2>3, <2>4, <2>5 DEF Leads, Fit, n
<1> QED
  BY <1>1, <1>2

LEMMA DonationLeads ==
  ASSUME NEW m, NEW t, NEW a, NEW r \in BOOLEAN, Fit(m, t, a), Calm(m),
         BagsAsked(m), CustomerAsked(m, t, a), ContactAsked(m, t, a)
  PROVE  LET n == HandleDonationScreen(m, t, r) IN
         /\ Leads(n, t, a)
         /\ Free(m) /\ (r => Top(m) # "main") => Straight(n, t)
<1>1. CASE ~(cfg.donations /\ t.basket.due)
  <2>1. Allowed(m, t, a)
    BY <1>1 DEF Allowed, DonationAsked
  <2> QED
    BY <1>1, <2>1, TotalLeads DEF HandleDonationScreen
<1>2. CASE cfg.donations /\ t.basket.due
  <2> DEFINE n == HandleDonationScreen(m, t, r)
  <2>1. PICK s : /\ Follow(m, "donation") = Show(m, s) /\ Stacked(s) /\ Last(s) = "donation"
                 /\ Range(s) \subseteq Range(m.stack) \cup {"donation"}
                 /\ Head(m.stack) = "main" => Head(s) = "main"
    <3>1. "donation" \in Bottoms \ {"main"}
      BY DEF Bottoms
    <3> QED
      BY <3>1, Followed DEF Fit, InOrder
  <2> DEFINE o == Show(m, s)
  <2>2. n = [o EXCEPT !.donation = r]
    BY <1>2, <2>1 DEF HandleDonationScreen
  <2>3. Calm(o) /\ o \in MainScreen /\ o.stack = s
    BY <2>1, CalmOpened, ShowFields DEF Fit, Stacked
  <2>4. InOrder(o, t, a) /\ Alone(o)
    <3>1. Due("donation", m, t, a)
      BY DEF Due
    <3>2. m.alert # "lottery" /\ \A operation \in Begins \cup {"subscribe"} : operation \notin m.sent
      BY DEF Calm, Begins
    <3>3. Range(s) \subseteq Range(m.stack) \cup Outside \cup {"donation"}
      BY <2>1
    <3> QED
      BY <2>1, <3>1, <3>2, <3>3, Opened DEF Fit
  <2>5. ASSUME Free(m) PROVE Free(o)
    BY <2>1, <2>5, CalmOpened DEF Fit, Free, PaymentScreens
  <2> HIDE DEF o
  <2>6. /\ n \in MainScreen /\ n.stack = o.stack /\ n.asked = o.asked /\ n.frames = o.frames
        /\ n.sent = o.sent /\ n.alert = o.alert /\ n.requested = o.requested
    BY <2>2, <2>3 DEF MainScreen
  <2> HIDE DEF n
  <2>7. InOrder(n, t, a) /\ Alone(n) /\ Calm(n)
    <3>1. \A screen \in Range(n.stack) : Due(screen, n, t, a)
      BY <2>4, <2>6, DueMonotonic DEF InOrder
    <3> QED
      BY <2>3, <2>4, <2>6, <3>1 DEF InOrder, BagsAsked, Alone, Calm
  <2>8. ASSUME Free(m) PROVE Free(n)
    BY <2>5, <2>6, <2>8 DEF Free, Top
  <2> QED
    BY <2>6, <2>7, <2>8, CalmLeads, FreeStraight DEF Fit, n
<1> QED
  BY <1>1, <1>2

\* A screen above main that is due is shown in the stack it is given.
LEMMA ScreenLeads ==
  ASSUME NEW m, NEW t, NEW a, Fit(m, t, a), Calm(m), NEW s, Stacked(s),
         NEW screen \in Screens \ (PaymentScreens \cup {"itemSubscription"}),
         Due(screen, m, t, a), Last(s) = screen, Range(s) \subseteq Range(m.stack) \cup {screen}
  PROVE  LET n == Show(m, s) IN
         /\ Leads(n, t, a)
         /\ Free(m) /\ Head(s) = "main" => Free(n) /\ Straight(n, t)
<1> DEFINE n == Show(m, s)
<1>1. Calm(n) /\ n \in MainScreen
  BY CalmOpened DEF Fit
<1>2. InOrder(n, t, a) /\ Alone(n)
  <2>1. m.alert # "lottery" /\ \A operation \in Begins \cup {"subscribe"} : operation \notin m.sent
    BY DEF Calm, Begins
  <2>2. Range(s) \subseteq Range(m.stack) \cup Outside \cup {screen}
    OBVIOUS
  <2> QED
    BY <2>1, <2>2, Opened DEF Fit
<1>3. ASSUME Free(m), Head(s) = "main" PROVE Free(n)
  <2>1. \A other \in PaymentScreens : other \notin Range(s)
    BY <1>3 DEF Free
  <2> QED
    BY <1>3, <2>1, CalmOpened DEF Fit
<1> QED
  BY <1>1, <1>2, <1>3, CalmLeads, FreeStraight DEF Fit

LEMMA PushLeads ==
  ASSUME NEW m, NEW t, NEW a, Fit(m, t, a), Calm(m),
         NEW screen \in Screens \ (PaymentScreens \cup {"main", "itemSubscription"}),
         Due(screen, m, t, a)
  PROVE  LET n == Push(m, screen) IN
         Leads(n, t, a) /\ (Free(m) => Free(n) /\ Straight(n, t))
<1> DEFINE s == Append(m.stack, screen)
<1>1. /\ Stacked(s) /\ Range(s) = Range(m.stack) \cup {screen} /\ Last(s) = screen
      /\ Head(s) = Head(m.stack)
  BY Pushed DEF Fit, InOrder
<1>2. Free(m) => Head(s) = "main"
  BY <1>1 DEF Free
<1> HIDE DEF s
<1> QED
  BY <1>1, <1>2, ScreenLeads DEF Push, s

LEMMA ReplaceLeads ==
  ASSUME NEW m, NEW t, NEW a, Fit(m, t, a), Calm(m), Len(m.stack) > 1,
         NEW screen \in Screens \ (PaymentScreens \cup {"main", "itemSubscription"}),
         Due(screen, m, t, a)
  PROVE  LET n == Replace(m, screen) IN
         Leads(n, t, a) /\ (Free(m) => Free(n) /\ Straight(n, t))
<1> DEFINE s == Append(Front(m.stack), screen)
<1>1. /\ Stacked(s) /\ Range(s) \subseteq Range(m.stack) \cup {screen} /\ Last(s) = screen
      /\ Head(s) = Head(m.stack)
  BY Replaced DEF Fit, InOrder
<1>2. Free(m) => Head(s) = "main"
  BY <1>1 DEF Free
<1> HIDE DEF s
<1> QED
  BY <1>1, <1>2, ScreenLeads DEF Replace, s

LEMMA ContactLeads ==
  ASSUME NEW m, NEW t \in Transaction, NEW a, Fit(m, t, a), Calm(m),
         BagsAsked(m), CustomerAsked(m, t, a)
  PROVE  LET n == MoveToPickupOrDelivery(m, t) IN
         Leads(n, t, a) /\ (Free(m) => Straight(n, t))
<1>1. t.basket.order \in Orders
  BY DEF Transaction, Basket
<1>2. ASSUME NEW screen \in ContactScreens
      PROVE  /\ screen \in Screens \ (PaymentScreens \cup {"main", "itemSubscription"})
             /\ Due(screen, m, t, a)
  BY DEF ContactScreens, Screens, Outside, LateScreens, PaymentScreens, Due
<1>3. CASE t.basket.order = "pickup"
  <2>1. "orderPickupDetailsConfirmation" \in ContactScreens
    BY DEF ContactScreens
  <2> QED
    BY <1>2, <1>3, <2>1, PushLeads DEF MoveToPickupOrDelivery
<1>4. CASE t.basket.order \in {"delivery", "subscription"}
  <2>1. "orderDeliveryAddressConfirmation" \in ContactScreens
    BY DEF ContactScreens
  <2>2. MoveToPickupOrDelivery(m, t) = Push(m, "orderDeliveryAddressConfirmation")
    BY <1>4 DEF MoveToPickupOrDelivery
  <2> QED
    BY <1>2, <2>1, <2>2, PushLeads
<1>5. CASE t.basket.order = "none"
  <2>1. ContactAsked(m, t, a)
    BY <1>5 DEF ContactAsked
  <2>2. MoveToPickupOrDelivery(m, t) = HandleDonationScreen(m, t, FALSE)
    BY <1>5 DEF MoveToPickupOrDelivery
  <2> QED
    BY <2>1, <2>2, DonationLeads
<1> QED
  BY <1>1, <1>3, <1>4, <1>5 DEF Orders

LEMMA CustomerLeads ==
  ASSUME NEW m, NEW t \in Transaction, NEW a, Fit(m, t, a), m.alert = "none", m.sent = {},
         BagsAsked(m), "customer" \in m.asked
  PROVE  LET n == MoveFromCustomerScreen(m, t) IN
         /\ Leads(n, t, a)
         /\ Free(m) /\ Top(m) \notin {"main", "itemSubscription"} => Straight(n, t)
<1>1. Calm(m)
  BY DEF Calm
<1>2. CASE ~ShouldRequireCustomer(t)
  <2>1. CustomerAsked(m, t, a)
    BY <1>2 DEF CustomerAsked
  <2>2. CASE t.basket.order # "none"
    BY <1>1, <1>2, <2>1, <2>2, ContactLeads DEF MoveFromCustomerScreen
  <2>3. CASE t.basket.order = "none"
    <3>1. ContactAsked(m, t, a)
      BY <2>3 DEF ContactAsked
    <3>2. MoveFromCustomerScreen(m, t) = HandleDonationScreen(m, t, TRUE)
      BY <1>2, <2>3 DEF MoveFromCustomerScreen
    <3> QED
      BY <1>1, <2>1, <3>1, <3>2, DonationLeads
  <2> QED
    BY <2>2, <2>3
<1>3. CASE ShouldRequireCustomer(t) /\ t.basket.order = "subscription"
  <2> DEFINE n == [m EXCEPT !.alert = "unsubscribe"]
  <2>1. MoveFromCustomerScreen(m, t) = n
    BY <1>3 DEF MoveFromCustomerScreen
  <2>2. /\ n \in MainScreen /\ n.stack = m.stack /\ n.asked = m.asked /\ n.frames = m.frames
        /\ n.sent = {} /\ n.alert = "unsubscribe" /\ n.requested = m.requested
    BY DEF Fit, MainScreen
  <2> HIDE DEF n
  <2>3. InOrder(n, t, a)
    <3>1. \A screen \in Range(n.stack) : Due(screen, n, t, a)
      BY <2>2, DueMonotonic DEF Fit, InOrder
    <3> QED
      BY <2>2, <3>1 DEF Fit, InOrder, BagsAsked
  <2>4. Alone(n)
    BY <2>2 DEF Alone
  <2>5. ASSUME Free(m), Top(m) \notin {"main", "itemSubscription"}
        PROVE  Straight(n, t)
    BY <2>2, <2>5 DEF Free, Straight, Top
  <2> QED
    BY <2>1, <2>2, <2>3, <2>4, <2>5 DEF Leads, Fit
<1>4. CASE ShouldRequireCustomer(t) /\ t.basket.order # "subscription"
  <2> DEFINE n == PopToMain(m)
  <2>1. MoveFromCustomerScreen(m, t) = n
    BY <1>4 DEF MoveFromCustomerScreen
  <2>2. /\ n \in MainScreen /\ InOrder(n, t, a) /\ Alone(n)
        /\ n.frames = m.frames /\ n.sent = m.sent /\ n.alert = m.alert
        /\ n.requested = m.requested
        /\ Head(m.stack) = "main" => n.stack = <<"main">>
    BY Returned DEF Fit
  <2> HIDE DEF n
  <2>3. Calm(n)
    BY <2>2 DEF Calm
  <2>4. ASSUME Free(m) PROVE Free(n)
    <3>1. n.stack = <<"main">>
      BY <2>2, <2>4 DEF Free
    <3>2. Head(n.stack) = "main" /\ Range(n.stack) = {"main"} /\ Top(n) = "main"
      BY <3>1, MainAlone, Zenon DEF Top
    <3> QED
      BY <2>2, <2>4, <3>2 DEF Free, PaymentScreens
  <2> QED
    BY <2>1, <2>2, <2>3, <2>4, CalmLeads, FreeStraight DEF Fit
<1> QED
  BY <1>2, <1>3, <1>4

LEMMA BagFeeLeads ==
  ASSUME NEW m, NEW t \in Transaction, NEW a, Fit(m, t, a), m.alert = "none", m.sent = {},
         BagsAsked(m)
  PROVE  LET n == MoveFromOrSkipBagFeeScreen(m, t) IN
         Leads(n, t, a) /\ (Free(m) => Straight(n, t))
<1>1. Calm(m)
  BY DEF Calm
<1>2. CASE ShouldPromptForCustomer(t) \/ ShouldRequireCustomer(t)
  <2> DEFINE n == RequestFrame(m, "customer")
  <2>1. MoveFromOrSkipBagFeeScreen(m, t) = n
    BY <1>2 DEF MoveFromOrSkipBagFeeScreen
  <2>2. /\ n \in MainScreen /\ n.stack = m.stack /\ n.asked = m.asked
        /\ m.frames = <<>> => n.frames = <<"customer">>
        /\ n.sent = {} /\ n.alert = "none" /\ n.requested = m.requested
    BY FrameFields DEF Fit, Frames
  <2> HIDE DEF n
  <2>3. InOrder(n, t, a)
    <3>1. \A screen \in Range(n.stack) : Due(screen, n, t, a)
      BY <2>2, DueMonotonic DEF Fit, InOrder
    <3> QED
      BY <2>2, <3>1 DEF Fit, InOrder, BagsAsked
  <2>4. Alone(n)
    BY <2>2 DEF Alone
  <2>5. ASSUME Free(m) PROVE Straight(n, t)
    <3>1. Framed(n, t, "customer") /\ "customer" \in Frames
      BY <2>2, <2>5 DEF Free, Framed, PaymentFrames, Frames
    <3> QED
      BY <2>2, <2>5, <3>1 DEF Free, Straight
  <2> QED
    BY <2>1, <2>2, <2>3, <2>4, <2>5 DEF Leads, Fit
<1>3. CASE ~(ShouldPromptForCustomer(t) \/ ShouldRequireCustomer(t))
  <2>1. CustomerAsked(m, t, a)
    BY <1>3 DEF CustomerAsked
  <2> QED
    BY <1>1, <1>3, <2>1, ContactLeads DEF MoveFromOrSkipBagFeeScreen
<1> QED
  BY <1>2, <1>3

LEMMA ReserveLeads ==
  ASSUME NEW m, NEW t \in Transaction, NEW a, NEW b, Fit(m, t, a), m.alert = "none", m.sent = {}
  PROVE  LET n == MoveFromOrSkipInventoryReserve(m, t, b) IN
         Leads(n, t, a) /\ (Free(m) => Straight(n, t))
<1>1. Calm(m)
  BY DEF Calm
<1>2. CASE b.error
  BY <1>1, <1>2, CalmLeads, FreeStraight DEF MoveFromOrSkipInventoryReserve
<1>3. CASE ~b.error /\ cfg.bags
  <2>1. MoveFromOrSkipInventoryReserve(m, t, b) = MoveToBagScreen(m)
    BY <1>3 DEF MoveFromOrSkipInventoryReserve
  <2>2. /\ "bagFee" \in Screens \ (PaymentScreens \cup {"main", "itemSubscription"})
        /\ Due("bagFee", m, t, a)
    BY DEF Screens, Outside, LateScreens, ContactScreens, PaymentScreens, Due
  <2>3. Top(m) = "itemSubscription" => Len(m.stack) > 1
    BY StackFacts DEF Fit, InOrder, Top, Bottoms
  <2> QED
    BY <1>1, <2>1, <2>2, <2>3, PushLeads, ReplaceLeads DEF MoveToBagScreen
<1>4. CASE ~b.error /\ ~cfg.bags
  BY <1>4, BagFeeLeads DEF MoveFromOrSkipInventoryReserve, BagsAsked
<1> QED
  BY <1>2, <1>3, <1>4

LEMMA OutsideDue ==
  ASSUME NEW m, Stacked(m.stack), Range(m.stack) \subseteq Outside, NEW t, NEW a,
         "customer" \notin Range(m.frames), "bagFee" \notin m.sent, m.alert # "unsubscribe"
  PROVE  InOrder(m, t, a)
<1>1. \A screen \in Range(m.stack) : Due(screen, m, t, a)
  BY DEF Due, Outside, LateScreens, ContactScreens
<1> QED
  BY <1>1 DEF InOrder

\* An operation that is sent from there.
LEMMA SendBegun ==
  ASSUME NEW m, NEW t, NEW a, Begun(m), NEW operation \in Begins \cup {"reserve"}
  PROVE  LET n == Send(m, operation) IN
         Leads(n, t, a) /\ (Free(m) => Straight(n, t))
<1> DEFINE n == Send(m, operation)
<1>1. operation \in Operations
  BY DEF Begins, Operations
<1>2. /\ n \in MainScreen /\ n.stack = m.stack /\ n.asked = m.asked /\ n.frames = m.frames
      /\ n.sent = m.sent \cup {operation} /\ n.alert = m.alert /\ n.requested = m.requested
  BY <1>1, SendFields DEF Begun
<1> HIDE DEF n
<1>3. InOrder(n, t, a)
  BY <1>2, OutsideDue DEF Begun, Begins
<1>4. Alone(n)
  BY <1>2 DEF Begun, Begins, Alone
<1>5. ASSUME Free(m) PROVE Straight(n, t)
  BY <1>2, <1>5 DEF Free, Begun, Begins, Straight, Top
<1> QED
  BY <1>2, <1>3, <1>4, <1>5 DEF Leads, Fit, Begun, Begins, n

LEMMA PressedLeads ==
  ASSUME NEW m, NEW t, NEW a, Begun(m)
  PROVE  LET n == CheckAndHandleOnTotalPressed(m) IN
         Leads(n, t, a) /\ (Free(m) => Straight(n, t))
<1> DEFINE begun == [m EXCEPT !.asked = {}]
<1>1. /\ begun \in MainScreen /\ begun.stack = m.stack /\ begun.asked = {}
      /\ begun.frames = m.frames /\ begun.sent = m.sent /\ begun.alert = m.alert
      /\ begun.requested = m.requested
  BY DEF Begun, MainScreen
<1>d. CheckAndHandleOnTotalPressed(m) =
        IF cfg.subscriptions THEN Push(begun, "itemSubscription") ELSE Send(begun, "reserve")
  BY DEF CheckAndHandleOnTotalPressed
<1> HIDE DEF begun
<1>2. Begun(begun) /\ (Free(m) => Free(begun))
  BY <1>1 DEF Begun, Free, Top
<1>3. CASE ~cfg.subscriptions
  BY <1>d, <1>2, <1>3, SendBegun
<1>4. CASE cfg.subscriptions
  <2> DEFINE s == Append(m.stack, "itemSubscription")
             n == Show(begun, s)
  <2>1. /\ Stacked(s) /\ Range(s) = Range(m.stack) \cup {"itemSubscription"}
        /\ Last(s) = "itemSubscription" /\ Head(s) = Head(m.stack)
    BY Pushed DEF Begun, Screens
  <2>2. CheckAndHandleOnTotalPressed(m) = n
    BY <1>d, <1>1, <1>4 DEF Push
  <2> HIDE DEF s
  <2>3. /\ n \in MainScreen /\ n.stack = s /\ n.asked = Range(s) /\ n.frames = m.frames
        /\ n.sent = m.sent /\ n.alert = m.alert /\ n.requested = m.requested
    BY <1>1, <2>1, ShowFields DEF Stacked
  <2> HIDE DEF n
  <2>4. InOrder(n, t, a)
    <3>1. \A screen \in Range(s) : Due(screen, n, t, a)
      BY <2>1 DEF Begun, Due, Outside, LateScreens, ContactScreens
    <3> QED
      BY <2>1, <2>3, <3>1 DEF InOrder, Begun
  <2>5. Alone(n)
    BY <2>3 DEF Begun, Begins, Alone
  <2>6. ASSUME Free(m) PROVE Straight(n, t)
    BY <2>1, <2>3, <2>6 DEF Free, Begun, Straight, PaymentScreens, Top
  <2> QED
    BY <2>2, <2>3, <2>4, <2>5, <2>6 DEF Leads, Fit, Begun
<1> QED
  BY <1>3, <1>4

LEMMA ValidatedLeads ==
  ASSUME NEW m, NEW t, NEW a, Begun(m)
  PROVE  LET n == HandleOnTotalPressedAfterValidation(m, t) IN
         Leads(n, t, a) /\ (Free(m) => Straight(n, t))
<1>1. CASE ~t.basket.override
  BY <1>1, PressedLeads DEF HandleOnTotalPressedAfterValidation
<1>2. CASE t.basket.override
  <2> DEFINE o == Send(m, "returnTotal")
             n == [o EXCEPT !.authorizing = TRUE]
  <2>1. HandleOnTotalPressedAfterValidation(m, t) = n
    BY <1>2 DEF HandleOnTotalPressedAfterValidation
  <2>2. Leads(o, t, a) /\ (Free(m) => Straight(o, t)) /\ o \in MainScreen /\ "total" \notin o.sent
    <3>1. "returnTotal" \in Operations /\ "returnTotal" \in Begins
      BY DEF Operations, Begins
    <3>2. o.sent = m.sent \cup {"returnTotal"} /\ o \in MainScreen
      BY <3>1, SendFields DEF Begun
    <3> QED
      BY <3>1, <3>2, SendBegun DEF Begun
  <2> HIDE DEF o
  <2>3. Leads(n, t, a) /\ (Straight(o, t) => Straight(n, t))
    <3>1. n = [o EXCEPT !.voiding = o.voiding, !.authorizing = TRUE, !.donation = o.donation]
      BY <2>2 DEF MainScreen
    <3>2. o.voiding \in BOOLEAN /\ o.donation \in BOOLEAN
      BY <2>2 DEF MainScreen
    <3> QED
      BY <2>2, <3>1, <3>2, Insignificant
  <2> QED
    BY <2>1, <2>2, <2>3
<1> QED
  BY <1>1, <1>2

\* Where the contact has been asked for, the delivery goes on.
LEMMA DeliveryLeads ==
  ASSUME NEW m, NEW t, NEW a, Fit(m, t, a), m.alert = "none", m.sent = {},
         Mounted(m, "orderDeliveryAddressConfirmation")
  PROVE  LET n == MoveFromOrderDeliveryAddress(m, t) IN
         Leads(n, t, a) /\ (Free(m) => Straight(n, t))
<1>1. Calm(m)
  BY DEF Calm
<1>2. /\ BagsAsked(m) /\ CustomerAsked(m, t, a) /\ ContactAsked(m, t, a)
      /\ Len(m.stack) > 1 /\ Top(m) # "main"
  <2> DEFINE address == "orderDeliveryAddressConfirmation"
  <2>1. address \in Range(m.stack) /\ address \in m.asked /\ Due(address, m, t, a)
    BY DEF Mounted, Fit, InOrder, Outside
  <2>2. BagsAsked(m) /\ CustomerAsked(m, t, a)
    BY <2>1 DEF Due, LateScreens, ContactScreens
  <2>3. ContactAsked(m, t, a)
    BY <2>1 DEF ContactAsked, ContactScreens
  <2>4. Len(m.stack) > 1
    BY <2>1, StackFacts DEF Fit, InOrder, Bottoms
  <2>5. Top(m) # "main"
    <3>1. Top(m) = "main" => m.stack = <<"main">>
      BY StackFacts DEF Fit, InOrder, Top
    <3> QED
      BY <2>1, <3>1, MainAlone
  <2> QED
    BY <2>2, <2>3, <2>4, <2>5
<1>3. CASE t.basket.order = "subscription"
  <2>1. MoveFromOrderDeliveryAddress(m, t) = HandleDonationScreen(m, t, TRUE)
    BY <1>3 DEF MoveFromOrderDeliveryAddress
  <2> QED
    BY <1>1, <1>2, <2>1, DonationLeads
<1>4. CASE t.basket.order # "subscription" /\ cfg.shipping
  <2>1. MoveFromOrderDeliveryAddress(m, t) = Replace(m, "shippingMethod")
    BY <1>4 DEF MoveFromOrderDeliveryAddress
  <2>2. /\ "shippingMethod" \in Screens \ (PaymentScreens \cup {"main", "itemSubscription"})
        /\ Due("shippingMethod", m, t, a)
    BY <1>2, <1>4 DEF Screens, Outside, LateScreens, PaymentScreens, Due
  <2> QED
    BY <1>1, <1>2, <2>1, <2>2, ReplaceLeads
<1>5. CASE t.basket.order # "subscription" /\ ~cfg.shipping
  <2> DEFINE o == Send(m, "shipping")
  <2>1. MoveFromOrderDeliveryAddress(m, t) = HandleDonationScreen(o, t, TRUE)
    BY <1>5 DEF MoveFromOrderDeliveryAddress
  <2>2. /\ o \in MainScreen /\ o.stack = m.stack /\ o.asked = m.asked /\ o.frames = m.frames
        /\ o.sent = {"shipping"} /\ o.alert = "none" /\ o.requested = m.requested
    BY SendFields DEF Fit, Operations
  <2> HIDE DEF o
  <2>3. InOrder(o, t, a) /\ Alone(o) /\ Calm(o)
    <3>1. \A screen \in Range(o.stack) : Due(screen, o, t, a)
      BY <2>2, DueMonotonic DEF Fit, InOrder
    <3> QED
      BY <2>2, <3>1 DEF Fit, InOrder, Alone, Begins, BagsAsked, Calm
  <2>4. BagsAsked(o) /\ CustomerAsked(o, t, a) /\ ContactAsked(o, t, a) /\ Top(o) # "main"
    BY <1>2, <2>2 DEF BagsAsked, CustomerAsked, ContactAsked, Taken, Top
  <2>5. Free(m) => Free(o)
    BY <1>5, <2>2 DEF Free, Top
  <2> QED
    BY <2>1, <2>2, <2>3, <2>4, <2>5, DonationLeads DEF Fit
<1> QED
  BY <1>3, <1>4, <1>5

-----------------------------------------------------------------------------
(* What leaves the chain where it is.                                      *)

\* An operation sent alone, that neither begins the chain nor ends it.
LEMMA SendAlone ==
  ASSUME NEW m, NEW t, NEW a, Fit(m, t, a), m.sent = {}, m.alert = "none",
         NEW operation \in Operations \ (Begins \cup {"total", "unsubscribe"}),
         operation = "bagFee" => BagsAsked(m),
         operation = "subscribe" => /\ Range(m.stack) \subseteq Outside \cup {"itemSubscription"}
                                    /\ "customer" \notin Range(m.frames)
  PROVE  LET n == Send(m, operation) IN
         /\ Fit(n, t, a) /\ n.sent = {operation} /\ n.stack = m.stack /\ n.frames = m.frames
         /\ n.requested = m.requested /\ n.alert = "none" /\ n.replace = m.replace
         /\ /\ Straight(m, t) /\ m.frames = <<>>
            /\ operation \in {"taxCustomer", "voidDonation"} \/ Top(m) \notin PaymentScreens
            => Straight(n, t)
<1> DEFINE n == Send(m, operation)
<1>1. /\ n \in MainScreen /\ n.sent = {operation} /\ n.stack = m.stack /\ n.asked = m.asked
      /\ n.frames = m.frames /\ n.alert = "none" /\ n.requested = m.requested
      /\ n.replace = m.replace
  BY SendFields DEF Fit
<1> HIDE DEF n
<1>2. InOrder(n, t, a)
  <2>1. \A screen \in Range(n.stack) : Due(screen, n, t, a)
    BY <1>1, DueMonotonic DEF Fit, InOrder
  <2> QED
    BY <1>1, <2>1 DEF Fit, InOrder, BagsAsked
<1>3. Alone(n)
  BY <1>1 DEF Alone, Begins
<1>4. ASSUME Straight(m, t), m.frames = <<>>,
             operation \in {"taxCustomer", "voidDonation"} \/ Top(m) \notin PaymentScreens
      PROVE  Straight(n, t)
  <2>1. ~n.requested /\ Top(n) = Top(m)
    BY <1>1, <1>4 DEF Straight, Requested, Top
  <2>2. (\E screen \in PaymentScreens : screen \in Range(n.stack)) => Paying(n, t)
    BY <1>1, <1>4, <2>1 DEF Straight, Paying
  <2> QED
    BY <1>1, <1>4, <2>1, <2>2 DEF Straight
<1> QED
  BY <1>1, <1>2, <1>3, <1>4 DEF Fit, n

LEMMA PopFit ==
  ASSUME NEW m, NEW t, NEW a, Fit(m, t, a), Len(m.stack) > 1
  PROVE  LET n == Pop(m) IN
         /\ Fit(n, t, a) /\ n.sent = m.sent
         /\ m.sent = {} /\ m.alert = "none" /\ Free(m) => Straight(n, t)
<1> DEFINE s == Front(m.stack)
           n == Show(m, s)
<1>1. Stacked(s) /\ Range(s) \subseteq Range(m.stack) /\ Head(s) = Head(m.stack)
  BY Popped DEF Fit, InOrder
<1>2. /\ n \in MainScreen /\ n.stack = s /\ n.frames = m.frames /\ n.sent = m.sent
      /\ n.alert = m.alert /\ n.requested = m.requested
  BY <1>1, ShowFields DEF Fit, Stacked
<1>3. InOrder(n, t, a) /\ Alone(n)
  BY <1>1, OpenedOutside DEF Fit
<1>4. Pop(m) = n
  BY DEF Pop
<1> HIDE DEF s, n
<1>5. ASSUME m.sent = {}, m.alert = "none", Free(m) PROVE Straight(n, t)
  BY <1>1, <1>2, <1>5 DEF Free, Straight
<1> QED
  BY <1>2, <1>3, <1>4, <1>5 DEF Fit

LEMMA ReturnFit ==
  ASSUME NEW m, NEW t, NEW a, Fit(m, t, a)
  PROVE  LET n == PopToMain(m) IN
         /\ Fit(n, t, a) /\ n.sent = m.sent
         /\ /\ Straight(m, t) /\ ~m.requested /\ m.frames = <<>> /\ m.alert # "unsubscribe"
            => Straight(n, t)
<1> DEFINE n == PopToMain(m)
<1>1. /\ n \in MainScreen /\ InOrder(n, t, a) /\ Alone(n)
      /\ n.frames = m.frames /\ n.sent = m.sent /\ n.alert = m.alert
      /\ n.requested = m.requested
      /\ Head(m.stack) = "main" => n.stack = <<"main">>
  BY Returned DEF Fit
<1> HIDE DEF n
<1>2. ASSUME Straight(m, t), ~m.requested, m.frames = <<>>, m.alert # "unsubscribe"
      PROVE  Straight(n, t)
  <2>1. n.stack = <<"main">>
    BY <1>1, <1>2 DEF Straight
  <2>2. Head(n.stack) = "main" /\ Range(n.stack) = {"main"} /\ Top(n) = "main"
    BY <2>1, MainAlone, Zenon DEF Top
  <2> QED
    BY <1>1, <1>2, <2>2 DEF Straight, PaymentScreens
<1> QED
  BY <1>1, <1>2 DEF Fit, n

\* The payment is requested for a frame later.
LEMMA PaymentFit ==
  ASSUME NEW m, NEW t, NEW a, Fit(m, t, a)
  PROVE  LET n == MoveToPaymentScreen(m) IN
         /\ Fit(n, t, a) /\ n.sent = m.sent /\ n.asked = m.asked
         /\ /\ Head(m.stack) = "main" /\ m.frames = <<>> /\ ~m.requested /\ m.alert = "none"
            /\ m.sent \subseteq {"taxCustomer", "background"} /\ t.total # "none"
            /\ m.replace => Top(m) # "main"
            /\ (\E screen \in PaymentScreens : screen \in Range(m.stack)) =>
                 Top(m) \in PaymentScreens
            => Straight(n, t)
<1> DEFINE frame == IF m.replace THEN "replacePayment" ELSE "payment"
           n == RequestFrame(m, frame)
<1>1. frame \in PaymentFrames /\ frame \in Frames /\ (frame = "replacePayment" => m.replace)
  BY DEF PaymentFrames, Frames
<1>2. /\ n \in MainScreen /\ Range(n.frames) = Range(m.frames) \cup {frame}
      /\ m.frames = <<>> => n.frames = <<frame>>
      /\ n.stack = m.stack /\ n.asked = m.asked /\ n.sent = m.sent /\ n.alert = m.alert
      /\ n.requested = m.requested
  BY <1>1, FrameFields DEF Fit
<1>3. MoveToPaymentScreen(m) = n
  BY DEF MoveToPaymentScreen
<1> HIDE DEF frame, n
<1>4. Fit(n, t, a)
  <2>1. \A screen \in Range(n.stack) : Due(screen, n, t, a)
    BY <1>2, DueMonotonic DEF Fit, InOrder
  <2>2. "customer" \in Range(n.frames) => "customer" \in Range(m.frames)
    BY <1>2, <1>1 DEF PaymentFrames
  <2> QED
    BY <1>2, <2>1, <2>2 DEF Fit, InOrder, Alone, BagsAsked
<1>5. ASSUME Head(m.stack) = "main", m.frames = <<>>, ~m.requested, m.alert = "none",
             m.sent \subseteq {"taxCustomer", "background"}, t.total # "none",
             m.replace => Top(m) # "main",
             (\E screen \in PaymentScreens : screen \in Range(m.stack)) =>
               Top(m) \in PaymentScreens
      PROVE  Straight(n, t)
  <2>1. Top(n) = Top(m)
    BY <1>2 DEF Top
  <2>2. Framed(n, t, frame)
    BY <1>2, <1>1, <1>5, <2>1 DEF Framed
  <2>3. Range(n.frames) \subseteq PaymentFrames
    <3>1. Range(m.frames) = {}
      BY <1>5 DEF Range
    <3> QED
      BY <1>2, <1>1, <3>1
  <2>4. (\E screen \in PaymentScreens : screen \in Range(n.stack)) => Paying(n, t)
    BY <1>2, <1>5, <2>1, <2>3 DEF Paying
  <2> QED
    BY <1>1, <1>2, <1>5, <2>1, <2>2, <2>4 DEF Straight
<1> QED
  BY <1>2, <1>3, <1>4, <1>5

-----------------------------------------------------------------------------
(* The steps.                                                              *)

\* What a step leads to, but for the properties' own wording.
Kept ==
  /\ UNCHANGED cfg
  /\ trans' \in Transaction
  /\ business' \in [event : Operations, error : BOOLEAN, loyalty : BOOLEAN]
  /\ astray' \in SUBSET {"total", "unsubscription"}
  /\ Fit(main', trans', astray')
  /\ "total" \notin astray' => Straight(main', trans')
  /\ TotalSent => Allowed(main', trans', astray')

LEMMA KeptInductive ==
  ASSUME IInv, Kept
  PROVE  IInv'
<1>1. TypeOK'
  BY DEF IInv, Kept, TypeOK, Fit
<1>2. InOrder(main, trans, astray)'
  BY DEF Kept, Fit, InOrder, Due, BagsAsked, CustomerAsked, ContactAsked, Taken,
         ShouldPromptForCustomer, ShouldRequireCustomer
<1>3. Alone(main)'
  BY DEF Kept, Fit, Alone
<1>4. ("total" \notin astray => Straight(main, trans))'
  BY DEF Kept, Straight, Requested, Framed, Paying, Top
<1> QED
  BY <1>1, <1>2, <1>3, <1>4 DEF IInv

\* What a press finds.
LEMMA Pressable ==
  ASSUME IInv, main.sent = {}, main.frames = <<>>, main.alert = "none"
  PROVE  /\ Fit(main, trans, astray) /\ Calm(main) /\ trans \in Transaction
         /\ astray \in SUBSET {"total", "unsubscription"}
         /\ business \in [event : Operations, error : BOOLEAN, loyalty : BOOLEAN]
         /\ Range(main.frames) = {}
         /\ "total" \notin astray => ~main.requested /\ Straight(main, trans)
         /\ "total" \notin astray /\ Top(main) \notin PaymentScreens => Free(main)
<1>1. /\ Fit(main, trans, astray) /\ Calm(main) /\ trans \in Transaction
      /\ astray \in SUBSET {"total", "unsubscription"}
      /\ business \in [event : Operations, error : BOOLEAN, loyalty : BOOLEAN]
  BY DEF IInv, TypeOK, Fit, Calm
<1>2. "total" \notin astray => ~main.requested /\ Straight(main, trans)
  BY DEF IInv, Straight, Requested
<1>3. ASSUME "total" \notin astray, Top(main) \notin PaymentScreens PROVE Free(main)
  BY <1>2, <1>3 DEF Straight, Paying, Free
<1> QED
  BY <1>1, <1>2, <1>3 DEF Range

\* The screen on top is shown, and has been asked for; above main there is another.
LEMMA OnTop ==
  ASSUME NEW m, NEW t, NEW a, Fit(m, t, a)
  PROVE  /\ Top(m) \in Range(m.stack) /\ Due(Top(m), m, t, a)
         /\ Top(m) \notin Outside => Top(m) \in m.asked
         /\ Top(m) \notin Bottoms => Len(m.stack) > 1
         /\ Top(m) = "main" => Range(m.stack) = {"main"} /\ Head(m.stack) = "main"
         /\ Top(m) = "itemSubscription" =>
              Range(m.stack) \subseteq Outside \cup {"itemSubscription"}
<1>1. Stacked(m.stack)
  BY DEF Fit, InOrder
<1>2. Top(m) = "main" => m.stack = <<"main">>
  BY <1>1, StackFacts DEF Top
<1>3. Top(m) = "main" => Range(m.stack) = {"main"} /\ Head(m.stack) = "main"
  BY <1>2, MainAlone, Zenon
<1> QED
  BY <1>1, <1>3, StackFacts DEF Fit, InOrder, Top

\* A press whose screen is led along the chain.
LEMMA PressKept ==
  ASSUME IInv, NEW screen, NEW m, Pressed(screen, m), UNCHANGED astray,
         Leads(m, trans, astray), "total" \notin astray => Straight(m, trans)
  PROVE  Kept
BY Pressable DEF Pressed, Kept, Leads, TotalSent

LEMMA PressSends ==
  ASSUME IInv, NEW screen, NEW operation \in Operations \ (Begins \cup {"total", "unsubscribe"}),
         Pressed(screen, Send(main, operation)), UNCHANGED astray,
         operation = "bagFee" => BagsAsked(main),
         operation = "subscribe" => screen = "itemSubscription",
         operation = "voidDonation" \/ screen \notin PaymentScreens
  PROVE  Kept
<1>1. main.sent = {} /\ main.frames = <<>> /\ main.alert = "none" /\ Top(main) = screen
  BY DEF Pressed
<1>2. operation = "subscribe" =>
        /\ Range(main.stack) \subseteq Outside \cup {"itemSubscription"}
        /\ "customer" \notin Range(main.frames)
  BY <1>1, Pressable, OnTop
<1> DEFINE n == Send(main, operation)
<1>3. /\ Fit(n, trans, astray) /\ n.sent = {operation}
      /\ Straight(main, trans) => Straight(n, trans)
  BY <1>1, <1>2, Pressable, SendAlone
<1> HIDE DEF n
<1>4. Leads(n, trans, astray)
  BY <1>3 DEF Leads
<1> QED
  BY <1>1, <1>3, <1>4, Pressable, PressKept DEF n

LEMMA PressPops ==
  ASSUME IInv, NEW screen \in Screens \ (Bottoms \cup PaymentScreens),
         Pressed(screen, Pop(main)), UNCHANGED astray
  PROVE  Kept
<1>1. main.sent = {} /\ main.frames = <<>> /\ main.alert = "none" /\ Top(main) = screen
  BY DEF Pressed
<1>2. /\ Fit(Pop(main), trans, astray) /\ Pop(main).sent = {}
      /\ Free(main) => Straight(Pop(main), trans)
  BY <1>1, Pressable, OnTop, PopFit
<1> QED
  BY <1>1, <1>2, Pressable, PressKept DEF Leads

LEMMA PressReturns ==
  ASSUME IInv, NEW screen, Pressed(screen, PopToMain(main)), UNCHANGED astray
  PROVE  Kept
<1>1. main.sent = {} /\ main.frames = <<>> /\ main.alert = "none"
  BY DEF Pressed
<1> DEFINE n == PopToMain(main)
<1>2. /\ Fit(n, trans, astray) /\ n.sent = {}
      /\ Straight(main, trans) /\ ~main.requested => Straight(n, trans)
  BY <1>1, Pressable, ReturnFit
<1> HIDE DEF n
<1> QED
  BY <1>1, <1>2, Pressable, PressKept DEF Leads, n

-----------------------------------------------------------------------------
(* The presses.                                                            *)

LEMMA ItemKept ==
  ASSUME IInv, Item
  PROVE  Kept
<1>1. main.sent = {} /\ main.frames = <<>> /\ main.alert = "none" /\ Top(main) = "main"
  BY DEF Item, Pressed
<1>2. Begun(main)
  BY <1>1, Pressable, OnTop DEF Begun, Fit, InOrder, Outside
<1>3. Leads(Send(main, "item"), trans, astray)
      /\ (Free(main) => Straight(Send(main, "item"), trans))
  BY <1>2, SendBegun DEF Begins
<1> QED
  BY <1>1, <1>3, Pressable, PressKept DEF Item, PaymentScreens

LEMMA TotalKept ==
  ASSUME IInv, HandleOnTotalPressed
  PROVE  Kept
<1>1. main.sent = {} /\ main.frames = <<>> /\ main.alert = "none" /\ Top(main) = "main"
  BY DEF HandleOnTotalPressed, Pressed
<1>2. Begun(main)
  BY <1>1, Pressable, OnTop DEF Begun, Fit, InOrder, Outside
<1>3. ASSUME ~main.requested PROVE Free(main)
  BY <1>1, <1>3, Pressable, OnTop DEF Free, PaymentScreens
<1> DEFINE alerted == [main EXCEPT !.alert = "lottery"]
           validated == HandleOnTotalPressedAfterValidation(main, trans)
<1>4. Leads(validated, trans, astray') /\ (~main.requested => Straight(validated, trans))
  BY <1>2, <1>3, ValidatedLeads
<1>5. Leads(alerted, trans, astray') /\ (~main.requested => Straight(alerted, trans))
  <2>1. /\ alerted \in MainScreen /\ alerted.stack = main.stack
        /\ alerted.frames = <<>> /\ alerted.sent = {} /\ alerted.alert = "lottery"
        /\ alerted.requested = main.requested
    BY <1>1 DEF IInv, TypeOK, MainScreen
  <2> HIDE DEF alerted
  <2>2. InOrder(alerted, trans, astray')
    BY <1>1, <1>2, <2>1, OutsideDue DEF Begun
  <2>3. Alone(alerted)
    BY <1>1, <1>2, <2>1 DEF Begun, Alone, Begins
  <2>4. ~main.requested => Straight(alerted, trans)
    BY <1>3, <2>1 DEF Free, Straight
  <2> QED
    BY <2>1, <2>2, <2>3, <2>4 DEF Leads, Fit
<1>6. main' = alerted \/ main' = validated
  BY DEF HandleOnTotalPressed, Pressed
<1>7. UNCHANGED <<cfg, trans, business>> /\ astray' = {mark \in {"total"} : main.requested}
  BY DEF HandleOnTotalPressed, Pressed
<1> HIDE DEF alerted, validated
<1>8. Leads(main', trans, astray') /\ (~main.requested => Straight(main', trans))
  BY <1>4, <1>5, <1>6
<1>9. "total" \notin astray' => ~main.requested
  BY <1>7
<1> QED
  BY <1>1, <1>7, <1>8, <1>9, Pressable DEF Kept, Leads, TotalSent

LEMMA UnavailableQuantitiesKept ==
  ASSUME IInv, UnavailableQuantities
  PROVE  Kept
<1> DEFINE screen == "unavailableQuantities"
<1>1. CASE Pressed(screen, PopToMain(Send(main, "voidLines")))
  <2>1. main.sent = {} /\ main.frames = <<>> /\ main.alert = "none" /\ Top(main) = screen
    BY <1>1 DEF Pressed
  <2> DEFINE o == Send(main, "voidLines")
             n == PopToMain(o)
  <2>2. "voidLines" \in Operations \ (Begins \cup {"total", "unsubscribe"})
    BY DEF Operations, Begins
  <2>3. /\ Fit(o, trans, astray) /\ o.sent = {"voidLines"} /\ o.frames = <<>>
        /\ o.requested = main.requested /\ o.alert = "none"
        /\ Straight(main, trans) => Straight(o, trans)
    BY <2>1, <2>2, Pressable, SendAlone DEF PaymentScreens
  <2> HIDE DEF o
  <2>4. /\ Fit(n, trans, astray) /\ n.sent = {"voidLines"}
        /\ Straight(main, trans) /\ ~main.requested => Straight(n, trans)
    BY <2>3, ReturnFit
  <2> HIDE DEF n
  <2>5. Leads(n, trans, astray) /\ ("total" \notin astray => Straight(n, trans))
    BY <2>1, <2>4, Pressable DEF Leads
  <2> QED
    BY <1>1, <2>5, PressKept DEF n, o, UnavailableQuantities
<1>2. CASE Pressed(screen, Pop(main))
  <2>1. screen \in Screens \ (Bottoms \cup PaymentScreens)
    BY DEF Screens, Bottoms, PaymentScreens
  <2> QED
    BY <1>2, <2>1, PressPops DEF UnavailableQuantities
<1> QED
  BY <1>1, <1>2 DEF UnavailableQuantities

LEMMA ItemSubscriptionKept ==
  ASSUME IInv, ItemSubscription
  PROVE  Kept
<1>1. "subscribe" \in Operations \ (Begins \cup {"total", "unsubscribe"})
  BY DEF Operations, Begins
<1>2. "itemSubscription" \notin PaymentScreens
  BY DEF PaymentScreens
<1> QED
  BY <1>1, <1>2, PressSends, PressReturns DEF ItemSubscription

LEMMA BagFeeKept ==
  ASSUME IInv, BagFee
  PROVE  Kept
<1>1. main.sent = {} /\ main.frames = <<>> /\ main.alert = "none" /\ Top(main) = "bagFee"
  BY DEF BagFee, Pressed
<1>2. BagsAsked(main)
  BY <1>1, Pressable, OnTop DEF BagsAsked, Outside
<1>3. CASE Pressed("bagFee", Send(main, "bagFee"))
  <2>1. "bagFee" \in Operations \ (Begins \cup {"total", "unsubscribe"})
    BY DEF Operations, Begins
  <2>2. "bagFee" \notin PaymentScreens
    BY DEF PaymentScreens
  <2> QED
    BY <1>2, <1>3, <2>1, <2>2, PressSends DEF BagFee
<1>4. CASE Pressed("bagFee", MoveFromOrSkipBagFeeScreen(main, trans))
  <2> DEFINE n == MoveFromOrSkipBagFeeScreen(main, trans)
  <2>1. Leads(n, trans, astray) /\ (Free(main) => Straight(n, trans))
    BY <1>1, <1>2, Pressable, BagFeeLeads
  <2>2. "total" \notin astray => Free(main)
    BY <1>1, Pressable DEF PaymentScreens
  <2> HIDE DEF n
  <2> QED
    BY <1>4, <2>1, <2>2, PressKept DEF BagFee, n
<1>5. CASE Pressed("bagFee", Pop(main))
  <2>1. "bagFee" \in Screens \ (Bottoms \cup PaymentScreens)
    BY DEF Screens, Bottoms, PaymentScreens
  <2> QED
    BY <1>5, <2>1, PressPops DEF BagFee
<1> QED
  BY <1>3, <1>4, <1>5 DEF BagFee

LEMMA CustomerScreenKept ==
  ASSUME IInv, CustomerScreen
  PROVE  Kept
<1>1. CASE Pressed("customer", MoveFromCustomerScreen(main, trans))
  <2>1. main.sent = {} /\ main.frames = <<>> /\ main.alert = "none" /\ Top(main) = "customer"
    BY <1>1 DEF Pressed
  <2>2. BagsAsked(main) /\ "customer" \in main.asked
    BY <2>1, Pressable, OnTop DEF Due, Outside
  <2> DEFINE n == MoveFromCustomerScreen(main, trans)
  <2>3. /\ Leads(n, trans, astray)
        /\ Free(main) => Straight(n, trans)
    BY <2>1, <2>2, Pressable, CustomerLeads
  <2>4. "total" \notin astray => Free(main)
    BY <2>1, Pressable DEF PaymentScreens
  <2> HIDE DEF n
  <2> QED
    BY <1>1, <2>3, <2>4, PressKept DEF CustomerScreen, n
<1>2. CASE Pressed("customer", IF cfg.phone THEN Push(main, "customerDisplay")
                                            ELSE Send(main, "assign"))
  <2>1. CASE cfg.phone
    <3>1. /\ main.sent = {} /\ main.frames = <<>> /\ main.alert = "none"
          /\ Top(main) = "customer"
      BY <1>2 DEF Pressed
    <3>2. Due("customerDisplay", main, trans, astray)
      BY <3>1, Pressable, OnTop DEF Due, LateScreens, ContactScreens
    <3>3. "customerDisplay" \in Screens \ (PaymentScreens \cup {"main", "itemSubscription"})
      BY DEF Screens, PaymentScreens
    <3> DEFINE n == Push(main, "customerDisplay")
    <3>4. Leads(n, trans, astray) /\ (Free(main) => Straight(n, trans))
      BY <3>2, <3>3, <3>1, Pressable, PushLeads
    <3>5. "total" \notin astray => Free(main)
      BY <3>1, Pressable DEF PaymentScreens
    <3>6. Pressed("customer", n)
      BY <1>2, <2>1
    <3> HIDE DEF n
    <3> QED
      BY <3>4, <3>5, <3>6, PressKept DEF CustomerScreen
  <2>2. CASE ~cfg.phone
    <3>1. Pressed("customer", Send(main, "assign"))
      BY <1>2, <2>2
    <3> QED
      BY <3>1, PressSends DEF CustomerScreen, Operations, Begins, PaymentScreens
  <2> QED
    BY <2>1, <2>2
<1>3. CASE Pressed("customerDisplay", Send(main, "assign"))
  BY <1>3, PressSends DEF CustomerScreen, Operations, Begins, PaymentScreens
<1>4. CASE Pressed("customerDisplay", Pop(main))
  BY <1>4, PressPops DEF CustomerScreen, Screens, Bottoms, PaymentScreens
<1> QED
  BY <1>1, <1>2, <1>3, <1>4 DEF CustomerScreen

LEMMA ContactKept ==
  ASSUME IInv, Contact
  PROVE  Kept
<1>1. PICK screen \in ContactScreens :
        Pressed(screen, Send(main, "contact")) \/ Pressed(screen, PopToMain(main))
  BY DEF Contact, ContactScreens
<1>2. screen \notin PaymentScreens
  BY DEF ContactScreens, PaymentScreens
<1>3. "contact" \in Operations \ (Begins \cup {"total", "unsubscribe"})
  BY DEF Operations, Begins
<1> QED
  BY <1>1, <1>2, <1>3, PressSends, PressReturns DEF Contact

LEMMA ShippingKept ==
  ASSUME IInv, Shipping
  PROVE  Kept
<1>1. CASE Pressed("shippingMethod", Send(main, "shipping"))
  BY <1>1, PressSends DEF Shipping, Operations, Begins, PaymentScreens
<1>2. CASE Pressed("shippingMethod", Pop(main))
  BY <1>2, PressPops DEF Shipping, Screens, LateScreens, Bottoms, PaymentScreens
<1> QED
  BY <1>1, <1>2 DEF Shipping

LEMMA DonationKept ==
  ASSUME IInv, Donation
  PROVE  Kept
<1>1. CASE Pressed("donation", Send(main, "donation"))
  BY <1>1, PressSends DEF Donation, Operations, Begins, PaymentScreens
<1>2. CASE Pressed("donation",
                   HandleOnTotalTransactionRequested(main, trans, main.donation))
  <2>1. main.sent = {} /\ main.frames = <<>> /\ main.alert = "none" /\ Top(main) = "donation"
    BY <1>2 DEF Pressed
  <2>2. "donation" \in main.asked /\ Due("donation", main, trans, astray)
    BY <2>1, Pressable, OnTop DEF Outside
  <2>3. Allowed(main, trans, astray)
    BY <2>2 DEF Due, LateScreens, Allowed, DonationAsked
  <2>4. main.donation \in BOOLEAN
    BY DEF IInv, TypeOK, MainScreen
  <2> DEFINE n == HandleOnTotalTransactionRequested(main, trans, main.donation)
  <2>5. Leads(n, trans, astray) /\ (Free(main) => Straight(n, trans))
    BY <2>1, <2>3, <2>4, Pressable, TotalLeads
  <2>6. "total" \notin astray => Free(main)
    BY <2>1, Pressable DEF PaymentScreens
  <2> HIDE DEF n
  <2> QED
    BY <1>2, <2>5, <2>6, PressKept DEF Donation, n
<1>3. CASE Pressed("donation", PopToMain(main))
  BY <1>3, PressReturns DEF Donation
<1> QED
  BY <1>1, <1>2, <1>3 DEF Donation

LEMMA CustomerNipKept ==
  ASSUME IInv, CustomerNip
  PROVE  Kept
<1> SUFFICES ASSUME Pressed("customerNip", MoveToPaymentScreen(Send(main, "taxCustomer")))
                    \/ Pressed("customerNip", MoveToPaymentScreen(main))
             PROVE  Kept
  BY PressReturns DEF CustomerNip
<1>1. main.sent = {} /\ main.frames = <<>> /\ main.alert = "none" /\ Top(main) = "customerNip"
  BY DEF Pressed
<1>2. "total" \notin astray => /\ ~main.requested /\ Head(main.stack) = "main"
                               /\ trans.total # "none"
  <2>1. "customerNip" \in Range(main.stack)
    BY <1>1, Pressable, OnTop
  <2> QED
    BY <1>1, <2>1, Pressable DEF Straight, PaymentScreens, Paying
<1> DEFINE o == Send(main, "taxCustomer")
<1>3. /\ Fit(o, trans, astray) /\ o.sent = {"taxCustomer"} /\ o.frames = <<>>
      /\ o.requested = main.requested /\ o.alert = "none" /\ o.stack = main.stack
  BY <1>1, Pressable, SendAlone DEF Operations, Begins
<1> HIDE DEF o
<1>4. ASSUME NEW m, m = main \/ m = o
      PROVE  /\ Leads(MoveToPaymentScreen(m), trans, astray)
             /\ "total" \notin astray => Straight(MoveToPaymentScreen(m), trans)
  <2>1. /\ Fit(m, trans, astray) /\ m.sent \subseteq {"taxCustomer"} /\ m.frames = <<>>
        /\ m.requested = main.requested /\ m.alert = "none" /\ m.stack = main.stack
    BY <1>1, <1>3, <1>4, Pressable
  <2>2. Top(m) = "customerNip"
    BY <1>1, <2>1 DEF Top
  <2> DEFINE n == MoveToPaymentScreen(m)
  <2>3. /\ Fit(n, trans, astray) /\ n.sent = m.sent
        /\ /\ Head(m.stack) = "main" /\ m.frames = <<>> /\ ~m.requested /\ m.alert = "none"
           /\ m.sent \subseteq {"taxCustomer", "background"} /\ trans.total # "none"
           /\ m.replace => Top(m) # "main"
           /\ (\E screen \in PaymentScreens : screen \in Range(m.stack)) =>
                Top(m) \in PaymentScreens
           => Straight(n, trans)
    BY <2>1, PaymentFit
  <2> HIDE DEF n
  <2>4. Leads(n, trans, astray)
    BY <2>1, <2>3 DEF Leads
  <2>5. "total" \notin astray => Straight(n, trans)
    BY <1>2, <2>1, <2>2, <2>3 DEF PaymentScreens
  <2> QED
    BY <2>4, <2>5 DEF n
<1> QED
  BY <1>4, PressKept DEF CustomerNip, o

LEMMA EditKept ==
  ASSUME IInv, OnEditTransaction
  PROVE  Kept
<1>1. CASE trans.donated
  <2>1. Pressed("payment", Send(main, "voidDonation"))
    BY <1>1 DEF OnEditTransaction
  <2> QED
    BY <2>1, PressSends DEF OnEditTransaction, Operations, Begins
<1>2. CASE ~trans.donated
  BY <1>2, PressReturns DEF OnEditTransaction
<1> QED
  BY <1>1, <1>2

LEMMA BackgroundKept ==
  ASSUME IInv, Background
  PROVE  Kept
<1> DEFINE n == Send(main, "background")
<1>1. /\ n \in MainScreen /\ n.sent = main.sent \cup {"background"} /\ n.stack = main.stack
      /\ n.asked = main.asked /\ n.frames = main.frames /\ n.alert = main.alert
      /\ n.requested = main.requested /\ n.replace = main.replace
  BY SendFields DEF IInv, TypeOK, Operations
<1>2. main' = n /\ UNCHANGED <<cfg, trans, business, astray>>
  BY DEF Background
<1> HIDE DEF n
<1>3. InOrder(n, trans, astray)
  <2>1. \A screen \in Range(n.stack) : Due(screen, n, trans, astray)
    BY <1>1, DueMonotonic DEF IInv, InOrder
  <2> QED
    BY <1>1, <2>1 DEF IInv, InOrder, BagsAsked
<1>4. Alone(n)
  BY <1>1 DEF IInv, Alone, Begins
<1>5. Straight(main, trans) => Straight(n, trans)
  <2>1. Top(n) = Top(main)
    BY <1>1 DEF Top
  <2>2. Requested(main, trans) => Requested(n, trans)
    BY <1>1, <2>1 DEF Requested
  <2>3. \A frame : Framed(main, trans, frame) => Framed(n, trans, frame)
    BY <1>1, <2>1 DEF Framed
  <2>4. Paying(main, trans) => Paying(n, trans)
    BY <1>1, <2>1 DEF Paying
  <2> QED
    BY <1>1, <2>1, <2>2, <2>3, <2>4 DEF Straight
<1> QED
  BY <1>1, <1>2, <1>3, <1>4, <1>5 DEF Kept, Fit, IInv, TypeOK, TotalSent

LEMMA AlertKept ==
  ASSUME IInv, NEW yes \in BOOLEAN, AnswerAlert(yes)
  PROVE  Kept
<1> DEFINE m == [main EXCEPT !.alert = "none"]
<1>1. /\ m \in MainScreen /\ m.sent = main.sent /\ m.stack = main.stack /\ m.asked = main.asked
      /\ m.frames = main.frames /\ m.alert = "none" /\ m.requested = main.requested
      /\ m.replace = main.replace
  BY DEF IInv, TypeOK, MainScreen
<1>2. main.alert # "none" /\ UNCHANGED <<cfg, trans, business, astray>>
  BY DEF AnswerAlert
<1>a. ~yes => main' = m
  BY DEF AnswerAlert
<1>b. yes /\ main.alert = "lottery" => main' = [Send(m, "lottery") EXCEPT !.voiding = TRUE]
  BY DEF AnswerAlert
<1>c. yes /\ main.alert # "lottery" =>
        main' = HandleDonationScreen(Send(m, "unsubscribe"), trans, TRUE)
  BY DEF AnswerAlert
<1> HIDE DEF m
<1>3. Fit(m, trans, astray)
  <2>1. \A screen \in Range(m.stack) : Due(screen, m, trans, astray)
    BY <1>1, DueMonotonic DEF IInv, InOrder
  <2> QED
    BY <1>1, <2>1 DEF IInv, InOrder, Alone, BagsAsked, Fit
<1>4. m.sent \subseteq {"background"} /\ Calm(m)
  BY <1>1, <1>2 DEF IInv, Alone, Calm
<1>5. "total" \notin astray => Free(m)
  BY <1>1, <1>2, <1>4 DEF IInv, Straight, Paying, Free
<1>6. ASSUME Leads(main', trans, astray), "total" \notin astray => Straight(main', trans)
      PROVE  Kept
  BY <1>2, <1>6 DEF Kept, Leads, TotalSent, IInv, TypeOK
<1>7. CASE ~yes
  BY <1>3, <1>4, <1>5, <1>6, <1>7, <1>a, CalmLeads, FreeStraight
<1>8. CASE yes /\ main.alert = "lottery"
  <2> DEFINE o == Send(m, "lottery")
             n == [o EXCEPT !.voiding = TRUE]
  <2>1. Begun(m)
    BY <1>1, <1>3, <1>4, <1>8 DEF Begun, Fit, InOrder, IInv, Alone
  <2>2. Leads(o, trans, astray) /\ (Free(m) => Straight(o, trans)) /\ o \in MainScreen
    BY <2>1, SendBegun DEF Begins, Leads, Fit
  <2>3. main' = n
    BY <1>8, <1>b
  <2> HIDE DEF o
  <2>4. Leads(n, trans, astray) /\ (Straight(o, trans) => Straight(n, trans))
    <3>1. n = [o EXCEPT !.voiding = TRUE, !.authorizing = o.authorizing, !.donation = o.donation]
      BY <2>2 DEF MainScreen
    <3>2. o.authorizing \in BOOLEAN /\ o.donation \in BOOLEAN
      BY <2>2 DEF MainScreen
    <3> QED
      BY <2>2, <3>1, <3>2, Insignificant
  <2> HIDE DEF n
  <2> QED
    BY <1>5, <1>6, <2>2, <2>3, <2>4
<1>9. CASE yes /\ main.alert # "lottery"
  <2> DEFINE o == Send(m, "unsubscribe")
  <2>1. /\ o \in MainScreen /\ o.stack = m.stack /\ o.asked = m.asked /\ o.frames = m.frames
        /\ o.sent = m.sent \cup {"unsubscribe"} /\ o.alert = "none" /\ o.requested = m.requested
    BY <1>1, SendFields DEF Operations
  <2>2. main' = HandleDonationScreen(o, trans, TRUE)
    BY <1>9, <1>c
  <2> HIDE DEF o
  <2>3. main.alert = "unsubscribe"
    BY <1>2, <1>9 DEF IInv, TypeOK, MainScreen
  <2>4. Fit(o, trans, astray) /\ Calm(o)
    <3>1. \A screen \in Range(o.stack) : Due(screen, o, trans, astray)
      BY <1>3, <2>1, DueMonotonic DEF Fit, InOrder
    <3> QED
      BY <1>3, <1>4, <2>1, <3>1 DEF Fit, InOrder, Alone, Begins, BagsAsked, Calm
  <2>5. BagsAsked(o) /\ CustomerAsked(o, trans, astray) /\ ContactAsked(o, trans, astray)
    BY <1>1, <2>1, <2>3
       DEF IInv, InOrder, BagsAsked, CustomerAsked, ContactAsked, Taken
  <2>6. "total" \notin astray => Free(o) /\ Top(o) # "main"
    BY <1>1, <1>2, <1>5, <2>1, <2>3 DEF Free, IInv, Straight, Top
  <2> QED
    BY <1>6, <2>2, <2>4, <2>5, <2>6, DonationLeads
<1> QED
  BY <1>7, <1>8, <1>9

LEMMA FrameKept ==
  ASSUME IInv, Frame
  PROVE  Kept
<1> DEFINE m == [main EXCEPT !.frames = Tail(@)]
           frame == Head(main.frames)
<1>1. /\ frame \in Frames /\ frame \in Range(main.frames)
      /\ Range(Tail(main.frames)) \subseteq Range(main.frames) /\ Tail(main.frames) \in Seq(Frames)
  <2>1. main.frames \in Seq(Frames) /\ main.frames # <<>>
    BY DEF IInv, TypeOK, MainScreen, Frame
  <2> QED
    BY <2>1, TailRange
<1>2. /\ m \in MainScreen /\ m.sent = main.sent /\ m.stack = main.stack /\ m.asked = main.asked
      /\ m.frames = Tail(main.frames) /\ m.alert = main.alert /\ m.requested = main.requested
  BY <1>1 DEF IInv, TypeOK, MainScreen
<1>3. UNCHANGED <<cfg, trans, business, astray>> /\ main.frames # <<>>
  BY DEF Frame
<1>4. main' = CASE frame = "customer" -> MoveToCustomerScreen(m)
                [] frame = "replacePayment" -> Replace(m, "payment")
                [] OTHER -> Push(m, frame)
  BY DEF Frame
<1>5. "total" \notin astray =>
        /\ m.frames = <<>> /\ Framed(main, trans, frame) /\ Straight(main, trans)
  <2> SUFFICES ASSUME "total" \notin astray
               PROVE  m.frames = <<>> /\ Framed(main, trans, frame) /\ Straight(main, trans)
    OBVIOUS
  <2>1. Straight(main, trans)
    BY DEF IInv
  <2>2. PICK f : main.frames = <<f>> /\ Framed(main, trans, f)
    BY <1>3, <2>1 DEF Straight
  <2>3. Head(main.frames) = f /\ Tail(main.frames) = <<>>
    BY <2>2
  <2> QED
    BY <1>2, <2>1, <2>2, <2>3
<1> HIDE DEF m, frame
<1>6. Fit(m, trans, astray)
  <2>1. \A screen \in Range(m.stack) : Due(screen, m, trans, astray)
    BY <1>2, DueMonotonic DEF IInv, InOrder
  <2> QED
    BY <1>1, <1>2, <2>1 DEF IInv, InOrder, Alone, BagsAsked, Fit
<1>7. ASSUME NEW s, Stacked(s), NEW screen \in {"customer", "payment", "receiptSummary"},
             main' = Show(m, s), Last(s) = screen,
             Range(s) \subseteq Range(m.stack) \cup {screen},
             Head(m.stack) = "main" /\ (Top(m) # "main" \/ frame # "replacePayment")
               => Head(s) = "main",
             screen = "customer" => frame = "customer",
             screen = "payment" => frame \in PaymentFrames,
             screen = "receiptSummary" => frame = "receiptSummary"
      PROVE  Kept
  <2> DEFINE n == Show(m, s)
  <2>1. /\ n \in MainScreen /\ n.stack = s /\ n.asked = m.asked \cup Range(s)
        /\ n.frames = m.frames /\ n.sent = m.sent /\ n.alert = m.alert
        /\ n.requested = m.requested
    BY <1>2, <1>7, ShowFields DEF Stacked
  <2>2. InOrder(n, trans, astray) /\ Alone(n)
    <3>1. CASE screen \in Outside
      <4>1. Range(s) \subseteq Range(m.stack) \cup Outside
        BY <1>7, <3>1
      <4> QED
        BY <1>2, <1>6, <1>7, <4>1, OpenedOutside DEF Fit
    <3>2. CASE screen = "customer"
      <4>1. "customer" \in Range(main.frames)
        BY <1>1, <1>7, <3>2
      <4>2. /\ BagsAsked(m) /\ m.alert # "lottery"
            /\ \A operation \in Begins \cup {"subscribe"} : operation \notin m.sent
        BY <1>2, <4>1 DEF IInv, InOrder, Alone, BagsAsked
      <4>3. Due(screen, m, trans, astray)
        BY <3>2, <4>2 DEF Due, LateScreens, ContactScreens
      <4>4. Range(s) \subseteq Range(m.stack) \cup Outside \cup {screen}
        BY <1>7
      <4> QED
        BY <1>2, <1>6, <1>7, <4>2, <4>3, <4>4, Opened DEF Fit
    <3> QED
      BY <3>1, <3>2 DEF Outside
  <2> HIDE DEF n
  <2>3. ASSUME "total" \notin astray PROVE Straight(n, trans)
    <3>1. /\ n.frames = <<>> /\ n.sent \subseteq {"taxCustomer", "background"}
          /\ n.alert = "none" /\ ~n.requested
      BY <1>2, <1>5, <2>1, <2>3 DEF Framed
    <3>2. Head(n.stack) = "main" /\ Top(n) = screen
      BY <1>2, <1>5, <1>7, <2>1, <2>3 DEF Framed, Straight, Top
    <3>3. ASSUME NEW other \in PaymentScreens, other \in Range(n.stack)
          PROVE  Paying(n, trans)
      <4>1. Range(n.frames) \subseteq PaymentFrames
        BY <3>1 DEF Range
      <4>2. CASE screen = "payment"
        BY <1>5, <1>7, <2>1, <2>3, <3>1, <3>2, <4>1, <4>2 DEF Paying, Framed, PaymentScreens
      <4>3. CASE screen # "payment"
        <5>1. other \in Range(main.stack)
          BY <1>2, <1>7, <2>1, <3>3, <4>3 DEF PaymentScreens
        <5>2. frame \in PaymentFrames
          BY <1>1, <1>5, <2>3, <5>1 DEF Straight, Paying
        <5> QED
          BY <1>7, <4>3, <5>2 DEF PaymentFrames
      <4> QED
        BY <4>2, <4>3
    <3> QED
      BY <3>1, <3>2, <3>3 DEF Straight
  <2> QED
    BY <1>2, <1>3, <1>7, <2>1, <2>2, <2>3 DEF Kept, Fit, TotalSent, IInv, TypeOK, n
<1>8. Stacked(m.stack) /\ m \in MainScreen
  BY <1>6 DEF Fit, InOrder
<1>9. CASE frame = "customer"
  <2>1. main' = MoveToCustomerScreen(m)
    BY <1>4, <1>9
  <2>2. CASE Mounted(m, "customer")
    <3>1. main' = m
      BY <2>1, <2>2 DEF MoveToCustomerScreen
    <3>2. "total" \notin astray => Straight(m, trans)
      <4> SUFFICES ASSUME "total" \notin astray PROVE Straight(m, trans)
        OBVIOUS
      <4>1. \A other \in PaymentScreens : other \notin Range(m.stack)
        BY <1>1, <1>2, <1>5, <1>9 DEF Straight, Paying, PaymentFrames
      <4> QED
        BY <1>2, <1>5, <4>1 DEF Straight, Framed
    <3> QED
      BY <1>2, <1>3, <1>6, <3>1, <3>2 DEF Kept, TotalSent, IInv, TypeOK
  <2>3. CASE ~Mounted(m, "customer")
    <3>1. main' = Follow(m, "customer")
      BY <2>1, <2>3 DEF MoveToCustomerScreen
    <3>2. PICK s : /\ Follow(m, "customer") = Show(m, s) /\ Stacked(s) /\ Last(s) = "customer"
                   /\ Range(s) \subseteq Range(m.stack) \cup {"customer"}
                   /\ Head(m.stack) = "main" => Head(s) = "main"
      BY <1>8, Followed DEF Bottoms
    <3> QED
      BY <1>7, <1>9, <3>1, <3>2
  <2> QED
    BY <2>2, <2>3
<1>10. CASE frame = "replacePayment"
  <2> DEFINE s == Append(Front(m.stack), "payment")
  <2>1. main' = Show(m, s)
    BY <1>4, <1>10 DEF Replace
  <2>2. /\ Stacked(s) /\ Last(s) = "payment" /\ Range(s) \subseteq Range(m.stack) \cup {"payment"}
        /\ Len(m.stack) > 1 => Head(s) = Head(m.stack)
    BY <1>8, Replaced DEF Bottoms, Screens, Outside
  <2>3. Head(m.stack) = "main" /\ Top(m) # "main" => Len(m.stack) > 1
    BY <1>8, StackFacts DEF Top
  <2> HIDE DEF s
  <2> QED
    BY <1>7, <1>10, <2>1, <2>2, <2>3 DEF PaymentFrames
<1>11. CASE frame \in {"payment", "receiptSummary"}
  <2> DEFINE s == Append(m.stack, frame)
  <2>1. main' = Show(m, s)
    BY <1>4, <1>11 DEF Push
  <2>2. /\ Stacked(s) /\ Last(s) = frame /\ Range(s) = Range(m.stack) \cup {frame}
        /\ Head(s) = Head(m.stack)
    BY <1>8, <1>11, Pushed DEF Screens, Outside
  <2> HIDE DEF s
  <2> QED
    BY <1>7, <1>11, <2>1, <2>2 DEF PaymentFrames
<1> QED
  BY <1>1, <1>9, <1>10, <1>11 DEF Frames

-----------------------------------------------------------------------------
(* The answers.                                                            *)

LEMMA OutcomeFacts ==
  ASSUME NEW t \in Transaction, NEW operation \in Operations, NEW u \in Outcomes(operation, t)
  PROVE  /\ u \in Transaction /\ (t.customer => u.customer)
         /\ operation \notin {"item", "subscribe"} => u.basket.order \in {t.basket.order, "none"}
         /\ operation = "unsubscribe" => u.basket.order = "none"
         /\ operation \notin {"item", "lottery"} => u.basket.lottery = t.basket.lottery
         /\ operation \notin {"item", "subscribe", "voidLines", "total"} => u.total = t.total
         /\ operation = "total" => u.total # "none"
<1>1. CASE operation = "item"
  <2>1. PICK basket \in Baskets :
          u = [t EXCEPT !.open = TRUE, !.basket = basket, !.total = "none", !.partial = FALSE]
    BY <1>1 DEF Outcomes
  <2> QED
    BY <1>1, <2>1, TotallingAssumption DEF Transaction
<1>2. CASE operation = "lottery"
  <2>1. u = [t EXCEPT !.basket.lottery = FALSE]
    BY <1>2 DEF Outcomes
  <2> QED
    BY <1>2, <2>1 DEF Transaction, Basket
<1>3. CASE operation = "returnTotal"
  <2>1. u = [t EXCEPT !.basket.override = FALSE]
    BY <1>3 DEF Outcomes
  <2> QED
    BY <1>3, <2>1 DEF Transaction, Basket
<1>4. CASE operation = "reserve"
  <2>1. PICK partial \in BOOLEAN : u = [t EXCEPT !.partial = partial]
    BY <1>4 DEF Outcomes
  <2> QED
    BY <1>4, <2>1 DEF Transaction
<1>5. CASE operation = "subscribe"
  <2>1. PICK order \in {t.basket.order, "subscription"} :
          u = [t EXCEPT !.basket.order = order, !.total = "none"]
    BY <1>5 DEF Outcomes
  <2>2. order \in Orders
    BY DEF Transaction, Basket, Orders
  <2> QED
    BY <1>5, <2>1, <2>2 DEF Transaction, Basket
<1>6. CASE operation = "unsubscribe"
  <2>1. u = [t EXCEPT !.basket.order = "none"]
    BY <1>6 DEF Outcomes
  <2> QED
    BY <1>6, <2>1 DEF Transaction, Basket, Orders
<1>7. CASE operation = "assign"
  BY <1>7 DEF Outcomes, Transaction
<1>8. CASE operation = "donation"
  BY <1>8 DEF Outcomes, Transaction
<1>9. CASE operation = "voidDonation"
  BY <1>9 DEF Outcomes, Transaction
<1>10. CASE operation = "voidLines"
  BY <1>10 DEF Outcomes, Transaction
<1>11. CASE operation = "taxCustomer"
  BY <1>11 DEF Outcomes, Transaction
<1>12. CASE operation = "total"
  BY <1>12 DEF Outcomes, Transaction
<1>13. CASE operation \in {"bagFee", "contact", "shipping", "background"}
  BY <1>13 DEF Outcomes
<1> QED
  BY <1>1, <1>2, <1>3, <1>4, <1>5, <1>6, <1>7, <1>8, <1>9, <1>10, <1>11, <1>12, <1>13
     DEF Operations

\* What an answer takes away.
Without(operation) == [main EXCEPT !.sent = @ \ {operation}]

LEMMA WithoutFields ==
  ASSUME IInv, NEW operation
  PROVE  LET m == Without(operation) IN
         /\ m \in MainScreen /\ m.sent = main.sent \ {operation} /\ m.stack = main.stack
         /\ m.asked = main.asked /\ m.frames = main.frames /\ m.alert = main.alert
         /\ m.requested = main.requested /\ m.replace = main.replace
         /\ m.voiding = main.voiding /\ m.authorizing = main.authorizing
         /\ m.donation = main.donation
BY DEF IInv, TypeOK, MainScreen, Without

LEMMA AnsweredFit ==
  ASSUME IInv, NEW operation \in main.sent, NEW error \in BOOLEAN,
         NEW t \in IF error THEN {trans} ELSE Outcomes(operation, trans),
         NEW a, astray \subseteq a, operation = "unsubscribe" /\ error => "unsubscription" \in a
  PROVE  t \in Transaction /\ Fit(Without(operation), t, a)
<1> DEFINE m == Without(operation)
<1>1. /\ m \in MainScreen /\ m.sent = main.sent \ {operation} /\ m.stack = main.stack
      /\ m.asked = main.asked /\ m.frames = main.frames /\ m.alert = main.alert
  BY WithoutFields
<1>2. operation \in Operations /\ trans \in Transaction /\ Alone(main)
      /\ InOrder(main, trans, astray)
  BY DEF IInv, TypeOK, MainScreen
<1>3. /\ t \in Transaction /\ (trans.customer => t.customer)
      /\ operation \notin {"item", "subscribe"} => t.basket.order \in {trans.basket.order, "none"}
      /\ operation = "unsubscribe" /\ ~error => t.basket.order = "none"
  BY <1>2, OutcomeFacts
<1> HIDE DEF m
<1>4. ASSUME NEW screen \in Range(m.stack) PROVE Due(screen, m, t, a)
  <2>1. CASE operation \in {"item", "subscribe"}
    BY <1>1, <1>2, <2>1 DEF Alone, Begins, Due, Outside, LateScreens, ContactScreens
  <2>2. CASE operation \notin {"item", "subscribe"}
    <3>1. Due(screen, main, trans, astray)
      BY <1>1, <1>2 DEF InOrder
    <3>2. Taken(main, astray) => Taken(m, a) \/ t.basket.order = "none"
      BY <1>1, <1>3 DEF Taken
    <3>3. /\ ShouldPromptForCustomer(t) => ShouldPromptForCustomer(trans)
          /\ ShouldRequireCustomer(t) => ShouldRequireCustomer(trans) /\ t.basket.order # "none"
      BY <1>3, <2>2 DEF ShouldPromptForCustomer, ShouldRequireCustomer
    <3>4. t.basket.order # "none" => trans.basket.order # "none"
      BY <1>3, <2>2
    <3>5. BagsAsked(main) => BagsAsked(m)
      BY <1>1 DEF BagsAsked
    <3>6. CustomerAsked(main, trans, astray) => CustomerAsked(m, t, a)
      BY <1>1, <3>2, <3>3 DEF CustomerAsked
    <3>7. ContactAsked(main, trans, astray) => ContactAsked(m, t, a)
      BY <1>1, <3>2, <3>4 DEF ContactAsked
    <3> QED
      BY <3>1, <3>5, <3>6, <3>7 DEF Due
  <2> QED
    BY <2>1, <2>2
<1>5. InOrder(m, t, a)
  BY <1>1, <1>2, <1>4 DEF InOrder, BagsAsked
<1>6. Alone(m)
  BY <1>1, <1>2 DEF Alone, Begins
<1> QED
  BY <1>1, <1>3, <1>5, <1>6 DEF Fit, m

LEMMA AnsweredStraight ==
  ASSUME IInv, NEW operation \in main.sent, NEW error \in BOOLEAN,
         NEW t \in IF error THEN {trans} ELSE Outcomes(operation, trans),
         "total" \notin astray, operation = "total" => ~error,
         main.requested => main.sent # {operation}
  PROVE  Straight(Without(operation), t)
<1> DEFINE m == Without(operation)
<1>1. /\ m.sent = main.sent \ {operation} /\ m.stack = main.stack
      /\ m.frames = main.frames /\ m.alert = main.alert /\ m.requested = main.requested
      /\ m.replace = main.replace
  BY WithoutFields
<1>2. operation \in Operations /\ trans \in Transaction /\ Straight(main, trans)
  BY DEF IInv, TypeOK, MainScreen
<1>3. /\ operation \notin {"item", "subscribe", "voidLines", "total"} => t.total = trans.total
      /\ operation = "total" => t.total # "none"
  BY <1>2, OutcomeFacts
<1> HIDE DEF m
<1>4. Top(m) = Top(main)
  BY <1>1 DEF Top
<1>5. main.requested => Requested(m, t)
  BY <1>1, <1>2, <1>3, <1>4 DEF Straight, Requested
<1>6. ASSUME NEW frame, Framed(main, trans, frame) PROVE Framed(m, t, frame)
  BY <1>1, <1>3, <1>4, <1>6 DEF Framed
<1>7. Paying(main, trans) => Paying(m, t)
  BY <1>1, <1>3, <1>4 DEF Paying
<1> QED
  BY <1>1, <1>2, <1>4, <1>5, <1>6, <1>7 DEF Straight, m

\* Where an answer is looked at, nothing of a payment is under way, but for those
\* of the payment itself.
LEMMA AnsweredFree ==
  ASSUME IInv, NEW operation \in main.sent, "total" \notin astray, ~main.requested,
         \/ operation \in Begins
         \/ main.sent = {operation}
              /\ operation \notin {"taxCustomer", "voidDonation", "background"}
  PROVE  Free(Without(operation))
<1> DEFINE m == Without(operation)
<1>1. /\ m.sent = main.sent \ {operation} /\ m.stack = main.stack
      /\ m.frames = main.frames /\ m.requested = main.requested
  BY WithoutFields
<1>2. Straight(main, trans) /\ Alone(main)
  BY DEF IInv
<1>3. m.sent \subseteq {"background"}
  BY <1>1, <1>2 DEF Alone
<1>4. operation \notin {"taxCustomer", "voidDonation", "background"}
  BY DEF Begins
<1> HIDE DEF m
<1> QED
  BY <1>1, <1>2, <1>3, <1>4 DEF Straight, Framed, Paying, Free, m

\* Total goes on by itself when the lottery code is gone.
LEMMA VoidedLeads ==
  ASSUME NEW m, NEW before, NEW t, NEW a, Begun(m), InOrder(m, t, a), Alone(m)
  PROVE  LET n == LotteryVoided(m, before, t) IN
         Leads(n, t, a) /\ (Free(m) => Straight(n, t))
<1> DEFINE o == [m EXCEPT !.voiding = FALSE]
<1>1. Calm(m) /\ Fit(m, t, a)
  BY DEF Begun, Calm, Fit
<1>2. CASE LotteryVoided(m, before, t) = m
  BY <1>1, <1>2, CalmLeads, FreeStraight
<1>3. CASE LotteryVoided(m, before, t) = HandleOnTotalPressedAfterValidation(o, t)
  <2>1. o = [m EXCEPT !.voiding = FALSE, !.authorizing = m.authorizing, !.donation = m.donation]
        /\ m.authorizing \in BOOLEAN /\ m.donation \in BOOLEAN
    BY DEF Begun, MainScreen
  <2>2. Begun(o) /\ (Free(m) => Free(o))
    <3>1. m \in MainScreen /\ FALSE \in BOOLEAN
      BY DEF Begun
    <3>2. m.authorizing \in BOOLEAN /\ m.donation \in BOOLEAN
      BY <2>1
    <3>3. o = [m EXCEPT !.voiding = FALSE, !.authorizing = m.authorizing, !.donation = m.donation]
      BY <2>1
    <3> QED
      BY <3>1, <3>2, <3>3, Insignificant
  <2> QED
    BY <1>3, <2>2, ValidatedLeads
<1> QED
  BY <1>2, <1>3 DEF LotteryVoided

LEMMA FinishKept ==
  ASSUME IInv, FinishTransaction
  PROVE  Kept
<1>1. /\ main.sent = {} /\ main.frames = <<>> /\ main.alert = "none"
      /\ Head(main.stack) = "main"
      /\ trans' = NewTransaction /\ UNCHANGED <<cfg, business, astray>>
      /\ main' = LotteryVoided(PopToMain(main), trans, NewTransaction)
  BY DEF FinishTransaction
<1> DEFINE m == PopToMain(main)
<1>2. /\ m \in MainScreen /\ InOrder(m, trans, astray) /\ Alone(m)
      /\ m.frames = <<>> /\ m.sent = {} /\ m.alert = "none" /\ m.requested = main.requested
      /\ m.stack = <<"main">>
  BY <1>1, Pressable, Returned DEF Fit
<1> HIDE DEF m
<1>3. Head(m.stack) = "main" /\ Range(m.stack) = {"main"} /\ Stacked(m.stack)
  BY <1>2, MainAlone, Zenon
<1>4. Begun(m)
  BY <1>2, <1>3 DEF Begun, Outside, Range
<1>5. InOrder(m, NewTransaction, astray)
  BY <1>2, <1>4, OutsideDue DEF Begun
<1>6. "total" \notin astray => Free(m)
  BY <1>1, <1>2, <1>3, Pressable DEF Free, PaymentScreens
<1>7. NewTransaction \in Transaction
  BY DEF NewTransaction, Transaction, Basket, Orders
<1>8. Leads(main', trans', astray') /\ ("total" \notin astray' => Straight(main', trans'))
  BY <1>1, <1>2, <1>4, <1>5, <1>6, VoidedLeads DEF m
<1> QED
  BY <1>1, <1>7, <1>8, Pressable DEF Kept, Leads, TotalSent

LEMMA AllowedMonotonic ==
  ASSUME NEW m, NEW n, NEW t, NEW a, Allowed(m, t, a), m.asked \subseteq n.asked,
         n.sent = m.sent
  PROVE  Allowed(n, t, a)
BY DEF Allowed, BagsAsked, CustomerAsked, ContactAsked, DonationAsked, Taken

\* The flags of the total change nothing that is asked for.
LEMMA FlagsLeads ==
  ASSUME NEW m, NEW t, NEW a, NEW b, Leads(m, t, a)
  PROVE  LET n == TotalFlags(m, t, b) IN
         /\ Leads(n, t, a)
         /\ ~b.loyalty =>
              /\ n.stack = m.stack /\ n.frames = m.frames /\ n.sent = m.sent
              /\ n.alert = m.alert /\ n.donation = m.donation /\ n.asked = m.asked
<1> DEFINE flagged == [m EXCEPT !.requested = FALSE,
                                !.replace = @ /\ ~t.basket.cancelling /\ t.total # "closing"]
<1>1. CASE b.error
  BY <1>1 DEF TotalFlags
<1>2. CASE ~b.error /\ b.loyalty
  <2>1. TotalFlags(m, t, b) = PopToMain(m)
    BY <1>2 DEF TotalFlags
  <2> DEFINE n == PopToMain(m)
  <2>2. Fit(n, t, a) /\ n.sent = m.sent /\ m.asked \subseteq n.asked
    BY Returned DEF Leads, Fit
  <2> HIDE DEF n
  <2>3. Leads(n, t, a)
    BY <2>2, AllowedMonotonic DEF Leads
  <2> QED
    BY <1>2, <2>1, <2>3 DEF n
<1>3. CASE ~b.error /\ ~b.loyalty
  <2>1. TotalFlags(m, t, b) = flagged
    BY <1>3 DEF TotalFlags
  <2>2. /\ flagged \in MainScreen /\ flagged.stack = m.stack /\ flagged.asked = m.asked
        /\ flagged.frames = m.frames /\ flagged.sent = m.sent /\ flagged.alert = m.alert
        /\ flagged.donation = m.donation
    BY DEF Leads, Fit, MainScreen
  <2> HIDE DEF flagged
  <2>3. \A screen \in Range(flagged.stack) : Due(screen, flagged, t, a)
    BY <2>2, DueMonotonic DEF Leads, Fit, InOrder
  <2>4. Fit(flagged, t, a)
    BY <2>2, <2>3 DEF Leads, Fit, InOrder, Alone, BagsAsked
  <2>5. Leads(flagged, t, a)
    BY <2>2, <2>4, AllowedMonotonic DEF Leads
  <2> QED
    BY <2>1, <2>2, <2>5
<1> QED
  BY <1>1, <1>2, <1>3

\* The answer to a total opens the payment, the tax number, the receipt or main.
LEMMA MoveLeads ==
  ASSUME NEW m, NEW t, NEW a, Leads(m, t, a)
  PROVE  /\ Leads(TotalMove(m, t), t, a)
         /\ /\ Free(m) /\ m.sent = {} /\ m.alert = "none" /\ t.total # "none"
            /\ m.replace => Top(m) # "main"
            => Straight(TotalMove(m, t), t)
<1> DEFINE Settled == /\ Free(m) /\ m.sent = {} /\ m.alert = "none" /\ t.total # "none"
                      /\ m.replace => Top(m) # "main"
<1>0. Fit(m, t, a) /\ m \in MainScreen /\ Stacked(m.stack)
  BY DEF Leads, Fit, InOrder
<1>1. ASSUME NEW n, Fit(n, t, a), n.sent = m.sent, m.asked \subseteq n.asked,
             Settled => Straight(n, t), TotalMove(m, t) = n
      PROVE  Leads(TotalMove(m, t), t, a) /\ (Settled => Straight(TotalMove(m, t), t))
  BY <1>1, AllowedMonotonic DEF Leads
<1>2. CASE t.basket.cancelling
  <2> DEFINE n == PopToMain(m)
  <2>1. TotalMove(m, t) = n
    BY <1>2 DEF TotalMove
  <2>2. Fit(n, t, a) /\ n.sent = m.sent /\ m.asked \subseteq n.asked
    BY <1>0, Returned DEF Fit
  <2>3. Settled => Straight(n, t)
    <3> SUFFICES ASSUME Settled PROVE Straight(n, t)
      OBVIOUS
    <3>1. Straight(m, t) /\ ~m.requested /\ m.frames = <<>> /\ m.alert # "unsubscribe"
      BY FreeStraight DEF Calm, Free
    <3> QED
      BY <1>0, <3>1, ReturnFit
  <2> HIDE DEF n, Settled
  <2> QED
    BY <1>1, <2>1, <2>2, <2>3 DEF Settled
<1>3. CASE ~t.basket.cancelling /\ t.total = "closing"
  <2> DEFINE n == RequestFrame(m, "receiptSummary")
  <2>1. TotalMove(m, t) = n
    BY <1>3 DEF TotalMove
  <2>2. /\ n \in MainScreen /\ Range(n.frames) = Range(m.frames) \cup {"receiptSummary"}
        /\ m.frames = <<>> => n.frames = <<"receiptSummary">>
        /\ n.stack = m.stack /\ n.asked = m.asked /\ n.sent = m.sent /\ n.alert = m.alert
        /\ n.requested = m.requested
    BY <1>0, FrameFields DEF Frames
  <2> HIDE DEF n
  <2>3. Fit(n, t, a)
    <3>1. \A screen \in Range(n.stack) : Due(screen, n, t, a)
      BY <1>0, <2>2, DueMonotonic DEF Fit, InOrder
    <3> QED
      BY <1>0, <2>2, <3>1 DEF Fit, InOrder, Alone, BagsAsked
  <2>4. Settled => Straight(n, t)
    <3> SUFFICES ASSUME Settled PROVE Straight(n, t)
      OBVIOUS
    <3>1. Framed(n, t, "receiptSummary") /\ "receiptSummary" \in Frames
      BY <2>2 DEF Free, Framed, PaymentFrames, Frames
    <3> QED
      BY <2>2, <3>1 DEF Free, Straight, Top
  <2> HIDE DEF Settled
  <2> QED
    BY <1>1, <2>1, <2>2, <2>3, <2>4 DEF Settled
<1>4. CASE ~t.basket.cancelling /\ t.total # "closing" /\ cfg.nip /\ ~t.taxId
  <2>1. PICK s : /\ Follow(m, "customerNip") = Show(m, s) /\ Stacked(s)
                 /\ Last(s) = "customerNip" /\ Range(s) \subseteq Range(m.stack) \cup {"customerNip"}
                 /\ Head(m.stack) = "main" => Head(s) = "main"
    BY <1>0, Followed DEF Bottoms
  <2> DEFINE n == Show(m, s)
  <2>2. TotalMove(m, t) = n
    BY <1>4, <2>1 DEF TotalMove, MoveToNipOrPaymentScreen
  <2>3. /\ n \in MainScreen /\ n.stack = s /\ n.asked = m.asked \cup Range(s)
        /\ n.frames = m.frames /\ n.sent = m.sent /\ n.alert = m.alert
        /\ n.requested = m.requested
    BY <1>0, <2>1, ShowFields DEF Stacked
  <2>4. Fit(n, t, a)
    <3>1. Range(s) \subseteq Range(m.stack) \cup Outside
      BY <2>1 DEF Outside
    <3> QED
      BY <1>0, <2>1, <2>3, <3>1, OpenedOutside DEF Fit
  <2> HIDE DEF n
  <2>5. Settled => Straight(n, t)
    <3> SUFFICES ASSUME Settled PROVE Straight(n, t)
      OBVIOUS
    <3>1. Range(n.frames) = {}
      BY <2>3 DEF Free, Range
    <3>2. Paying(n, t)
      BY <2>1, <2>3, <3>1 DEF Free, Paying, PaymentScreens, Top
    <3> QED
      BY <2>1, <2>3, <3>2 DEF Free, Straight
  <2> HIDE DEF Settled
  <2> QED
    BY <1>1, <2>2, <2>3, <2>4, <2>5 DEF Settled
<1>5. CASE ~t.basket.cancelling /\ t.total # "closing" /\ ~(cfg.nip /\ ~t.taxId)
  <2> DEFINE n == MoveToPaymentScreen(m)
  <2>1. TotalMove(m, t) = n
    BY <1>5 DEF TotalMove, MoveToNipOrPaymentScreen
  <2>2. /\ Fit(n, t, a) /\ n.sent = m.sent /\ n.asked = m.asked
        /\ /\ Head(m.stack) = "main" /\ m.frames = <<>> /\ ~m.requested /\ m.alert = "none"
           /\ m.sent \subseteq {"taxCustomer", "background"} /\ t.total # "none"
           /\ m.replace => Top(m) # "main"
           /\ (\E screen \in PaymentScreens : screen \in Range(m.stack)) =>
                Top(m) \in PaymentScreens
           => Straight(n, t)
    BY <1>0, PaymentFit
  <2> HIDE DEF n
  <2>3. Settled => Straight(n, t)
    BY <2>2 DEF Free
  <2> HIDE DEF Settled
  <2> QED
    BY <1>1, <2>1, <2>2, <2>3 DEF Settled
<1> QED
  BY <1>2, <1>3, <1>4, <1>5

\* The screens that the answer of an operation is for.
Chained == {"reserve", "subscribe", "unsubscribe", "bagFee"}
Awaited == {"donation", "contact", "shipping", "assign", "voidDonation"}

LEMMA ContinuedLeads ==
  ASSUME NEW m, NEW t \in Transaction, NEW a, NEW b, Fit(m, t, a),
         b.event \in Chained, m.sent = {}, m.alert = "none", b.event = "bagFee" => BagsAsked(m)
  PROVE  LET n == Continued(m, t, b) IN
         Leads(n, t, a) /\ (Free(m) => Straight(n, t))
<1>1. Calm(m)
  BY DEF Calm
<1>2. CASE b.event = "reserve" /\ t.partial
  <2>1. /\ "unavailableQuantities" \in Screens \ (PaymentScreens \cup {"main", "itemSubscription"})
        /\ Due("unavailableQuantities", m, t, a)
    BY DEF Screens, PaymentScreens, Due, LateScreens, ContactScreens
  <2>2. Continued(m, t, b) = Push(m, "unavailableQuantities")
    BY <1>2 DEF Continued
  <2> QED
    BY <1>1, <2>1, <2>2, PushLeads
<1>3. CASE \/ b.event = "reserve" /\ ~t.partial
           \/ b.event \in {"subscribe", "unsubscribe"} /\ Top(m) = "itemSubscription"
  <2>1. Continued(m, t, b) = MoveFromOrSkipInventoryReserve(m, t, b)
    BY <1>3 DEF Continued
  <2> QED
    BY <2>1, ReserveLeads
<1>4. CASE b.event = "bagFee"
  <2>1. Continued(m, t, b) = MoveFromOrSkipBagFeeScreen(m, t)
    BY <1>4 DEF Continued
  <2> QED
    BY <1>4, <2>1, BagFeeLeads
<1>5. CASE b.event \in {"subscribe", "unsubscribe"} /\ Top(m) # "itemSubscription"
  <2>1. Continued(m, t, b) = m
    BY <1>5 DEF Continued
  <2> QED
    BY <1>1, <2>1, CalmLeads, FreeStraight
<1> QED
  BY <1>2, <1>3, <1>4, <1>5 DEF Chained

LEMMA UpdatedLeads ==
  ASSUME NEW m, NEW t \in Transaction, NEW a, NEW b, NEW before, Fit(m, t, a),
         before.stack = m.stack, b.event \in Awaited, m.sent = {}, m.alert = "none"
  PROVE  LET n == ScreenUpdated(m, t, b, before) IN
         /\ Leads(n, t, a)
         /\ Straight(m, t) /\ ~m.requested /\ m.frames = <<>>
            /\ (b.event # "voidDonation" => Free(m)) => Straight(n, t)
<1> DEFINE n == ScreenUpdated(m, t, b, before)
<1>1. Calm(m) /\ m.donation \in BOOLEAN
  BY DEF Calm, Fit, MainScreen
<1>2. ASSUME NEW screen, Mounted(before, screen), screen \notin Outside
      PROVE  /\ screen \in Range(m.stack) /\ screen \in m.asked /\ Due(screen, m, t, a)
             /\ Top(m) # "main"
  <2>1. screen \in Range(m.stack)
    BY <1>2 DEF Mounted
  <2>2. Top(m) # "main"
    BY <1>2, <2>1, OnTop DEF Outside
  <2> QED
    BY <1>2, <2>1, <2>2 DEF Fit, InOrder
<1>3. CASE n = m
  BY <1>1, <1>3, CalmLeads
<1>4. CASE n # m
  <2>0. ~b.error
    BY <1>4 DEF ScreenUpdated
  <2>1. CASE b.event = "donation" /\ Mounted(before, "donation")
    <3>1. n = HandleOnTotalTransactionRequested(m, t, m.donation)
      BY <2>0, <2>1 DEF ScreenUpdated
    <3>2. "donation" \in m.asked /\ Due("donation", m, t, a) /\ Top(m) # "main"
      BY <1>2, <2>1 DEF Outside
    <3>3. Allowed(m, t, a)
      BY <3>2 DEF Due, LateScreens, Allowed, DonationAsked
    <3> QED
      BY <1>1, <2>1, <3>1, <3>2, <3>3, TotalLeads
  <2>2. CASE b.event = "contact" /\ Mounted(before, "orderPickupDetailsConfirmation")
    <3> DEFINE pickup == "orderPickupDetailsConfirmation"
    <3>1. n = HandleDonationScreen(m, t, TRUE)
      BY <2>0, <2>2 DEF ScreenUpdated
    <3>2. pickup \in m.asked /\ Due(pickup, m, t, a) /\ Top(m) # "main"
      BY <1>2, <2>2 DEF Outside
    <3>3. BagsAsked(m) /\ CustomerAsked(m, t, a) /\ ContactAsked(m, t, a)
      BY <3>2 DEF Due, LateScreens, ContactScreens, ContactAsked
    <3> QED
      BY <1>1, <2>2, <3>1, <3>2, <3>3, DonationLeads
  <2>3. CASE /\ b.event = "contact" /\ ~Mounted(before, "orderPickupDetailsConfirmation")
             /\ Mounted(before, "orderDeliveryAddressConfirmation")
    <3>1. n = MoveFromOrderDeliveryAddress(m, t)
      BY <2>0, <2>3 DEF ScreenUpdated
    <3>2. Mounted(m, "orderDeliveryAddressConfirmation")
      BY <2>3 DEF Mounted
    <3> QED
      BY <2>3, <3>1, <3>2, DeliveryLeads
  <2>4. CASE b.event = "shipping" /\ Mounted(before, "shippingMethod")
    <3>1. n = HandleDonationScreen(m, t, TRUE)
      BY <2>0, <2>4 DEF ScreenUpdated
    <3>2. Due("shippingMethod", m, t, a) /\ Top(m) # "main"
      BY <1>2, <2>4 DEF Outside
    <3>3. BagsAsked(m) /\ CustomerAsked(m, t, a) /\ ContactAsked(m, t, a)
      BY <3>2 DEF Due, LateScreens
    <3> QED
      BY <1>1, <2>4, <3>1, <3>2, <3>3, DonationLeads
  <2>5. CASE b.event = "assign" /\ Mounted(before, "customer")
    <3>1. n = MoveFromCustomerScreen(m, t)
      BY <2>0, <2>5 DEF ScreenUpdated
    <3>2. /\ "customer" \in Range(m.stack) /\ "customer" \in m.asked
          /\ Due("customer", m, t, a) /\ Top(m) # "main"
      BY <1>2, <2>5 DEF Outside
    <3>3. BagsAsked(m)
      BY <3>2 DEF Due
    <3>4. Top(m) # "itemSubscription"
      BY <3>2, OnTop DEF Outside
    <3> QED
      BY <2>5, <3>1, <3>2, <3>3, <3>4, CustomerLeads
  <2>6. CASE b.event = "voidDonation" /\ Mounted(before, "payment")
    <3>1. n = PopToMain(m)
      BY <2>0, <2>6 DEF ScreenUpdated
    <3>2. /\ Fit(PopToMain(m), t, a) /\ PopToMain(m).sent = m.sent
          /\ Straight(m, t) /\ ~m.requested /\ m.frames = <<>> => Straight(PopToMain(m), t)
      BY ReturnFit
    <3> QED
      BY <3>1, <3>2 DEF Leads
  <2> QED
    BY <1>4, <2>0, <2>1, <2>2, <2>3, <2>4, <2>5, <2>6 DEF ScreenUpdated
<1> QED
  BY <1>3, <1>4

LEMMA Disarmed ==
  ASSUME NEW m \in MainScreen, NEW armed \in BOOLEAN, NEW t, NEW a
  PROVE  LET n == [m EXCEPT !.authorizing = armed] IN
         /\ n \in MainScreen /\ n.stack = m.stack /\ n.asked = m.asked /\ n.frames = m.frames
         /\ n.sent = m.sent /\ n.alert = m.alert /\ n.requested = m.requested
         /\ n.replace = m.replace
         /\ Leads(m, t, a) => Leads(n, t, a)
         /\ Straight(m, t) => Straight(n, t)
         /\ Free(m) => Free(n)
         /\ Begun(m) => Begun(n)
<1> DEFINE n == [m EXCEPT !.authorizing = armed]
<1>1. /\ n \in MainScreen /\ n.stack = m.stack /\ n.asked = m.asked /\ n.frames = m.frames
      /\ n.sent = m.sent /\ n.alert = m.alert /\ n.requested = m.requested
      /\ n.replace = m.replace
  BY DEF MainScreen
<1> HIDE DEF n
<1>2. \A screen \in Range(m.stack) : Due(screen, m, t, a) => Due(screen, n, t, a)
  BY <1>1, DueMonotonic
<1>3. Leads(m, t, a) => Leads(n, t, a)
  BY <1>1, <1>2, AllowedMonotonic DEF Leads, Fit, InOrder, Alone, BagsAsked
<1>4. Straight(m, t) => Straight(n, t)
  BY <1>1 DEF Straight, Requested, Framed, Paying, Top
<1>5. (Free(m) => Free(n)) /\ (Begun(m) => Begun(n))
  BY <1>1 DEF Free, Begun, Top
<1> QED
  BY <1>1, <1>3, <1>4, <1>5 DEF n

\* All that the screens do when the last answer has come.
LEMMA FallenLeads ==
  ASSUME NEW m, NEW t \in Transaction, NEW a,
         NEW b \in [event : Operations, error : BOOLEAN, loyalty : BOOLEAN],
         Leads(m, t, a), b.loyalty => b.event = "total",
         b.event \in Chained \cup Awaited \cup {"returnTotal"} => m.sent = {} /\ m.alert = "none",
         b.event = "bagFee" => BagsAsked(m),
         b.event = "returnTotal" => Begun(m)
  PROVE  /\ Leads(Fallen(m, t, b), t, a)
         /\ /\ ~m.requested /\ Straight(m, t)
            /\ b.event \in Chained \cup Awaited \cup {"returnTotal"} => m.frames = <<>>
            /\ b.event \in Chained \cup (Awaited \ {"voidDonation"}) \cup {"returnTotal"} => Free(m)
            => Straight(Fallen(m, t, b), t)
<1> DEFINE Clear ==
             /\ ~m.requested /\ Straight(m, t)
             /\ b.event \in Chained \cup Awaited \cup {"returnTotal"} => m.frames = <<>>
             /\ b.event \in Chained \cup (Awaited \ {"voidDonation"}) \cup {"returnTotal"} => Free(m)
           authorized == m.authorizing /\ ~b.error
           continued  == Continued(m, t, b)
           disarmed   == [continued EXCEPT !.authorizing = @ /\ ~authorized]
           flagged    == IF m.requested THEN TotalFlags(disarmed, t, b) ELSE disarmed
           updated    == ScreenUpdated(flagged, t, b, m)
           checked    == IF authorized /\ b.event = "returnTotal"
                         THEN CheckAndHandleOnTotalPressed(updated) ELSE updated
<1>d. Fallen(m, t, b) = IF m.requested /\ TotalRequestEnds(b)
                        THEN TotalMove(checked, t) ELSE checked
  BY DEF Fallen
<1>0. m \in MainScreen /\ b.event \in Operations /\ Fit(m, t, a)
  BY DEF Leads, Fit
<1>1. /\ Leads(continued, t, a)
      /\ b.event \notin Chained => continued = m
      /\ Clear => Straight(continued, t)
  <2>1. CASE b.event \in Chained
    BY <1>0, <2>1, ContinuedLeads
  <2>2. CASE b.event \notin Chained
    BY <1>0, <2>2 DEF Continued, Chained
  <2> QED
    BY <2>1, <2>2
<1>b1. disarmed = [continued EXCEPT !.authorizing = @ /\ ~authorized]
  OBVIOUS
<1>b2. flagged = IF m.requested THEN TotalFlags(disarmed, t, b) ELSE disarmed
  OBVIOUS
<1>b3. updated = ScreenUpdated(flagged, t, b, m)
  OBVIOUS
<1>b4. checked = IF authorized /\ b.event = "returnTotal"
                 THEN CheckAndHandleOnTotalPressed(updated) ELSE updated
  OBVIOUS
<1> HIDE DEF Clear, authorized, continued, disarmed, flagged, updated, checked
<1>2. /\ disarmed \in MainScreen /\ disarmed.stack = continued.stack
      /\ disarmed.asked = continued.asked
      /\ disarmed.frames = continued.frames /\ disarmed.sent = continued.sent
      /\ disarmed.alert = continued.alert /\ disarmed.requested = continued.requested
      /\ Leads(disarmed, t, a)
      /\ Clear => Straight(disarmed, t)
      /\ Free(continued) => Free(disarmed)
      /\ Begun(continued) => Begun(disarmed)
  <2>1. continued \in MainScreen
    BY <1>1 DEF Leads, Fit
  <2> DEFINE armed == continued.authorizing /\ ~authorized
  <2>2. disarmed = [continued EXCEPT !.authorizing = armed] /\ armed \in BOOLEAN
    BY <1>b1, <2>1 DEF MainScreen
  <2> HIDE DEF armed
  <2> QED
    BY <1>1, <2>1, <2>2, Disarmed
<1>3. /\ Leads(flagged, t, a)
      /\ b.event # "total" =>
           /\ flagged.stack = disarmed.stack /\ flagged.frames = disarmed.frames
           /\ flagged.sent = disarmed.sent /\ flagged.alert = disarmed.alert
           /\ flagged.asked = disarmed.asked
      /\ Clear => flagged = disarmed
  <2>1. CASE m.requested
    <3>1. flagged = TotalFlags(disarmed, t, b) /\ ~Clear
      BY <1>b2, <2>1 DEF Clear
    <3>2. b.event # "total" => ~b.loyalty
      OBVIOUS
    <3>4. Leads(disarmed, t, a)
      BY <1>2
    <3>3. /\ Leads(flagged, t, a)
          /\ ~b.loyalty =>
               /\ flagged.stack = disarmed.stack /\ flagged.frames = disarmed.frames
               /\ flagged.sent = disarmed.sent /\ flagged.alert = disarmed.alert
               /\ flagged.asked = disarmed.asked
      BY <3>1, <3>4, FlagsLeads
    <3> QED
      BY <3>1, <3>2, <3>3
  <2>2. CASE ~m.requested
    BY <1>2, <1>b2, <2>2
  <2> QED
    BY <2>1, <2>2
<1>4. /\ Leads(updated, t, a)
      /\ b.event \notin Awaited => updated = flagged
      /\ Clear => Straight(updated, t)
  <2>1. CASE b.event \in Awaited
    <3>1. continued = m
      BY <1>1, <2>1 DEF Awaited, Chained
    <3>2. flagged.stack = m.stack /\ flagged.sent = {} /\ flagged.alert = "none"
          /\ Fit(flagged, t, a)
      BY <1>2, <1>3, <2>1, <3>1 DEF Awaited, Leads
    <3>3. Clear => /\ Straight(flagged, t) /\ ~flagged.requested /\ flagged.frames = <<>>
                   /\ b.event # "voidDonation" => Free(flagged)
      BY <1>2, <1>3, <2>1, <3>1 DEF Clear
    <3> QED
      BY <1>b3, <2>1, <3>2, <3>3, UpdatedLeads DEF Awaited
  <2>2. CASE b.event \notin Awaited
    <3>1. updated = flagged
      BY <1>b3, <2>2 DEF ScreenUpdated, Awaited
    <3> QED
      BY <1>2, <1>3, <2>2, <3>1
  <2> QED
    BY <2>1, <2>2
<1>5. Leads(checked, t, a) /\ (Clear => Straight(checked, t))
  <2>1. CASE authorized /\ b.event = "returnTotal"
    <3>1. checked = CheckAndHandleOnTotalPressed(flagged)
      BY <1>4, <1>b4, <2>1 DEF Awaited
    <3>2. continued = m
      BY <1>1, <2>1 DEF Chained
    <3>3. Begun(flagged)
      BY <1>2, <1>3, <2>1, <3>2 DEF Begun, Leads, Fit
    <3>4. Clear => Free(flagged)
      BY <1>2, <1>3, <2>1, <3>2 DEF Clear
    <3> QED
      BY <3>1, <3>3, <3>4, PressedLeads
  <2>2. CASE ~(authorized /\ b.event = "returnTotal")
    BY <1>4, <1>b4, <2>2
  <2> QED
    BY <2>1, <2>2
<1>6. CASE m.requested /\ TotalRequestEnds(b)
  <2>1. ~Clear
    BY <1>6 DEF Clear
  <2> QED
    BY <1>5, <1>6, <1>d, <2>1, MoveLeads DEF Clear
<1>7. CASE ~(m.requested /\ TotalRequestEnds(b))
  BY <1>5, <1>7, <1>d DEF Clear
<1> QED
  BY <1>6, <1>7

\* Upon the last answer after a total, the payment is opened from where the chain ended.
LEMMA FallenTotalled ==
  ASSUME NEW m, NEW t \in Transaction, NEW a,
         NEW b \in [event : Operations, error : BOOLEAN, loyalty : BOOLEAN],
         Fit(m, t, a), m.sent = {}, m.alert = "none", m.requested, TotalRequestEnds(b),
         b.event \in {"total", "shipping", "unsubscribe", "background"},
         b.event = "shipping" => ~cfg.shipping,
         b.event = "unsubscribe" => Top(m) # "itemSubscription",
         Head(m.stack) = "main", m.frames = <<>>, t.total # "none",
         m.replace => Top(m) # "main",
         \A screen \in PaymentScreens : screen \notin Range(m.stack)
  PROVE  Straight(Fallen(m, t, b), t)
<1> DEFINE authorized == m.authorizing /\ ~b.error
           disarmed   == [m EXCEPT !.authorizing = @ /\ ~authorized]
           flagged    == TotalFlags(disarmed, t, b)
<1>1. Continued(m, t, b) = m
  BY DEF Continued
<1>2. ScreenUpdated(flagged, t, b, m) = flagged
  <2>1. b.event = "shipping" => ~Mounted(m, "shippingMethod")
    BY DEF Fit, InOrder, Due, Mounted
  <2> QED
    BY <2>1 DEF ScreenUpdated
<1>3. Fallen(m, t, b) = TotalMove(flagged, t)
  BY <1>1, <1>2 DEF Fallen
<1>4. /\ disarmed.stack = m.stack
      /\ disarmed.frames = m.frames /\ disarmed.sent = {} /\ disarmed.alert = "none"
      /\ disarmed.replace = m.replace /\ Leads(disarmed, t, a)
  <2> DEFINE armed == m.authorizing /\ ~authorized
  <2>1. m \in MainScreen
    BY DEF Fit
  <2>2. disarmed = [m EXCEPT !.authorizing = armed] /\ armed \in BOOLEAN
    BY <2>1 DEF MainScreen
  <2>3. Leads(m, t, a)
    BY DEF Leads
  <2> HIDE DEF armed, disarmed
  <2> QED
    BY <2>1, <2>2, <2>3, Disarmed
<1> HIDE DEF disarmed
<1>5. Leads(flagged, t, a)
  BY <1>4, FlagsLeads
<1>6. /\ flagged.stack = m.stack /\ flagged.frames = <<>> /\ flagged.sent = {}
      /\ flagged.alert = "none" /\ flagged.requested = FALSE
      /\ flagged.replace => m.replace
  <2>1. flagged = [disarmed EXCEPT !.requested = FALSE,
                     !.replace = @ /\ ~t.basket.cancelling /\ t.total # "closing"]
    BY DEF TotalFlags, TotalRequestEnds
  <2>2. disarmed \in MainScreen
    BY <1>4 DEF Leads, Fit
  <2> HIDE DEF flagged
  <2> QED
    BY <1>4, <2>1, <2>2 DEF MainScreen
<1> HIDE DEF flagged
<1>7. Free(flagged) /\ (flagged.replace => Top(flagged) # "main")
  BY <1>6 DEF Free, Top
<1> QED
  BY <1>3, <1>5, <1>6, <1>7, MoveLeads

LEMMA VoidedFields ==
  ASSUME NEW m \in MainScreen, Stacked(m.stack), NEW before, NEW t
  PROVE  LotteryVoided(m, before, t).requested = m.requested
<1> DEFINE o == [m EXCEPT !.voiding = FALSE]
           begun == [o EXCEPT !.asked = {}]
           s == Append(o.stack, "itemSubscription")
<1>1. o \in MainScreen /\ o.requested = m.requested /\ o.stack = m.stack
  BY DEF MainScreen
<1> HIDE DEF o
<1>2. begun \in MainScreen /\ begun.requested = m.requested /\ begun.stack = m.stack
  BY <1>1 DEF MainScreen
<1> HIDE DEF begun
<1>3. Show(begun, s).requested = m.requested
  <2>1. s \in Seq(Screens)
    BY <1>1, Pushed DEF Stacked, Screens, Outside
  <2> HIDE DEF s
  <2> QED
    BY <1>2, <2>1, ShowFields
<1>4. Send(begun, "reserve").requested = m.requested
  BY <1>2, SendFields DEF Operations
<1>5. CheckAndHandleOnTotalPressed(o).requested = m.requested
  BY <1>1, <1>2, <1>3, <1>4 DEF CheckAndHandleOnTotalPressed, Push, begun
<1>6. [Send(o, "returnTotal") EXCEPT !.authorizing = TRUE].requested = m.requested
  BY <1>1 DEF Send, MainScreen
<1> QED
  BY <1>5, <1>6 DEF LotteryVoided, HandleOnTotalPressedAfterValidation, o

LEMMA AnswerKept ==
  ASSUME IInv, NEW operation \in Operations, NEW error \in BOOLEAN, NEW loyalty \in BOOLEAN,
         Answer(operation, error, loyalty)
  PROVE  Kept
<1> DEFINE b == [event |-> operation, error |-> error, loyalty |-> loyalty]
           last == main.sent = {operation}
           a == astray'
           o == Without(operation)
<1>1. PICK t \in IF error THEN {trans} ELSE Outcomes(operation, trans) :
        /\ trans' = t /\ business' = b /\ UNCHANGED cfg
        /\ main' = IF last THEN Fallen(LotteryVoided(o, trans, t), t, b)
                           ELSE LotteryVoided(o, trans, t)
        /\ astray' = astray
             \cup {mark \in {"total"} : \/ operation = "total" /\ error
                                        \/ last /\ main.requested /\ ~TotalRequestEnds(b)}
             \cup {mark \in {"unsubscription"} : operation = "unsubscribe" /\ error}
  BY DEF Answer, Without
<1>2. /\ operation \in main.sent /\ (loyalty => operation = "total" /\ ~error)
      /\ astray \subseteq a
      /\ operation = "unsubscribe" /\ error => "unsubscription" \in a
      /\ "total" \notin a => /\ "total" \notin astray /\ (operation = "total" => ~error)
                             /\ last /\ main.requested => TotalRequestEnds(b)
      /\ a \in SUBSET {"total", "unsubscription"}
  BY <1>1 DEF Answer, IInv, TypeOK
<1>3. /\ b \in [event : Operations, error : BOOLEAN, loyalty : BOOLEAN]
      /\ b.event = operation /\ b.error = error /\ b.loyalty = loyalty
  OBVIOUS
<1>4. /\ o \in MainScreen /\ o.sent = main.sent \ {operation} /\ o.stack = main.stack
      /\ o.asked = main.asked /\ o.frames = main.frames /\ o.alert = main.alert
      /\ o.requested = main.requested /\ o.replace = main.replace
  BY WithoutFields
<1>5. t \in Transaction /\ Fit(o, t, a)
  BY <1>2, AnsweredFit
<1>6. "total" \notin a /\ (main.requested => ~last) => Straight(o, t)
  BY <1>2, AnsweredStraight
<1>7. /\ operation \notin {"item", "lottery"} => t.basket.lottery = trans.basket.lottery
      /\ operation \notin {"item", "subscribe", "voidLines", "total"} => t.total = trans.total
      /\ operation = "total" /\ ~error => t.total # "none"
  BY OutcomeFacts DEF IInv, TypeOK
<1>8. Alone(main) /\ InOrder(main, trans, astray) /\ ("total" \notin astray => Straight(main, trans))
  BY DEF IInv
<1>9. ASSUME operation \in Begins PROVE Begun(o)
  BY <1>2, <1>4, <1>5, <1>8, <1>9 DEF Alone, Begins, Begun, Fit, InOrder
<1> HIDE DEF b, a, o
<1>10. ASSUME Leads(main', t, a), "total" \notin a => Straight(main', t)
       PROVE  Kept
  BY <1>1, <1>2, <1>3, <1>5, <1>10 DEF Kept, Leads, TotalSent, a
<1>11. CASE operation \in {"item", "lottery"}
  <2> DEFINE m == LotteryVoided(o, trans, t)
  <2>1. Begun(o) /\ InOrder(o, t, a) /\ Alone(o)
    BY <1>5, <1>9, <1>11 DEF Begins, Fit
  <2>2. m.requested = main.requested
    BY <1>4, <2>1, VoidedFields DEF Begun
  <2>3. Leads(m, t, a) /\ (Free(o) => Straight(m, t))
    BY <2>1, VoidedLeads
  <2>4. ASSUME "total" \notin a PROVE ~m.requested /\ Straight(m, t)
    <3>1. ~main.requested
      BY <1>2, <1>8, <1>11, <2>4 DEF Straight, Requested
    <3>2. Free(o)
      BY <1>2, <1>11, <2>4, <3>1, AnsweredFree DEF Begins, o
    <3> QED
      BY <2>2, <2>3, <3>1, <3>2
  <2> HIDE DEF m
  <2>5. Leads(Fallen(m, t, b), t, a) /\ ("total" \notin a => Straight(Fallen(m, t, b), t))
    BY <1>2, <1>3, <1>5, <1>11, <2>3, <2>4, FallenLeads DEF Chained, Awaited
  <2>6. main' = m \/ main' = Fallen(m, t, b)
    BY <1>1 DEF m
  <2> QED
    BY <1>10, <2>3, <2>4, <2>5, <2>6
<1>12. CASE operation \notin {"item", "lottery"} /\ ~last
  <2>1. main' = o
    BY <1>1, <1>7, <1>12 DEF LotteryVoided
  <2> QED
    BY <1>1, <1>2, <1>3, <1>4, <1>5, <1>6, <1>12, <2>1 DEF Kept, TotalSent, a
<1>13. CASE operation \notin {"item", "lottery"} /\ last
  <2>1. main' = Fallen(o, t, b)
    BY <1>1, <1>7, <1>13 DEF LotteryVoided
  <2>2. /\ o.sent = {} /\ (operation # "background" => o.alert = "none")
        /\ operation = "bagFee" => BagsAsked(o)
    BY <1>2, <1>4, <1>8, <1>13 DEF Alone, InOrder, BagsAsked
  <2>3. Leads(o, t, a)
    BY <1>5, <2>2 DEF Leads
  <2>4. operation = "returnTotal" => Begun(o)
    BY <1>9 DEF Begins
  <2>5. /\ Leads(main', t, a)
        /\ /\ ~o.requested /\ Straight(o, t)
           /\ operation \in Chained \cup Awaited \cup {"returnTotal"} => o.frames = <<>>
           /\ operation \in Chained \cup (Awaited \ {"voidDonation"}) \cup {"returnTotal"} =>
                Free(o)
           => Straight(main', t)
    BY <1>2, <1>3, <1>5, <2>1, <2>2, <2>3, <2>4, FallenLeads DEF Chained, Awaited
  <2>6. ASSUME "total" \notin a, ~main.requested PROVE Straight(main', t)
    <3>1. operation \in Chained \cup (Awaited \ {"voidDonation"}) \cup {"returnTotal"} => Free(o)
      BY <1>2, <1>13, <2>6, AnsweredFree DEF Chained, Awaited, Begins, o
    <3>2. operation = "voidDonation" => o.frames = <<>>
      BY <1>2, <1>4, <1>8, <2>6 DEF Straight, Framed
    <3>3. Straight(o, t)
      BY <1>6, <2>6
    <3> QED
      BY <1>4, <2>5, <2>6, <3>1, <3>2, <3>3 DEF Free, Awaited
  <2>7. ASSUME "total" \notin a, main.requested PROVE Straight(main', t)
    <3>1. Straight(main, trans) /\ Requested(main, trans)
      BY <1>2, <1>8, <2>7 DEF Straight
    <3>2. /\ operation \in {"total", "shipping", "unsubscribe", "background"}
          /\ operation = "shipping" => ~cfg.shipping
          /\ t.total # "none" /\ o.alert = "none" /\ o.frames = <<>>
          /\ \A screen \in PaymentScreens : screen \notin Range(o.stack)
      BY <1>2, <1>4, <1>7, <1>13, <2>7, <3>1 DEF Requested
    <3>3. /\ Head(o.stack) = "main" /\ (o.replace => Top(o) # "main")
          /\ operation = "unsubscribe" => Top(o) # "itemSubscription"
      BY <1>2, <1>4, <3>1 DEF Straight, Requested, Top
    <3>4. TotalRequestEnds(b)
      BY <1>2, <1>13, <2>7
    <3> QED
      BY <1>3, <1>4, <1>5, <2>1, <2>2, <2>7, <3>2, <3>3, <3>4, FallenTotalled
  <2> QED
    BY <1>10, <2>5, <2>6, <2>7
<1> QED
  BY <1>11, <1>12, <1>13

-----------------------------------------------------------------------------
(* The theorems.                                                           *)

LEMMA InitIInv == Init => IInv
<1> SUFFICES ASSUME Init PROVE IInv
  OBVIOUS
<1>1. /\ cfg \in Configurations /\ trans = NewTransaction /\ astray = {}
      /\ business = [event |-> "item", error |-> FALSE, loyalty |-> FALSE]
      /\ main.stack = <<"main">> /\ main.frames = <<>> /\ main.sent = {}
      /\ main.alert = "none" /\ ~main.requested /\ main.asked = {}
  BY DEF Init
<1>2. /\ Stacked(main.stack) /\ Range(main.stack) = {"main"} /\ Head(main.stack) = "main"
      /\ Top(main) = "main" /\ Range(main.frames) = {}
  <2>1. /\ Stacked(main.stack) /\ Range(main.stack) = {"main"} /\ Head(main.stack) = "main"
        /\ Top(main) = "main"
    BY <1>1, MainAlone, Zenon DEF Top
  <2> QED
    BY <1>1, <2>1 DEF Range
<1>3. NewTransaction \in Transaction
  BY DEF NewTransaction, Transaction, Basket, Orders
<1>4. main \in MainScreen
  <2>1. main.stack \in Seq(Screens)
    BY <1>2 DEF Stacked
  <2> QED
    BY <1>1, <2>1 DEF Init, MainScreen
<1>5. TypeOK
  BY <1>1, <1>3, <1>4 DEF TypeOK, Operations
<1>6. InOrder(main, trans, astray)
  BY <1>1, <1>2, OutsideDue DEF Outside
<1>7. Alone(main)
  BY <1>1, <1>2 DEF Alone
<1>8. Straight(main, trans)
  BY <1>1, <1>2 DEF Straight, PaymentScreens
<1> QED
  BY <1>5, <1>6, <1>7, <1>8 DEF IInv

LEMMA NextKept ==
  ASSUME IInv, Next
  PROVE  Kept
<1>1. CASE \E operation \in Operations, error, loyalty \in BOOLEAN :
             Answer(operation, error, loyalty)
  BY <1>1, AnswerKept
<1>2. CASE \E yes \in BOOLEAN : AnswerAlert(yes)
  BY <1>2, AlertKept
<1>3. CASE Background \/ Frame \/ FinishTransaction
  BY <1>3, BackgroundKept, FrameKept, FinishKept
<1>4. CASE Item \/ HandleOnTotalPressed \/ UnavailableQuantities \/ ItemSubscription
  BY <1>4, ItemKept, TotalKept, UnavailableQuantitiesKept, ItemSubscriptionKept
<1>5. CASE BagFee \/ CustomerScreen \/ Contact \/ Shipping
  BY <1>5, BagFeeKept, CustomerScreenKept, ContactKept, ShippingKept
<1>6. CASE Donation \/ CustomerNip \/ OnEditTransaction
  BY <1>6, DonationKept, CustomerNipKept, EditKept
<1> QED
  BY <1>1, <1>2, <1>3, <1>4, <1>5, <1>6 DEF Next

LEMMA IInvInductive == IInv /\ [Next]_vars => IInv'
<1> SUFFICES ASSUME IInv, [Next]_vars PROVE IInv'
  OBVIOUS
<1>1. CASE Next
  BY <1>1, NextKept, KeptInductive
<1>2. CASE UNCHANGED vars
  BY <1>2 DEF vars, IInv, TypeOK, InOrder, Due, BagsAsked, CustomerAsked, ContactAsked, Taken,
              ShouldPromptForCustomer, ShouldRequireCustomer, Alone, Straight, Requested,
              Framed, Paying, Top
<1> QED
  BY <1>1, <1>2

LEMMA IInvAlways == Spec => []IInv
BY InitIInv, IInvInductive, PTL DEF Spec

\* The main screen, the transaction and the history keep their types, and the
\* stack holds only the screens of the chain.
THEOREM TypeCorrect == Spec => []TypeOK
<1>1. IInv => TypeOK
  BY DEF IInv
<1> QED
  BY <1>1, IInvAlways, PTL

\* As long as no total goes astray, whatever the store, the baskets and the
\* interleaving of answers, presses and frames, no replace of the navigator takes
\* the main screen, which drives the chain, from the bottom of the stack.
THEOREM MainStaysAlways == Spec => []MainStays
<1>1. IInv => MainStays
  BY DEF IInv, Straight, MainStays
<1> QED
  BY <1>1, IInvAlways, PTL

\* As long as no total goes astray, the payment or the tax number is on top only
\* for a transaction that the engine has totalled: the flags isTotalRequested and
\* shouldReplaceAction open it at no other answer.
THEOREM PaymentTotalledAlways == Spec => []PaymentTotalled
<1>1. IInv => PaymentTotalled
  BY OnTop DEF IInv, TypeOK, Fit, Straight, Paying, PaymentTotalled, PaymentScreens
<1> QED
  BY <1>1, IInvAlways, PTL

LEMMA TotalAllowedStep ==
  ASSUME IInv, [Next]_vars, TotalSent
  PROVE  Allowed(main, trans, astray)' /\ UNCHANGED cfg
<1>1. ~UNCHANGED vars
  BY DEF TotalSent, vars
<1>2. Kept
  BY <1>1, NextKept
<1> QED
  BY <1>2 DEF Kept, Allowed, BagsAsked, CustomerAsked, ContactAsked, DonationAsked, Taken,
              ShouldPromptForCustomer, ShouldRequireCustomer

\* No path of the chain requests a total for an order whose customer is required
\* and not known, whatever screens were skipped or left, answers failed or alerts
\* answered, also once a total has gone astray; but for a subscription that is being
\* taken back, or could not be.
THEOREM CustomerHeldAlways == Spec => CustomerHeld
<1>1. IInv /\ [Next]_vars =>
        [TotalSent => ~ShouldRequireCustomer(trans') \/ Unsubscription]_vars
  <2> SUFFICES ASSUME IInv, [Next]_vars, TotalSent
               PROVE  ~ShouldRequireCustomer(trans') \/ Unsubscription
    OBVIOUS
  <2> QED
    BY TotalAllowedStep DEF Allowed, CustomerAsked, Taken, Unsubscription, ShouldRequireCustomer
<1> QED
  BY <1>1, IInvAlways, PTL DEF Spec, CustomerHeld

\* Every path to the total shows the bag fee, the customer, the contact and the
\* donation where the configuration and the transaction call for them, since the
\* chain was begun.
THEOREM NothingSkippedAlways == Spec => NothingSkipped
<1> DEFINE Shown ==
  LET shown == main'.asked IN
       /\ cfg.bags => "bagFee" \in shown
       /\ ShouldPromptForCustomer(trans') => "customer" \in shown
       /\ cfg.donations /\ trans'.basket.due => "donation" \in shown
       /\ trans'.basket.order # "none" =>
            \/ "orderPickupDetailsConfirmation" \in shown
            \/ "orderDeliveryAddressConfirmation" \in shown
            \/ Unsubscription
<1>1. IInv /\ [Next]_vars => [TotalSent => Shown]_vars
  <2> SUFFICES ASSUME IInv, [Next]_vars, TotalSent PROVE Shown
    OBVIOUS
  <2> QED
    BY TotalAllowedStep DEF Allowed, BagsAsked, CustomerAsked, ContactAsked, DonationAsked,
                            Taken, Unsubscription, ShouldPromptForCustomer, ContactScreens
<1> QED
  BY <1>1, IInvAlways, PTL DEF Spec, NothingSkipped

=============================================================================
