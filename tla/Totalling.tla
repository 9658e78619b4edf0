------------------------------- MODULE Totalling -------------------------------
(***************************************************************************)
(* The way from the basket to the payment, MainScreen.tsx: the Total       *)
(* button starts a chain of operations (lottery, supervisor, reservation,  *)
(* total) and of screens (subscriptions, bag fee, customer, contact,       *)
(* shipping, donation, tax number), each pushed on or replaced in the      *)
(* stack of the navigator.  The main screen learns of an answer only from  *)
(* the fall of businessState.inProgress, which counts the operations of    *)
(* all of the application, and keeps what it is about in flags of its own. *)
(*                                                                         *)
(* An action is a press of the user, an answer of the engine or a frame,   *)
(* with all that componentDidUpdate of the mounted screens and the         *)
(* callbacks of setState do upon it: operators take the main screen m and  *)
(* the transaction t, and give the main screen after them.                 *)
(*                                                                         *)
(* The captured order and prompts of the closures (onSkipBagFee, onExit)   *)
(* are the current ones, since nothing changes the transaction while the   *)
(* screen that holds them is open.                                         *)
(***************************************************************************)
EXTENDS Sequences, SequencesExt, FiniteSets

CONSTANTS Configurations, \* the configurations of the store that are looked at
          Baskets         \* what the basket may become by an item

Orders == {"none", "pickup", "delivery", "subscription"}

\* What the configuration says: a customer is asked for at payment or for
\* returns, required for orders; there are eligible subscriptions to confirm,
\* bag fees, donations, several shipping methods, the Polish tax number, and
\* the customer is displayed on a screen of its own, as the phone does.
Configuration == [{"prompt", "required", "subscriptions", "bags", "donations",
                   "shipping", "nip", "phone"} -> BOOLEAN]

\* The order in the basket, a lottery code below the minimum, a return to be
\* overridden, a positive balance, a reserved order that is cancelled.
Basket == [order : Orders, lottery : BOOLEAN, override : BOOLEAN, due : BOOLEAN,
           cancelling : BOOLEAN]

ASSUME TotallingAssumption == /\ Configurations \subseteq Configuration
                              /\ Baskets \subseteq Basket

VARIABLES cfg,      \* the configuration, which does not change
          trans,    \* the transaction, as the state values of the last answer tell it
          business, \* the last answer: its event, whether an error, discounts removed
          main,     \* the navigator's stack, the frames requested, the state of MainScreen
          astray    \* history: "total" if a total has failed, or been left requested,
                    \* "unsubscription" if one has failed, since the last press of
                    \* Total (but a total left requested before it counts)

vars == <<cfg, trans, business, main, astray>>

NewTransaction ==
  [open |-> FALSE, basket |-> [order |-> "none", lottery |-> FALSE, override |-> FALSE,
                               due |-> FALSE, cancelling |-> FALSE],
   customer |-> FALSE, partial |-> FALSE, donated |-> FALSE, taxId |-> FALSE,
   total |-> "none"]

Operations == {"item", "lottery", "returnTotal", "reserve", "subscribe", "unsubscribe",
               "bagFee", "assign", "contact", "shipping", "donation", "voidDonation",
               "voidLines", "taxCustomer", "total", "background"}

Init ==
  /\ cfg \in Configurations
  /\ trans = NewTransaction
  /\ business = [event |-> "item", error |-> FALSE, loyalty |-> FALSE]
  /\ main = [stack |-> <<"main">>, frames |-> <<>>, sent |-> {}, alert |-> "none",
             requested |-> FALSE, replace |-> FALSE, voiding |-> FALSE,
             authorizing |-> FALSE, donation |-> FALSE, asked |-> {}]
  /\ astray = {}

-----------------------------------------------------------------------------
(* The navigator.                                                          *)

Top(m) == Last(m.stack)
Mounted(m, screen) == screen \in Range(m.stack)

Show(m, stack) == [m EXCEPT !.stack = stack, !.asked = @ \cup Range(stack)]
Push(m, screen) == Show(m, Append(m.stack, screen))
Replace(m, screen) == Show(m, Append(Front(m.stack), screen))
Pop(m) == Show(m, Front(m.stack))

\* popTo finds nothing, and does nothing, when the main screen has been replaced.
PopToMain(m) == IF Head(m.stack) = "main" THEN Show(m, <<"main">>) ELSE m

\* A screen of the chain takes the place of the one before it, but of the main one.
Follow(m, screen) == IF Top(m) # "main" THEN Replace(m, screen) ELSE Push(m, screen)

Send(m, operation) == [m EXCEPT !.sent = @ \cup {operation}]
RequestFrame(m, frame) == [m EXCEPT !.frames = Append(@, frame)]

-----------------------------------------------------------------------------
(* The chain, from its end to its start.                                   *)

TotalAllowed(t) == t.open /\ t.total # "closing"

ShouldPromptForCustomer(t) == cfg.prompt /\ ~t.customer
ShouldRequireCustomer(t) == cfg.required /\ ~t.customer /\ t.basket.order # "none"

MoveToPaymentScreen(m) ==
  RequestFrame(m, IF m.replace THEN "replacePayment" ELSE "payment")

MoveToNipOrPaymentScreen(m, t) ==
  IF cfg.nip /\ ~t.taxId THEN Follow(m, "customerNip") ELSE MoveToPaymentScreen(m)

HandleOnTotalTransactionRequested(m, t, replace) ==
  IF TotalAllowed(t)
  THEN [Send(m, "total") EXCEPT !.requested = TRUE, !.replace = replace]
  ELSE m

HandleDonationScreen(m, t, replace) ==
  IF cfg.donations /\ t.basket.due
  THEN [Follow(m, "donation") EXCEPT !.donation = replace]
  ELSE HandleOnTotalTransactionRequested(m, t, replace)

\* The error of handing over replaceAction also where nothing is above main.
MoveToPickupOrDelivery_Replaces(m, t) ==
  CASE t.basket.order = "pickup" -> Push(m, "orderPickupDetailsConfirmation")
    [] t.basket.order \in {"delivery", "subscription"} ->
         Push(m, "orderDeliveryAddressConfirmation")
    [] OTHER -> HandleDonationScreen(m, t, TRUE)

MoveToPickupOrDelivery(m, t) ==
  CASE t.basket.order = "pickup" -> Push(m, "orderPickupDetailsConfirmation")
    [] t.basket.order \in {"delivery", "subscription"} ->
         Push(m, "orderDeliveryAddressConfirmation")
    [] OTHER -> HandleDonationScreen(m, t, FALSE)

\* The error of not looking for the customer again when its screen is left.
MoveFromCustomerScreen_Trusting(m, t) ==
  IF t.basket.order # "none" THEN MoveToPickupOrDelivery(m, t)
                             ELSE HandleDonationScreen(m, t, TRUE)

MoveFromCustomerScreen(m, t) ==
  IF ShouldRequireCustomer(t)
  THEN IF t.basket.order = "subscription" THEN [m EXCEPT !.alert = "unsubscribe"]
                                          ELSE PopToMain(m)
  ELSE IF t.basket.order # "none" THEN MoveToPickupOrDelivery(m, t)
                                  ELSE HandleDonationScreen(m, t, TRUE)

\* Not when the mode of the customer search is set, that is while it is mounted.
MoveToCustomerScreen(m) == IF Mounted(m, "customer") THEN m ELSE Follow(m, "customer")

\* The error of going on to the donation from the bag fee.
MoveFromOrSkipBagFeeScreen_Short(m, t) ==
  IF ShouldPromptForCustomer(t) \/ ShouldRequireCustomer(t)
  THEN RequestFrame(m, "customer")
  ELSE HandleDonationScreen(m, t, FALSE)

MoveFromOrSkipBagFeeScreen(m, t) ==
  IF ShouldPromptForCustomer(t) \/ ShouldRequireCustomer(t)
  THEN RequestFrame(m, "customer")
  ELSE MoveToPickupOrDelivery(m, t)

MoveToBagScreen(m) ==
  IF Top(m) = "itemSubscription" THEN Replace(m, "bagFee") ELSE Push(m, "bagFee")

MoveFromOrSkipInventoryReserve(m, t, b) ==
  CASE b.error -> m
    [] ~b.error /\ cfg.bags -> MoveToBagScreen(m)
    [] OTHER -> MoveFromOrSkipBagFeeScreen(m, t)

CheckAndHandleOnTotalPressed(m) ==
  LET begun == [m EXCEPT !.asked = {}] IN
  IF cfg.subscriptions THEN Push(begun, "itemSubscription") ELSE Send(begun, "reserve")

HandleOnTotalPressedAfterValidation(m, t) ==
  IF t.basket.override THEN [Send(m, "returnTotal") EXCEPT !.authorizing = TRUE]
                       ELSE CheckAndHandleOnTotalPressed(m)

\* Without a shipping method to choose, the fee and what follows it are
\* requested together.
MoveFromOrderDeliveryAddress(m, t) ==
  CASE t.basket.order = "subscription" -> HandleDonationScreen(m, t, TRUE)
    [] t.basket.order # "subscription" /\ cfg.shipping -> Replace(m, "shippingMethod")
    [] OTHER -> HandleDonationScreen(Send(m, "shipping"), t, TRUE)

-----------------------------------------------------------------------------
(* What the mounted screens do upon an answer.                             *)

\* isVoidLotteryCode: the total goes on when the code is gone, whoever removed it.
LotteryVoided(m, before, t) ==
  IF m.voiding /\ before.basket.lottery /\ ~t.basket.lottery
  THEN HandleOnTotalPressedAfterValidation([m EXCEPT !.voiding = FALSE], t)
  ELSE m

Continued(m, t, b) ==
  CASE b.event = "reserve" /\ t.partial -> Push(m, "unavailableQuantities")
    [] b.event = "reserve" /\ ~t.partial -> MoveFromOrSkipInventoryReserve(m, t, b)
    [] b.event \in {"subscribe", "unsubscribe"} /\ Top(m) = "itemSubscription" ->
         MoveFromOrSkipInventoryReserve(m, t, b)
    [] b.event = "bagFee" -> MoveFromOrSkipBagFeeScreen(m, t)
    [] OTHER -> m

\* What checkAndHandleTotalTransactionRequested sets of the state, and what its
\* callback does once the state is set.
TotalRequestEnds(b) == ~b.error /\ ~b.loyalty

\* The error of leaving the total requested when the payment is opened.
TotalFlags_Kept(m, t, b) ==
  CASE b.error -> m
    [] ~b.error /\ b.loyalty -> PopToMain(m)
    [] OTHER -> [m EXCEPT !.requested = ~t.basket.cancelling /\ t.total # "closing",
                          !.replace = @ /\ ~t.basket.cancelling /\ t.total # "closing"]

TotalFlags(m, t, b) ==
  CASE b.error -> m
    [] ~b.error /\ b.loyalty -> PopToMain(m)
    [] OTHER -> [m EXCEPT !.requested = FALSE,
                          !.replace = @ /\ ~t.basket.cancelling /\ t.total # "closing"]

TotalMove(m, t) ==
  CASE t.basket.cancelling -> PopToMain(m)
    [] ~t.basket.cancelling /\ t.total = "closing" -> RequestFrame(m, "receiptSummary")
    [] OTHER -> MoveToNipOrPaymentScreen(m, t)

\* componentDidUpdate of the screen above main that waits for this event.
ScreenUpdated(m, t, b, before) ==
  IF b.error THEN m ELSE
  CASE b.event = "donation" /\ Mounted(before, "donation") ->
         HandleOnTotalTransactionRequested(m, t, m.donation)
    [] b.event = "contact" /\ Mounted(before, "orderPickupDetailsConfirmation") ->
         HandleDonationScreen(m, t, TRUE)
    [] b.event = "contact" /\ ~Mounted(before, "orderPickupDetailsConfirmation")
                           /\ Mounted(before, "orderDeliveryAddressConfirmation") ->
         MoveFromOrderDeliveryAddress(m, t)
    [] b.event = "shipping" /\ Mounted(before, "shippingMethod") ->
         HandleDonationScreen(m, t, TRUE)
    [] b.event = "assign" /\ Mounted(before, "customer") -> MoveFromCustomerScreen(m, t)
    [] b.event = "voidDonation" /\ Mounted(before, "payment") -> PopToMain(m)
    [] OTHER -> m

\* The flags are read as they were before the update; main is updated before the
\* screens above it, the callbacks of its setState come last.
Fallen(m, t, b) ==
  LET authorized == m.authorizing /\ ~b.error
      totalled   == m.requested
      continued  == Continued(m, t, b)
      disarmed   == [continued EXCEPT !.authorizing = @ /\ ~authorized]
      flagged    == IF totalled THEN TotalFlags(disarmed, t, b) ELSE disarmed
      updated    == ScreenUpdated(flagged, t, b, m)
      checked    == IF authorized /\ b.event = "returnTotal"
                    THEN CheckAndHandleOnTotalPressed(updated) ELSE updated
  IN  IF totalled /\ TotalRequestEnds(b) THEN TotalMove(checked, t) ELSE checked

-----------------------------------------------------------------------------
(* The engine, as its answers show it.                                     *)

Outcomes(operation, t) ==
  CASE operation = "item" ->
         {[t EXCEPT !.open = TRUE, !.basket = basket, !.total = "none", !.partial = FALSE] :
            basket \in Baskets}
    [] operation = "lottery" -> {[t EXCEPT !.basket.lottery = FALSE]}
    [] operation = "returnTotal" -> {[t EXCEPT !.basket.override = FALSE]}
    [] operation = "reserve" -> {[t EXCEPT !.partial = partial] : partial \in BOOLEAN}
    [] operation = "subscribe" ->
         {[t EXCEPT !.basket.order = order, !.total = "none"] :
            order \in {t.basket.order, "subscription"}}
    [] operation = "unsubscribe" -> {[t EXCEPT !.basket.order = "none"]}
    [] operation = "assign" -> {[t EXCEPT !.customer = TRUE]}
    [] operation = "donation" -> {[t EXCEPT !.donated = TRUE]}
    [] operation = "voidDonation" -> {[t EXCEPT !.donated = FALSE]}
    [] operation = "voidLines" -> {[t EXCEPT !.partial = FALSE, !.total = "none"]}
    [] operation = "taxCustomer" -> {[t EXCEPT !.taxId = TRUE]}
    [] operation = "total" -> {[t EXCEPT !.total = total] : total \in {"tender", "closing"}}
    [] OTHER -> {t}

\* An answer counts the operation out; the screens act only when it was the last.
Answer(operation, error, loyalty) ==
  /\ operation \in main.sent
  /\ loyalty => operation = "total" /\ ~error
  /\ \E t \in IF error THEN {trans} ELSE Outcomes(operation, trans) :
       LET b == [event |-> operation, error |-> error, loyalty |-> loyalty]
           last == main.sent = {operation}
           m == LotteryVoided([main EXCEPT !.sent = @ \ {operation}], trans, t)
       IN  /\ trans' = t
           /\ business' = b
           /\ main' = IF last THEN Fallen(m, t, b) ELSE m
           /\ astray' = astray
                \cup {mark \in {"total"} : \/ operation = "total" /\ error
                                           \/ last /\ main.requested /\ ~TotalRequestEnds(b)}
                \cup {mark \in {"unsubscription"} : operation = "unsubscribe" /\ error}
  /\ UNCHANGED cfg

\* An operation that no screen asked for: a notification of a device or of a payment.
Background ==
  /\ "background" \notin main.sent
  /\ main' = Send(main, "background")
  /\ UNCHANGED <<cfg, trans, business, astray>>

Frame ==
  /\ main.frames # <<>>
  /\ LET m == [main EXCEPT !.frames = Tail(@)]
         frame == Head(main.frames)
     IN  main' = CASE frame = "customer" -> MoveToCustomerScreen(m)
                   [] frame = "replacePayment" -> Replace(m, "payment")
                   [] OTHER -> Push(m, frame)
  /\ UNCHANGED <<cfg, trans, business, astray>>

-----------------------------------------------------------------------------
(* The presses.  The loading dialog covers the screens while an operation  *)
(* is under way, and a frame comes before the next press.                  *)

Pressed(screen, m) ==
  /\ main.sent = {} /\ main.frames = <<>> /\ main.alert = "none"
  /\ Top(main) = screen
  /\ main' = m
  /\ UNCHANGED <<cfg, trans, business>>

Item == Pressed("main", Send(main, "item")) /\ UNCHANGED astray

HandleOnTotalPressed ==
  /\ TotalAllowed(trans)
  /\ Pressed("main", IF trans.basket.lottery THEN [main EXCEPT !.alert = "lottery"]
                     ELSE HandleOnTotalPressedAfterValidation(main, trans))
  /\ astray' = {mark \in {"total"} : main.requested}

\* The two alerts, each with a button to go on.
AnswerAlert(yes) ==
  /\ main.alert # "none"
  /\ LET m == [main EXCEPT !.alert = "none"] IN
     main' = CASE ~yes -> m
               [] yes /\ main.alert = "lottery" ->
                    [Send(m, "lottery") EXCEPT !.voiding = TRUE]
               [] OTHER -> HandleDonationScreen(Send(m, "unsubscribe"), trans, TRUE)
  /\ UNCHANGED <<cfg, trans, business, astray>>

UnavailableQuantities ==
  /\ \/ Pressed("unavailableQuantities", PopToMain(Send(main, "voidLines")))
     \/ Pressed("unavailableQuantities", Pop(main))
  /\ UNCHANGED astray

ItemSubscription ==
  /\ \/ Pressed("itemSubscription", Send(main, "subscribe"))
     \/ Pressed("itemSubscription", PopToMain(main))
  /\ UNCHANGED astray

BagFee ==
  /\ \/ Pressed("bagFee", Send(main, "bagFee"))
     \/ Pressed("bagFee", MoveFromOrSkipBagFeeScreen(main, trans))
     \/ Pressed("bagFee", Pop(main))
  /\ UNCHANGED astray

\* Skipping and going back are the same callback; the phone shows the customer
\* found on a screen of its own.
CustomerScreen ==
  /\ \/ Pressed("customer", MoveFromCustomerScreen(main, trans))
     \/ Pressed("customer", IF cfg.phone THEN Push(main, "customerDisplay")
                                         ELSE Send(main, "assign"))
     \/ Pressed("customerDisplay", Send(main, "assign"))
     \/ Pressed("customerDisplay", Pop(main))
  /\ UNCHANGED astray

Contact ==
  /\ \E screen \in {"orderPickupDetailsConfirmation", "orderDeliveryAddressConfirmation"} :
       \/ Pressed(screen, Send(main, "contact"))
       \/ Pressed(screen, PopToMain(main))
  /\ UNCHANGED astray

Shipping ==
  /\ \/ Pressed("shippingMethod", Send(main, "shipping"))
     \/ Pressed("shippingMethod", Pop(main))
  /\ UNCHANGED astray

Donation ==
  /\ \/ Pressed("donation", Send(main, "donation"))
     \/ Pressed("donation", HandleOnTotalTransactionRequested(main, trans, main.donation))
     \/ Pressed("donation", PopToMain(main))
  /\ UNCHANGED astray

\* The number, which may be left empty, is requested and the payment opened at once.
CustomerNip ==
  /\ \/ Pressed("customerNip", MoveToPaymentScreen(Send(main, "taxCustomer")))
     \/ Pressed("customerNip", MoveToPaymentScreen(main))
     \/ Pressed("customerNip", PopToMain(main))
  /\ UNCHANGED astray

OnEditTransaction ==
  /\ Pressed("payment", IF trans.donated THEN Send(main, "voidDonation")
                                         ELSE PopToMain(main))
  /\ UNCHANGED astray

\* The transaction is paid, or its receipt given, and cleared.
FinishTransaction ==
  /\ main.sent = {} /\ main.frames = <<>> /\ main.alert = "none"
  /\ Top(main) \in {"payment", "receiptSummary"}
  /\ Head(main.stack) = "main"
  /\ trans' = NewTransaction
  /\ main' = LotteryVoided(PopToMain(main), trans, NewTransaction)
  /\ UNCHANGED <<cfg, business, astray>>

Next ==
  \/ \E operation \in Operations, error, loyalty \in BOOLEAN : Answer(operation, error, loyalty)
  \/ Background \/ Frame
  \/ Item \/ HandleOnTotalPressed \/ \E yes \in BOOLEAN : AnswerAlert(yes)
  \/ UnavailableQuantities \/ ItemSubscription \/ BagFee \/ CustomerScreen \/ Contact
  \/ Shipping \/ Donation \/ CustomerNip \/ OnEditTransaction \/ FinishTransaction

Spec == Init /\ [][Next]_vars

-----------------------------------------------------------------------------
(* Properties.                                                             *)

\* The payment, or the tax number asked for before it, is open only for a
\* transaction the engine has totalled, unless a total failed or was left
\* requested: the flag that opens it is not about the answer it is read at.
PaymentTotalled ==
  "total" \in astray \/ Top(main) \notin {"payment", "customerNip"} \/ trans.total # "none"

\* The main screen, which drives the chain, stays at the bottom of the stack:
\* what replaces the screen on top one frame later never finds main there.
MainStays == "total" \in astray \/ Head(main.stack) = "main"

TotalSent == "total" \in main'.sent \ main.sent

\* The subscriptions are being taken back, or that has failed: the alert goes on
\* along the chain without waiting for the answer.
Unsubscription == "unsubscribe" \in main'.sent \/ "unsubscription" \in astray'

\* No total is requested for an order that needs a customer and has none, unless
\* it was to be an order no more: the subscriptions that make it one are being
\* taken back, or could not be.
CustomerHeld ==
  [][TotalSent => ~ShouldRequireCustomer(trans') \/ Unsubscription]_vars

\* No total is requested before each screen the transaction calls for has been
\* shown since the chain was begun.
NothingSkipped ==
  [][TotalSent =>
       LET shown == main'.asked IN
       /\ cfg.bags => "bagFee" \in shown
       /\ ShouldPromptForCustomer(trans') => "customer" \in shown
       /\ cfg.donations /\ trans'.basket.due => "donation" \in shown
       /\ trans'.basket.order # "none" =>
            \/ "orderPickupDetailsConfirmation" \in shown
            \/ "orderDeliveryAddressConfirmation" \in shown
            \/ Unsubscription]_vars

=============================================================================
