------------------------------ MODULE MCTotalling ------------------------------
(* Configurations and baskets for the model checker.                       *)
EXTENDS Totalling

With(options) == [option \in DOMAIN (CHOOSE c \in Configuration : TRUE) |-> option \in options]

MCConfigurations ==
  {With({"required", "subscriptions", "shipping"}),
   With({"required", "subscriptions", "donations"}),
   With({"prompt", "required", "donations", "phone"}),
   With({"bags", "donations", "nip"}),
   With({"bags", "prompt", "subscriptions", "donations"})}

Plain == [order |-> "none", lottery |-> FALSE, override |-> FALSE, due |-> TRUE,
          cancelling |-> FALSE]

MCBaskets ==
  {Plain,
   [Plain EXCEPT !.order = "pickup"],
   [Plain EXCEPT !.order = "delivery", !.lottery = TRUE],
   [Plain EXCEPT !.override = TRUE, !.due = FALSE],
   [Plain EXCEPT !.due = FALSE, !.cancelling = TRUE]}

=============================================================================
