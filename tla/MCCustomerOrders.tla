-------------------------- MODULE MCCustomerOrders --------------------------
EXTENDS CustomerOrders

CONSTANTS o1, o2

Entry(quantity, ready, cancel) == [quantity |-> quantity, ready |-> ready, cancel |-> cancel]

\* The first order has a line of unknown readiness, the second one that is
\* not ready; they share a line number, and the second has one more.
MCLines ==
  (o1 :> (1 :> Entry(2, "yes", TRUE) @@ 2 :> Entry(1, "unknown", TRUE))) @@
  (o2 :> (1 :> Entry(1, "no", TRUE) @@ 2 :> Entry(1, "yes", FALSE) @@ 3 :> Entry(1, "yes", TRUE)))
=============================================================================
