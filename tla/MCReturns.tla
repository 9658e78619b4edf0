----------------------------- MODULE MCReturns -----------------------------
EXTENDS Returns

CONSTANTS t1, t2

Subline(kind, key, returnable, available) ==
  [kind |-> kind, key |-> key, returnable |-> returnable, available |-> available]

\* The first transaction has an item that was sold and one that was
\* fulfilled under the same key, the second an ordered item.
MCSublines ==
  (t1 :> <<Subline("Sale", "a", TRUE, 2), Subline("Fulfillment", "a", TRUE, 1)>>) @@
  (t2 :> <<Subline("Order", "a", TRUE, 1)>>)

MCKeyed == {-1, 1, 3}

Setting(oms, selectLine, multiple, returnAll) ==
  [oms |-> oms, selectLine |-> selectLine, multiple |-> multiple, returnAll |-> returnAll]

MCConfigurations == {Setting(TRUE, FALSE, TRUE, TRUE), Setting(TRUE, TRUE, FALSE, FALSE),
                     Setting(FALSE, FALSE, FALSE, TRUE)}
=============================================================================
